------------------------ MODULE FeaturePipelineProofs ------------------------
(***************************************************************************)
(* The proofs about the pipeline of one feature, for every value of the    *)
(* retry limits.                                                           *)
(***************************************************************************)
EXTENDS FeaturePipeline, TLAPS

Running == pc \in {"enter", "agent", "ended", "verify"}

\* What each suspension point of the call knows: the state whose processor is
\* suspended, the guards it has passed, and what its result may be.
StepInv ==
  /\ pc \in {"agent", "ended"} => state = "EXECUTE" /\ ctx.retry < MaxAgentRetries
  /\ pc = "verify" => state = "MERGE" /\ ctx.merge < MaxMergeRetries
  /\ pc \in {"agent", "ended", "verify", "exit"} =>
       transitions < MaxTransitions /\ sameState < MaxSameState
  /\ Running /\ state # "ESCALATE" =>
       ctx.infra <= MaxInfraRetries /\ ctx.gate < MaxGateRejections
  /\ pc = "exit" /\ result.goOn /\ result.next # "ESCALATE" =>
       ctx.infra <= MaxInfraRetries /\ ctx.gate < MaxGateRejections
  /\ pc = "exit" /\ result.goOn => result.next \notin {None, "DONE"}
  /\ pc = "exit" /\ ~result.goOn => result.next \in {None, "ESCALATE", "DONE"}
  /\ pc = "exit" /\ result.next = "DONE" => state = "DEPLOY"

\* DEPLOY is entered, and a checkpoint for it saved, only after the merge.
MergeInv ==
  /\ status = "done" => pr = "merged"
  /\ pc = "enter" /\ state = "DEPLOY" => pr = "merged"
  /\ pc = "exit" /\ result.next = "DEPLOY" => pr = "merged"
  /\ checkpoint # None /\ checkpoint.state = "DEPLOY" => pr = "merged"

\* Between two processors the checkpoint holds the counters of the call, and
\* EXECUTE changes neither of the two.
CounterInv ==
  checkpoint # None =>
    /\ Running \/ (pc = "exit" /\ state = "EXECUTE") =>
         ctx.remediation = checkpoint.remediation /\ ctx.merge = checkpoint.merge
    /\ pc \notin {"idle", "called"} =>
         /\ ctx.remediation \in {checkpoint.remediation, checkpoint.remediation + 1}
         /\ ctx.merge \in {checkpoint.merge, checkpoint.merge + 1}
         /\ checkpoint.retry <= ctx.retry

\* The shortest way to a state, the transitions the retries and remediations so
\* far have cost, and the most a call can need.
Way(s) == CASE s = "INTAKE" -> 0 [] s = "PLAN" -> 1 [] s = "EXECUTE" -> 2
            [] s = "REVIEW" -> 3 [] s = "MERGE" -> 4 [] OTHER -> 5
Detours == ctx.retry + ctx.infra + 2 * ctx.remediation
Longest == 4 + MaxAgentRetries + MaxInfraRetries + 2 * MaxRemediations

Reviewable == {"REVIEW", "MERGE", "DEPLOY"}

\* The number of transitions is explained by the way to the state and the detours,
\* and who reaches REVIEW has a retry left.
Explained ==
  /\ transitions <= Longest
  /\ Running /\ state \notin {"ESCALATE", "DONE"} => transitions <= Way(state) + Detours
  /\ pc = "enter" /\ state = "DONE" => transitions = 0
  /\ pc = "exit" /\ result.next = "ESCALATE" /\ result.goOn => transitions + 1 <= Longest
  /\ pc = "exit" /\ result.next \in States \ {"ESCALATE"} =>
       IF result.next = state /\ state # "EXECUTE"
         THEN transitions <= Way(result.next) + Detours
         ELSE transitions + 1 <= Way(result.next) + Detours
  /\ Running /\ state \in Reviewable => ctx.retry < MaxAgentRetries
  /\ pc = "exit" /\ result.next \in Reviewable => ctx.retry < MaxAgentRetries
  /\ checkpoint # None /\ checkpoint.state \in Reviewable => checkpoint.retry < MaxAgentRetries
  /\ pc = "exit" /\ state = "EXECUTE" /\ result.next # "EXECUTE" =>
       result.next \in {None, "ESCALATE"} \/ ctx.pr
  /\ pc = "ended" /\ report = "ok" => pr # "none"

\* Once the feature is deleted, errors lead to ESCALATE from anywhere.
BudgetInv == status # "gone" => Explained

-----------------------------------------------------------------------------
\* A processor that returns leaves the call at the exit with a typed result, and
\* the loop's variables as they were.
LEMMA Returns ==
  ASSUME NEW n \in States \cup {"DONE", None}, returns(n)
  PROVE  /\ result' \in Results /\ result'.next = n /\ result'.goOn
         /\ pc' = "exit"
         /\ UNCHANGED <<state, transitions, sameState, checkpoint, outcome>>
BY DEF returns, returnsFor, Results, Reasons, machineVars

\* The same for one that gives a reason.
LEMMA ReturnsFor ==
  ASSUME NEW n \in States \cup {"DONE", None}, NEW r \in Reasons, returnsFor(n, TRUE, r)
  PROVE  /\ result' \in Results /\ result'.next = n /\ result'.goOn
         /\ pc' = "exit"
         /\ UNCHANGED <<state, transitions, sameState, checkpoint, outcome>>
BY DEF returnsFor, Results, machineVars

\* A processor that ends the call says so in a typed result.
LEMMA StopsAt ==
  ASSUME NEW n \in States \cup {"DONE", None}, stopsAt(n)
  PROVE  /\ result' \in Results /\ result'.next = n /\ ~result'.goOn
         /\ pc' = "exit"
         /\ UNCHANGED <<state, transitions, sameState, checkpoint, outcome>>
BY DEF stopsAt, returnsFor, Results, Reasons, machineVars

\* What a call starts from is typed.
LEMMA FreshTyped ==
  /\ NoResult \in Results
  /\ FreshContext \in Context /\ FreshContext.infra = 0 /\ FreshContext.gate = 0
BY PipelineAssumption DEF NoResult, Results, Reasons, FreshContext, Context

\* What a resumed call starts from is typed, and the counters that are not saved are zero.
LEMMA RestoredTyped ==
  ASSUME NEW cp \in Checkpoints, NEW b \in BOOLEAN
  PROVE  /\ [restoreContext(cp) EXCEPT !.pr = @ \/ b] \in Context
         /\ [restoreContext(cp) EXCEPT !.pr = @ \/ b].infra = 0
         /\ [restoreContext(cp) EXCEPT !.pr = @ \/ b].gate = 0
<1>1. restoreContext(cp) \in Context /\ restoreContext(cp).infra = 0 /\ restoreContext(cp).gate = 0
  <2>1. /\ cp.retry \in 0..MaxAgentRetries /\ cp.remediation \in 0..MaxRemediations
        /\ cp.merge \in 0..MaxMergeRetries /\ cp.pr \in BOOLEAN
    BY DEF Checkpoints
  <2>2. QED
    BY <2>1, PipelineAssumption DEF Context, restoreContext
<1>2. (restoreContext(cp).pr \/ b) \in BOOLEAN
  OBVIOUS
<1>3. QED
  BY <1>1, <1>2 DEF Context

\* What is saved is a checkpoint.
LEMMA SavedTyped == TypeOK => saved \in Checkpoints \cup {None}
BY PipelineAssumption DEF TypeOK, saved, Checkpoints, Context, Results

\* StepInv is what bounds the counters: without it an increment could leave its range.
LEMMA Typed == Spec => [](TypeOK /\ StepInv)
<1> USE PipelineAssumption
<1>1. Init => TypeOK /\ StepInv
  BY DEF Init, TypeOK, StepInv, Running, FreshContext, NoResult, Context, Results, States,
         Reports, Reasons
<1>2. TypeOK /\ StepInv /\ [Next]_vars => TypeOK' /\ StepInv'
  <2> SUFFICES ASSUME TypeOK, StepInv, [Next]_vars PROVE TypeOK' /\ StepInv'
    OBVIOUS
  <2> USE DEF TypeOK, StepInv, Running, boardVars, machineVars, Context, States, Reports, Reasons,
              Checkpoints
  <2>1. CASE Dispatch
    BY <2>1 DEF Dispatch
  <2>2. CASE process
    <3>1. CASE status \in {"gone", "done"}
      BY <2>2, <3>1, FreshTyped DEF process, freshCall
    <3>2. CASE status \notin {"gone", "done"} /\ checkpoint = None
      <4>1. [FreshContext EXCEPT !.pr = pr # "none"] \in Context
        BY FreshTyped
      <4>2. QED
        BY <2>2, <3>2, <4>1, FreshTyped DEF process, freshCall
    <3>3. CASE status \notin {"gone", "done"} /\ checkpoint # None
      <4>1. checkpoint \in Checkpoints /\ (pr # "none") \in BOOLEAN
        BY <3>3
      <4> DEFINE c == [restoreContext(checkpoint) EXCEPT !.pr = @ \/ pr # "none"]
      <4>2. c \in Context /\ c.infra = 0 /\ c.gate = 0
        BY <4>1, RestoredTyped
      <4>3. checkpoint.state \in States \cup {"DONE"}
        BY <4>1
      <4>4. freshCall(checkpoint.state, c) /\ pc' = "enter" /\ UNCHANGED <<status, pr, checkpoint, outcome>>
        BY <2>2, <3>3 DEF process
      <4> HIDE DEF c
      <4>5. QED
        BY <4>2, <4>3, <4>4, FreshTyped DEF freshCall
    <3>4. QED
      BY <3>1, <3>2, <3>3
  <2>3. CASE RefusedExit
    BY <2>3 DEF RefusedExit, GateRefuses
  <2>4. CASE Continue
    BY <2>4, SavedTyped DEF Continue, Results
  <2>5. CASE Stop
    BY <2>5 DEF Stop, saved
  <2>6. CASE Throws
    BY <2>6 DEF Throws, Entered
  <2>7. CASE NoProcessor \/ RefusedEntry
    BY <2>7 DEF NoProcessor, RefusedEntry, Entered
  <2>8. CASE BudgetSpent
    BY <2>8 DEF BudgetSpent
  <2>9. CASE Return \/ Crash
    BY <2>9, FreshTyped DEF Return, Crash, freshCall
  <2>10. CASE Intake
    BY <2>10, Returns, ReturnsFor, StopsAt DEF Intake, Entered, setStatus
  <2>11. CASE Plan
    BY <2>11, Returns, ReturnsFor, StopsAt DEF Plan, Entered
  <2>12. CASE ExecuteRefuses \/ SkipExecution
    <3>1. CASE ExecuteRefuses
      BY <3>1, Returns DEF ExecuteRefuses, Entered
    <3>2. CASE SkipExecution
      <4>1. /\ [ctx EXCEPT !.pr = TRUE] \in Context
            /\ [ctx EXCEPT !.pr = TRUE].infra = ctx.infra /\ [ctx EXCEPT !.pr = TRUE].gate = ctx.gate
        OBVIOUS
      <4>2. /\ returns("REVIEW") /\ Entered("EXECUTE") /\ ctx' = [ctx EXCEPT !.pr = TRUE]
            /\ status' = "review" /\ UNCHANGED <<pr, report>>
        BY <3>2 DEF SkipExecution, setStatus
      <4>3. QED
        BY <4>1, <4>2, Returns DEF Entered
    <3>3. QED
      BY <2>12, <3>1, <3>2
  <2>13. CASE GateRejects
    BY <2>13, Returns, ReturnsFor, StopsAt DEF GateRejects, ReachesGate, Entered, setStatus
  <2>14. CASE AgentStarts
    BY <2>14 DEF AgentStarts, ReachesGate, Entered
  <2>15. CASE AgentSucceeds \/ AgentAwaitsApproval \/ AgentFails
    BY <2>15 DEF AgentSucceeds, AgentAwaitsApproval, AgentFails, setStatus
  <2>16. CASE ExecuteSucceeded
    BY <2>16, Returns, ReturnsFor, StopsAt, ZenonT(40) DEF ExecuteSucceeded, setStatus
  <2>17. CASE ExecuteFailed
    <3>1. CASE status = "blocked" \/ report = "fatal"
      <4>1. stopsAt("ESCALATE") /\ UNCHANGED <<ctx, status, pr>> /\ report' = "none" /\ pc = "ended"
        BY <2>17, <3>1 DEF ExecuteFailed
      <4>2. QED
        BY <4>1, StopsAt
    <3>2. CASE status # "blocked" /\ report = "agent"
      BY <2>17, <3>2, Returns DEF ExecuteFailed
    <3>3. CASE status # "blocked" /\ report = "infra" /\ ctx.infra + 1 <= MaxInfraRetries
      BY <2>17, <3>3, Returns DEF ExecuteFailed
    <3>4. CASE status # "blocked" /\ report = "infra" /\ ~(ctx.infra + 1 <= MaxInfraRetries)
      BY <2>17, <3>4, StopsAt DEF ExecuteFailed
    <3>5. QED
      BY <2>17, <3>1, <3>2, <3>3, <3>4 DEF ExecuteFailed
  <2>18. CASE ReviewFindsMerged
    BY <2>18, Returns, ReturnsFor, StopsAt, ZenonT(40) DEF ReviewFindsMerged, Entered, setStatus, reviewed
  <2>19. CASE Review
    <3>1. reviewed \in Context /\ reviewed.infra = ctx.infra /\ reviewed.gate = ctx.gate
          /\ reviewed.remediation = ctx.remediation
      BY DEF reviewed
    <3>2. CASE (returns("ESCALATE") \/ returns("MERGE") \/ returns("REVIEW")) /\ ctx' = reviewed
      BY <2>19, <3>1, <3>2, Returns DEF Review, Entered
    <3>3. CASE /\ ctx.remediation < MaxRemediations
               /\ ctx' = [reviewed EXCEPT !.remediation = @ + 1]
               /\ returnsFor("EXECUTE", TRUE, "remediation")
      BY <2>19, <3>1, <3>3, ReturnsFor DEF Review, Entered
    <3>4. QED
      BY <2>19, <3>2, <3>3 DEF Review
  <2>20. CASE MergeCommand
    BY <2>20 DEF MergeCommand, Entered
  <2>21. CASE MergePending \/ MergeFails
    BY <2>21, Returns, ReturnsFor, StopsAt DEF MergePending, MergeFails, Entered
  <2>22. CASE VerifyMerge
    BY <2>22, Returns, ReturnsFor, StopsAt DEF VerifyMerge, setStatus
  <2>23. CASE Deploy \/ Escalate
    BY <2>23, Returns, ReturnsFor, StopsAt DEF Deploy, Escalate, Entered, setStatus
  <2>24. CASE Board
    BY <2>24 DEF Board, Reconcile, SyncMerged, SyncOpen, MergedElsewhere, Requeue, Delete
  <2>25. CASE UNCHANGED vars
    BY <2>25 DEF vars
  <2>26. QED
    BY <2>1, <2>2, <2>3, <2>4, <2>5, <2>6, <2>7, <2>8, <2>9, <2>10, <2>11, <2>12, <2>13, <2>14,
       <2>15, <2>16, <2>17, <2>18, <2>19, <2>20, <2>21, <2>22, <2>23, <2>24, <2>25
    DEF Next, Call, Execute, Merge
<1>3. QED
  BY <1>1, <1>2, PTL DEF Spec

\* The pipeline never leaves its state space: no retry, remediation, merge or
\* transition counter passes its limit.
THEOREM TypeCorrect == Spec => []TypeOK
BY Typed, PTL

-----------------------------------------------------------------------------
\* The pull request of a done feature is merged, if every git workflow reports
\* one, whatever else fails or interferes.
THEOREM DoneIsMerged ==
  ASSUME "noPr" \notin Faults
  PROVE  Spec => []DoneMeansMerged
<1>1. Init => MergeInv
  BY DEF Init, MergeInv
<1>2. TypeOK /\ StepInv /\ MergeInv /\ [Next]_vars => MergeInv'
  <2> SUFFICES ASSUME TypeOK, StepInv, MergeInv, [Next]_vars PROVE MergeInv'
    OBVIOUS
  <2> USE DEF MergeInv, boardVars, machineVars
  <2>1. CASE Dispatch
    BY <2>1 DEF Dispatch
  <2>2. CASE process
    BY <2>2 DEF process, freshCall
  <2>3. CASE RefusedExit
    BY <2>3 DEF RefusedExit, GateRefuses
  <2>4. CASE Continue \/ Stop
    BY <2>4 DEF Continue, Stop, saved
  <2>5. CASE Throws \/ NoProcessor \/ RefusedEntry
    BY <2>5 DEF Throws, NoProcessor, RefusedEntry, Entered
  <2>6. CASE BudgetSpent
    BY <2>6 DEF BudgetSpent
  <2>7. CASE Return \/ Crash
    BY <2>7 DEF Return, Crash, freshCall
  <2>8. CASE Intake \/ Plan
    BY <2>8, Returns DEF Intake, Plan, Entered, setStatus, States
  <2>9. CASE ExecuteRefuses \/ SkipExecution
    BY <2>9, Returns DEF ExecuteRefuses, SkipExecution, Entered, setStatus, States
  <2>10. CASE GateRejects
    BY <2>10, PipelineAssumption DEF GateRejects, ReachesGate, Entered, setStatus, returns, stopsAt, returnsFor
  <2>11. CASE AgentStarts
    BY <2>11 DEF AgentStarts, ReachesGate, Entered
  <2>12. CASE AgentSucceeds \/ AgentAwaitsApproval \/ AgentFails
    BY <2>12 DEF AgentSucceeds, AgentAwaitsApproval, AgentFails, setStatus
  <2>13. CASE ExecuteSucceeded
    BY <2>13, PipelineAssumption DEF ExecuteSucceeded, setStatus, returns, stopsAt, returnsFor
  <2>14. CASE ExecuteFailed
    BY <2>14 DEF ExecuteFailed, returns, stopsAt, returnsFor
  <2>15. CASE ReviewFindsMerged
    BY <2>15, StopsAt DEF ReviewFindsMerged, Entered, setStatus, States
  <2>16. CASE Review
    BY <2>16 DEF Review, Entered, returns, stopsAt, returnsFor
  <2>17. CASE MergeCommand
    BY <2>17 DEF MergeCommand, Entered
  <2>18. CASE MergePending \/ MergeFails
    BY <2>18, Returns DEF MergePending, MergeFails, Entered, States
  <2>19. CASE VerifyMerge
    BY <2>19, Returns DEF VerifyMerge, setStatus, States
  <2>20. CASE Deploy \/ Escalate
    BY <2>20, PipelineAssumption DEF Deploy, Escalate, Entered, setStatus, returns, stopsAt, returnsFor
  <2>21. CASE Board
    BY <2>21 DEF Board, Reconcile, SyncMerged, SyncOpen, MergedElsewhere, Requeue, Delete
  <2>22. CASE UNCHANGED vars
    BY <2>22 DEF vars
  <2>23. QED
    BY <2>1, <2>2, <2>3, <2>4, <2>5, <2>6, <2>7, <2>8, <2>9, <2>10, <2>11, <2>12, <2>13, <2>14,
       <2>15, <2>16, <2>17, <2>18, <2>19, <2>20, <2>21, <2>22
    DEF Next, Call, Execute, Merge
<1>3. MergeInv => DoneMeansMerged
  BY DEF MergeInv, DoneMeansMerged
<1>4. QED
  BY <1>1, <1>2, <1>3, Typed, PTL DEF Spec

-----------------------------------------------------------------------------
\* A checkpoint keeps up with its call.
LEMMA CountersKept == Spec => []CounterInv
<1>1. Init => CounterInv
  BY DEF Init, CounterInv
<1>2. TypeOK /\ StepInv /\ CounterInv /\ [Next]_vars => CounterInv'
  <2> SUFFICES ASSUME TypeOK, StepInv, CounterInv, [Next]_vars PROVE CounterInv'
    OBVIOUS
  <2> USE PipelineAssumption DEF CounterInv, boardVars, machineVars, Running
  <2>a. /\ ctx.remediation \in Nat /\ ctx.merge \in Nat /\ ctx.retry \in Nat
        /\ checkpoint # None => /\ checkpoint.remediation \in Nat /\ checkpoint.merge \in Nat
                                /\ checkpoint.retry \in Nat
    BY DEF TypeOK, Context, Checkpoints
  <2>b. ctx \in Context
    BY DEF TypeOK
  <2>1. CASE Dispatch
    BY <2>1 DEF Dispatch
  <2>2. CASE process
    BY <2>2, <2>a DEF process, freshCall, restoreContext
  <2>3. CASE RefusedExit
    BY <2>3 DEF RefusedExit, GateRefuses
  <2>4. CASE Continue \/ Stop
    BY <2>4, <2>a DEF Continue, Stop, saved, StepInv
  <2>5. CASE Throws \/ NoProcessor \/ RefusedEntry \/ BudgetSpent
    BY <2>5 DEF Throws, NoProcessor, RefusedEntry, BudgetSpent, Entered
  <2>6. CASE Return \/ Crash
    BY <2>6 DEF Return, Crash, freshCall
  <2>7. CASE Intake
    BY <2>7 DEF Intake, Entered, returns, returnsFor
  <2>8. CASE Plan
    BY <2>8, <2>b DEF Plan, Entered, returns, returnsFor, Context
  <2>9. CASE ExecuteRefuses \/ SkipExecution
    BY <2>9, <2>b DEF ExecuteRefuses, SkipExecution, Entered, returns, returnsFor, Context
  <2>10. CASE GateRejects
    BY <2>10, <2>b DEF GateRejects, ReachesGate, Entered, returns, stopsAt, returnsFor, Context
  <2>11. CASE AgentStarts
    BY <2>11 DEF AgentStarts, ReachesGate, Entered
  <2>12. CASE AgentSucceeds \/ AgentAwaitsApproval \/ AgentFails
    BY <2>12 DEF AgentSucceeds, AgentAwaitsApproval, AgentFails
  <2>13. CASE ExecuteSucceeded
    BY <2>13, <2>b DEF ExecuteSucceeded, returns, stopsAt, returnsFor, Context
  <2>14. CASE ExecuteFailed
    <3>1. /\ pc = "ended" /\ pc' = "exit" /\ UNCHANGED <<state, checkpoint>>
          /\ \/ ctx' = ctx
             \/ ctx' = [ctx EXCEPT !.retry = @ + 1]
             \/ ctx' = [ctx EXCEPT !.infra = @ + 1]
      BY <2>14 DEF ExecuteFailed, returns, stopsAt, returnsFor
    <3>2. /\ ctx'.remediation = ctx.remediation /\ ctx'.merge = ctx.merge
          /\ ctx'.retry \in {ctx.retry, ctx.retry + 1}
      BY <3>1, <2>b DEF Context
    <3>3. QED
      BY <3>1, <3>2, <2>a
  <2>15. CASE ReviewFindsMerged
    BY <2>15, <2>b DEF ReviewFindsMerged, reviewed, Entered, stopsAt, returnsFor, Context
  <2>16. CASE Review
    <3>1. reviewed \in Context /\ reviewed.remediation = ctx.remediation /\ reviewed.merge = ctx.merge
          /\ reviewed.retry = ctx.retry
      BY <2>b DEF reviewed, Context
    <3>2. ctx' = reviewed \/ ctx' = [reviewed EXCEPT !.remediation = @ + 1]
      BY <2>16 DEF Review
    <3>3. ctx'.remediation \in {ctx.remediation, ctx.remediation + 1} /\ ctx'.merge = ctx.merge
          /\ ctx'.retry = ctx.retry
      BY <3>1, <3>2 DEF Context
    <3>4. pc = "enter" /\ state = "REVIEW" /\ pc' = "exit" /\ UNCHANGED <<state, checkpoint>>
      BY <2>16 DEF Review, Entered, returns, returnsFor
    <3>5. QED
      BY <3>3, <3>4, <2>a
  <2>17. CASE MergeCommand
    BY <2>17 DEF MergeCommand, Entered
  <2>18. CASE MergePending \/ MergeFails
    BY <2>18, <2>b DEF MergePending, MergeFails, Entered, returns, returnsFor, Context
  <2>19. CASE VerifyMerge
    BY <2>19, <2>b DEF VerifyMerge, returns, returnsFor, StepInv, Context
  <2>20. CASE Deploy \/ Escalate
    BY <2>20 DEF Deploy, Escalate, Entered, stopsAt, returnsFor
  <2>21. CASE Board
    BY <2>21 DEF Board, Reconcile, SyncMerged, SyncOpen, MergedElsewhere, Requeue, Delete
  <2>22. CASE UNCHANGED vars
    BY <2>22 DEF vars
  <2>23. QED
    BY <2>1, <2>2, <2>3, <2>4, <2>5, <2>6, <2>7, <2>8, <2>9, <2>10, <2>11, <2>12, <2>13, <2>14,
       <2>15, <2>16, <2>17, <2>18, <2>19, <2>20, <2>21, <2>22
    DEF Next, Call, Execute, Merge
<1>3. QED
  BY <1>1, <1>2, Typed, PTL DEF Spec

\* A restart gives back at most one remediation cycle and one merge attempt: the
\* checkpoint is never more than one increment behind the call.
THEOREM CrashLosesLittle == Spec => []CrashLosesAtMostOne
<1>1. CounterInv => CrashLosesAtMostOne
  BY DEF CounterInv, CrashLosesAtMostOne
<1>2. QED
  BY <1>1, CountersKept, PTL

\* A checkpoint is written only by the call that is ahead of it.
LEMMA CheckpointWriters ==
  [Next]_vars => \/ checkpoint' \in {checkpoint, None}
                 \/ /\ pc = "exit" /\ checkpoint' = saved
<1> SUFFICES ASSUME [Next]_vars
             PROVE  checkpoint' \in {checkpoint, None} \/ (pc = "exit" /\ checkpoint' = saved)
  OBVIOUS
<1>1. CASE Dispatch \/ Crash \/ Board \/ UNCHANGED vars
  BY <1>1 DEF Dispatch, Crash, Board, Reconcile, SyncMerged, SyncOpen, MergedElsewhere, Requeue,
    Delete, vars
<1>2. CASE process \/ RefusedExit \/ Continue \/ Stop \/ Throws \/ NoProcessor \/ BudgetSpent \/ Return
  BY <1>2 DEF process, RefusedExit, Continue, Stop, Throws, NoProcessor, BudgetSpent, Return
<1>3. CASE Execute
  BY <1>3 DEF Execute, RefusedEntry, ExecuteRefuses, SkipExecution, GateRejects, AgentStarts,
    AgentSucceeds, AgentAwaitsApproval, AgentFails, ExecuteSucceeded, ExecuteFailed, returns,
    stopsAt, returnsFor
<1>4. CASE Intake \/ Plan \/ ReviewFindsMerged \/ Review \/ Merge \/ Deploy \/ Escalate
  BY <1>4 DEF Intake, Plan, ReviewFindsMerged, Review, Merge, MergeCommand, MergePending,
    MergeFails, VerifyMerge, Deploy, Escalate, returns, stopsAt, returnsFor
<1>5. QED
  BY <1>1, <1>2, <1>3, <1>4 DEF Next, Call

\* The counters of a checkpoint that is kept only grow, over every call and restart.
THEOREM CountersGrow == Spec => CountersNeverGoBack
<1>1. TypeOK /\ CounterInv /\ [Next]_vars =>
        [checkpoint # None /\ checkpoint' # None =>
           /\ checkpoint.retry <= checkpoint'.retry
           /\ checkpoint.remediation <= checkpoint'.remediation
           /\ checkpoint.merge <= checkpoint'.merge]_vars
  <2> SUFFICES ASSUME TypeOK, CounterInv, [Next]_vars, checkpoint # None, checkpoint' # None
               PROVE  /\ checkpoint.retry <= checkpoint'.retry
                      /\ checkpoint.remediation <= checkpoint'.remediation
                      /\ checkpoint.merge <= checkpoint'.merge
    OBVIOUS
  <2>1. /\ ctx.remediation \in Nat /\ ctx.merge \in Nat /\ ctx.retry \in Nat
        /\ checkpoint.remediation \in Nat /\ checkpoint.merge \in Nat /\ checkpoint.retry \in Nat
    BY PipelineAssumption DEF TypeOK, Context, Checkpoints
  <2>2. CASE checkpoint' = checkpoint
    BY <2>1, <2>2
  <2>3. CASE pc = "exit" /\ checkpoint' = saved
    BY <2>1, <2>3 DEF CounterInv, saved
  <2>4. QED
    BY <2>2, <2>3, CheckpointWriters
<1>2. QED
  BY <1>1, Typed, CountersKept, PTL DEF Spec, CountersNeverGoBack

-----------------------------------------------------------------------------
\* A deleted feature stays deleted: every write to it throws.
LEMMA GoneForGood == status = "gone" /\ [Next]_vars => status' = "gone"
<1> SUFFICES ASSUME status = "gone", [Next]_vars PROVE status' = "gone"
  OBVIOUS
<1> USE DEF boardVars
<1>1. CASE Dispatch \/ Crash \/ Board
  BY <1>1 DEF Dispatch, Crash, Board, Reconcile, SyncMerged, SyncOpen, MergedElsewhere, Requeue, Delete
<1>2. CASE process \/ RefusedExit \/ Continue \/ Stop \/ Throws \/ NoProcessor \/ BudgetSpent \/ Return
  BY <1>2 DEF process, RefusedExit, Continue, Stop, Throws, NoProcessor, BudgetSpent, Return
<1>3. CASE Execute
  BY <1>3 DEF Execute, RefusedEntry, ExecuteRefuses, SkipExecution, GateRejects, AgentStarts,
    AgentSucceeds, AgentAwaitsApproval, AgentFails, ExecuteSucceeded, ExecuteFailed, setStatus
<1>4. CASE Intake \/ Plan \/ ReviewFindsMerged \/ Review \/ Merge \/ Deploy \/ Escalate
  BY <1>4 DEF Intake, Plan, ReviewFindsMerged, Review, Merge, MergeCommand, MergePending,
    MergeFails, VerifyMerge, Deploy, Escalate, setStatus
<1>5. QED
  BY <1>1, <1>2, <1>3, <1>4 DEF Next, Call, vars

\* With the retry limits of the code, 3, 3 and 4, a call needs 18 of its 20
\* transitions at most: the budget never cuts a feature's retries short.
THEOREM BudgetSuffices ==
  ASSUME "noPr" \notin Faults, Longest < MaxTransitions
  PROVE  Spec => []BudgetNeverSpent
<1>1. Init => BudgetInv
  BY PipelineAssumption DEF Init, BudgetInv, Explained, Running, Longest, States
<1>2. TypeOK /\ TypeOK' /\ StepInv /\ BudgetInv /\ [Next]_vars => BudgetInv'
  <2> SUFFICES ASSUME TypeOK, TypeOK', StepInv, Explained, [Next]_vars,
                      status # "gone", status' # "gone"
               PROVE  Explained'
    BY GoneForGood DEF BudgetInv
  <2> USE PipelineAssumption DEF Explained, boardVars, machineVars, Running, Reviewable, States
  <2>a. /\ ctx.retry \in 0..MaxAgentRetries /\ ctx.infra \in 0..(MaxInfraRetries + 1)
        /\ ctx.remediation \in 0..MaxRemediations /\ transitions \in Nat
    BY DEF TypeOK, Context
  <2>b. /\ ctx'.retry \in 0..MaxAgentRetries /\ ctx'.infra \in 0..(MaxInfraRetries + 1)
        /\ ctx'.remediation \in 0..MaxRemediations /\ transitions' \in Nat
    BY DEF TypeOK, Context
  <2>c. ctx \in Context /\ state \in States \cup {"DONE"} /\ state' \in States \cup {"DONE"}
    BY DEF TypeOK
  <2>1. CASE Dispatch
    BY <2>1 DEF Dispatch, Detours
  <2>2. CASE process
    <3>1. transitions' = 0 /\ pc' \in {"idle", "enter"} /\ UNCHANGED <<checkpoint, status, pr>>
      BY <2>2 DEF process, freshCall
    <3>2. pc' = "enter" /\ state' # "INTAKE" =>
            checkpoint # None /\ state' = checkpoint.state /\ ctx'.retry = checkpoint.retry
      BY <2>2 DEF process, freshCall, restoreContext
    <3>3. Way(state') + Detours' >= 0 /\ Longest >= 0
      BY <2>b DEF Way, Detours, Longest
    <3>4. QED
      BY <3>1, <3>2, <3>3
  <2>3. CASE RefusedExit
    <3>1. result.next = "EXECUTE" /\ state = "EXECUTE" /\ pc = "exit"
      BY <2>3 DEF RefusedExit, GateRefuses
    <3>2. ctx.infra <= MaxInfraRetries /\ transitions + 1 <= Way("EXECUTE") + Detours
      BY <3>1 DEF StepInv
    <3>3. transitions' = transitions + 1 /\ Detours' = Detours /\ pc' = "enter"
          /\ UNCHANGED <<state, checkpoint, status, pr>>
      BY <2>3 DEF RefusedExit, Detours
    <3>4. transitions' <= Longest
      BY <3>2, <3>3, <2>a DEF Way, Detours, Longest
    <3>5. QED
      BY <3>1, <3>2, <3>3, <3>4
  <2>4. CASE Continue \/ Stop
    <3>1. pc = "exit" /\ ~GateRefuses /\ pc' \in {"enter", "cleanup"} /\ checkpoint' = saved
          /\ Detours' = Detours /\ ctx' = ctx /\ UNCHANGED <<status, pr>>
      BY <2>4 DEF Continue, Stop, Detours
    <3>2. checkpoint' # None /\ checkpoint'.state \in Reviewable => checkpoint'.retry < MaxAgentRetries
      BY <3>1 DEF saved
    <3>3. CASE Stop
      BY <3>1, <3>2, <3>3 DEF Stop
    <3>4. CASE Continue /\ result.next = "ESCALATE"
      BY <3>1, <3>2, <3>4, <2>a DEF Continue
    <3>5. CASE Continue /\ result.next # "ESCALATE"
      <4>1. result.next \in States \ {"ESCALATE"} /\ state' = result.next
            /\ ctx.infra <= MaxInfraRetries
        BY <3>1, <3>5, <2>c DEF Continue, StepInv
      <4>2. transitions' <= Way(state') + Detours
        BY <3>1, <3>5, <4>1, <2>a, <2>b DEF Continue, Way, Detours
      <4>3. state' \in Reviewable => ctx.retry < MaxAgentRetries
        BY <3>1, <4>1
      <4>4. transitions' <= Longest
        BY <4>1, <4>2, <4>3, <2>a, <2>b DEF Way, Detours, Longest
      <4>5. QED
        BY <3>1, <3>2, <3>5, <4>1, <4>2, <4>3, <4>4 DEF Continue
    <3>6. QED
      BY <2>4, <3>3, <3>4, <3>5
  <2>5. CASE Throws \/ BudgetSpent
    BY <2>5, <2>a DEF Throws, BudgetSpent, Entered
  <2>6. CASE NoProcessor \/ RefusedEntry
    <3>1. transitions + 1 <= Longest
      BY <2>6, <2>a DEF NoProcessor, RefusedEntry, Entered, StepInv, Way, Detours, Longest
    <3>2. QED
      BY <2>6, <3>1 DEF NoProcessor, RefusedEntry, Entered
  <2>7. CASE Return \/ Crash
    BY <2>7 DEF Return, Crash, freshCall, NoResult, Longest
  <2>8. CASE Intake
    <3>1. /\ pc = "enter" /\ state = "INTAKE" /\ pc' = "exit" /\ ctx' = ctx /\ status' # "gone"
          /\ result'.next \in {"ESCALATE", "PLAN", "EXECUTE"}
          /\ UNCHANGED <<state, transitions, checkpoint, pr>>
      BY <2>8, Returns DEF Intake, Entered, setStatus
    <3>2. transitions + 1 <= 1 + Detours' /\ transitions + 1 <= Longest
      BY <3>1, <2>a, <2>b DEF Way, Detours, Longest, StepInv
    <3>3. QED
      BY <3>1, <3>2, <2>a, <2>b DEF Way, Detours
  <2>9. CASE Plan
    <3>1. /\ pc = "enter" /\ state = "PLAN" /\ pc' = "exit" /\ UNCHANGED status
          /\ ctx' = ctx \/ ctx' = [ctx EXCEPT !.plan = @ + 1]
          /\ result'.next \in {"ESCALATE", "PLAN", "EXECUTE"}
          /\ UNCHANGED <<state, transitions, checkpoint, pr>>
      BY <2>9, Returns DEF Plan, Entered
    <3>2. ctx'.retry = ctx.retry /\ ctx'.infra = ctx.infra /\ ctx'.remediation = ctx.remediation
      BY <3>1, <2>c DEF Context
    <3>3. transitions <= 1 + Detours' /\ transitions + 1 <= Longest
      BY <3>1, <3>2, <2>a, <2>b DEF Way, Detours, Longest, StepInv
    <3>4. QED
      BY <3>1, <3>2, <3>3, <2>a, <2>b DEF Way, Detours
  <2>10. CASE ExecuteRefuses
    <3>1. /\ pc = "enter" /\ state = "EXECUTE" /\ pc' = "exit" /\ ctx' = ctx /\ UNCHANGED status
          /\ result'.next = "ESCALATE"
          /\ UNCHANGED <<state, transitions, checkpoint, pr>>
      BY <2>10, Returns DEF ExecuteRefuses, Entered
    <3>2. transitions + 1 <= Longest
      BY <3>1, <2>a DEF Way, Detours, Longest, StepInv
    <3>3. QED
      BY <3>1, <3>2
  <2>11. CASE SkipExecution
    <3>1. /\ pc = "enter" /\ state = "EXECUTE" /\ pc' = "exit" /\ status' # "gone"
          /\ ctx' = [ctx EXCEPT !.pr = TRUE] /\ ctx.retry < MaxAgentRetries
          /\ result'.next = "REVIEW"
          /\ UNCHANGED <<state, transitions, checkpoint, pr>>
      BY <2>11, Returns DEF SkipExecution, Entered, setStatus
    <3>2. ctx'.retry = ctx.retry /\ ctx'.infra = ctx.infra /\ ctx'.remediation = ctx.remediation
          /\ ctx'.pr
      BY <3>1, <2>c DEF Context
    <3>3. transitions + 1 <= Way("REVIEW") + Detours' /\ transitions <= Longest
      BY <3>1, <3>2, <2>a, <2>b DEF Way, Detours, Longest, StepInv
    <3>4. QED
      BY <3>1, <3>2, <3>3
  <2>12. CASE GateRejects
    <3>1. /\ pc = "enter" /\ state = "EXECUTE" /\ pc' = "exit" /\ status' # "gone"
          /\ result'.next \in {"ESCALATE", None}
          /\ UNCHANGED <<state, transitions, checkpoint, pr>>
      BY <2>12, Returns, StopsAt DEF GateRejects, ReachesGate, Entered, setStatus
    <3>2. transitions + 1 <= Longest
      BY <3>1, <2>a DEF Way, Detours, Longest, StepInv
    <3>3. QED
      BY <3>1, <3>2
  <2>13. CASE AgentStarts
    BY <2>13, <2>a DEF AgentStarts, ReachesGate, Entered, Detours
  <2>14. CASE AgentSucceeds \/ AgentAwaitsApproval \/ AgentFails
    BY <2>14 DEF AgentSucceeds, AgentAwaitsApproval, AgentFails, setStatus, Detours, StepInv
  <2>15. CASE ExecuteSucceeded
    <3>1. /\ pc = "ended" /\ state = "EXECUTE" /\ pc' = "exit" /\ status' # "gone"
          /\ ctx' = [ctx EXCEPT !.pr = @ \/ (status # "gone" /\ pr # "none")]
          /\ ctx.retry < MaxAgentRetries /\ report = "ok"
          /\ result'.next \in {"REVIEW", None}
          /\ UNCHANGED <<state, transitions, checkpoint, pr>>
      BY <2>15, Returns, StopsAt DEF ExecuteSucceeded, setStatus, StepInv
    <3>2. ctx'.retry = ctx.retry /\ ctx'.infra = ctx.infra /\ ctx'.remediation = ctx.remediation
          /\ ctx'.pr
      BY <3>1, <2>c DEF Context
    <3>3. transitions + 1 <= Way("REVIEW") + Detours' /\ transitions <= Longest
      BY <3>1, <3>2, <2>a, <2>b DEF Way, Detours, Longest, StepInv
    <3>4. QED
      BY <3>1, <3>2, <3>3
  <2>16. CASE ExecuteFailed
    <3>1. /\ pc = "ended" /\ state = "EXECUTE" /\ pc' = "exit" /\ UNCHANGED status
          /\ UNCHANGED <<state, transitions, checkpoint, pr>>
          /\ \/ result'.next = "ESCALATE" /\ ~result'.goOn
             \/ result'.next = "EXECUTE" /\ (ctx' = [ctx EXCEPT !.retry = @ + 1]
                                            \/ ctx' = [ctx EXCEPT !.infra = @ + 1])
      BY <2>16, Returns, ReturnsFor, StopsAt DEF ExecuteFailed, StepInv, Reasons
    <3>2. transitions <= Way("EXECUTE") + Detours /\ transitions <= Longest
      BY <3>1
    <3>3. result'.next = "EXECUTE" => Detours' = Detours + 1
      BY <3>1, <2>a, <2>b, <2>c DEF Detours, Context
    <3>4. result'.next = "EXECUTE" => transitions + 1 <= Way("EXECUTE") + Detours'
      BY <3>2, <3>3, <2>a DEF Way, Detours
    <3>5. QED
      BY <3>1, <3>2, <3>4
  <2>17. CASE ReviewFindsMerged
    <3>1. /\ pc = "enter" /\ state = "REVIEW" /\ pc' = "exit" /\ status' # "gone"
          /\ result'.next = None
          /\ UNCHANGED <<state, transitions, checkpoint, pr>>
      BY <2>17, StopsAt DEF ReviewFindsMerged, Entered
    <3>2. QED
      BY <3>1
  <2>18. CASE Review
    <3>1. reviewed \in Context /\ reviewed.retry = ctx.retry /\ reviewed.infra = ctx.infra
          /\ reviewed.remediation = ctx.remediation
      BY <2>c DEF reviewed, Context
    <3>2. /\ pc = "enter" /\ state = "REVIEW" /\ pc' = "exit" /\ UNCHANGED status
          /\ UNCHANGED <<state, transitions, checkpoint, pr>>
          /\ \/ result'.next \in {"ESCALATE", "MERGE", "REVIEW"} /\ ctx' = reviewed
             \/ result'.next = "EXECUTE" /\ ctx' = [reviewed EXCEPT !.remediation = @ + 1]
      BY <2>18, Returns, ReturnsFor DEF Review, Entered, Reasons
    <3>3. ctx.retry < MaxAgentRetries /\ transitions <= Way("REVIEW") + Detours
          /\ ctx.infra <= MaxInfraRetries
      BY <3>2 DEF StepInv
    <3>4. transitions + 1 <= Longest
      BY <3>3, <2>a, <2>b DEF Way, Detours, Longest
    <3>5. CASE result'.next \in {"ESCALATE", "MERGE", "REVIEW"} /\ ctx' = reviewed
      <4>1. Detours' = Detours /\ ctx'.retry = ctx.retry
        BY <3>1, <3>5 DEF Detours
      <4>2. transitions <= Way("REVIEW") + Detours' /\ transitions + 1 <= Way("MERGE") + Detours'
        BY <3>3, <4>1, <2>a DEF Way, Detours
      <4>3. QED
        BY <3>2, <3>3, <3>4, <3>5, <4>1, <4>2
    <3>6. CASE result'.next = "EXECUTE" /\ ctx' = [reviewed EXCEPT !.remediation = @ + 1]
      <4>1. Detours' = Detours + 2
        BY <3>1, <3>6, <2>a DEF Detours, Context
      <4>2. transitions + 1 <= Way("EXECUTE") + Detours'
        BY <3>3, <4>1, <2>a DEF Way, Detours
      <4>3. QED
        BY <3>2, <3>4, <3>6, <4>2, <2>a
    <3>7. QED
      BY <3>2, <3>5, <3>6
  <2>19. CASE MergeCommand
    BY <2>19, <2>a DEF MergeCommand, Entered, Detours
  <2>20. CASE MergePending \/ MergeFails \/ VerifyMerge
    <3>1. /\ pc \in {"enter", "verify"} /\ state = "MERGE" /\ pc' = "exit" /\ status' # "gone"
          /\ ctx' = ctx \/ ctx' = [ctx EXCEPT !.merge = @ + 1]
          /\ result'.next \in {"ESCALATE", "MERGE", "DEPLOY"}
          /\ UNCHANGED <<state, transitions, checkpoint, pr>>
      BY <2>20, Returns DEF MergePending, MergeFails, VerifyMerge, Entered, setStatus, StepInv
    <3>2. ctx'.retry = ctx.retry /\ ctx'.infra = ctx.infra /\ ctx'.remediation = ctx.remediation
      BY <3>1, <2>c DEF Context
    <3>3. /\ transitions <= Way("MERGE") + Detours' /\ transitions + 1 <= Way("DEPLOY") + Detours'
          /\ transitions + 1 <= Longest /\ ctx'.retry < MaxAgentRetries
      BY <3>1, <3>2, <2>a, <2>b DEF Way, Detours, Longest, StepInv
    <3>4. QED
      BY <3>1, <3>2, <3>3, <2>a
  <2>21. CASE Deploy \/ Escalate
    <3>1. /\ pc = "enter" /\ pc' = "exit" /\ status' # "gone" /\ state \in {"DEPLOY", "ESCALATE"}
          /\ result'.next \in {"DONE", None} /\ ~result'.goOn
          /\ UNCHANGED <<state, transitions, checkpoint, pr>>
      BY <2>21, StopsAt DEF Deploy, Escalate, Entered, setStatus
    <3>2. QED
      BY <3>1
  <2>22. CASE Board
    BY <2>22 DEF Board, Reconcile, SyncMerged, SyncOpen, MergedElsewhere, Requeue, Delete, Detours
  <2>23. CASE UNCHANGED vars
    BY <2>23 DEF vars, Detours
  <2>24. QED
    BY <2>1, <2>2, <2>3, <2>4, <2>5, <2>6, <2>7, <2>8, <2>9, <2>10, <2>11, <2>12, <2>13, <2>14,
       <2>15, <2>16, <2>17, <2>18, <2>19, <2>20, <2>21, <2>22, <2>23
    DEF Next, Call, Execute, Merge
<1>3. TypeOK /\ BudgetInv => BudgetNeverSpent
  BY PipelineAssumption DEF BudgetInv, Explained, BudgetNeverSpent, Longest, TypeOK
<1>4. QED
  BY <1>1, <1>2, <1>3, Typed, PTL DEF Spec

-----------------------------------------------------------------------------
(* A call ends.                                                             *)

\* A step along the suspension points that stays in its state, or goes to ESCALATE.
LEMMA Onwards ==
  ASSUME StepInv, UNCHANGED <<transitions, sameState>>, transitions \in Nat, sameState \in Nat,
         \/ pc = "enter"  /\ pc' \in {"agent", "verify"} /\ state # "ESCALATE" /\ state' = state
         \/ pc \in {"enter", "ended", "verify"} /\ pc' = "exit" /\ state' = state
         \/ pc = "agent" /\ pc' = "ended" /\ state' = state
         \/ pc \in {"enter", "exit"} /\ pc' = "cleanup"
         \/ pc = "enter" /\ state # "ESCALATE" /\ pc' = "enter" /\ state' = "ESCALATE"
         \/ pc = "ended" /\ pc' = "enter" /\ state' = "ESCALATE"
  PROVE  Nearer
<1>1. pc \in {"agent", "ended", "verify"} => state # "ESCALATE"
  BY DEF StepInv
<1>2. rank' < rank
  BY <1>1 DEF rank
<1>3. QED
  BY <1>2 DEF Nearer

\* What processors and agents leave alone.
LEMMA Goes ==
  ASSUME NEW n, NEW b, NEW r, returnsFor(n, b, r)
  PROVE  pc' = "exit" /\ UNCHANGED <<state, transitions, sameState>>
BY DEF returnsFor, machineVars

\* A call ends after finitely many steps of its own, for all limits: two counters with
\* a bound never go down, and between two counts the call passes its suspension points.
THEOREM CallsNearTheirEnd == Spec => CallNearsItsEnd
<1>1. TypeOK /\ StepInv /\ [Next]_vars
        => [Call => Nearer \/ (state = "ESCALATE" /\ status = "gone")]_vars
  <2> SUFFICES ASSUME TypeOK, StepInv, Call, ~(state = "ESCALATE" /\ status = "gone")
               PROVE  Nearer
    OBVIOUS
  <2>0. transitions \in Nat /\ sameState \in Nat
    BY DEF TypeOK
  <2>1. CASE process \/ Return
    BY <2>1 DEF process, Return, Nearer
  <2>2. CASE RefusedExit \/ RefusedEntry \/ NoProcessor
    BY <2>0, <2>2 DEF RefusedExit, RefusedEntry, NoProcessor, Nearer
  <2>3. CASE Continue
    BY <2>0, <2>3 DEF Continue, Nearer
  <2>4. CASE Stop \/ BudgetSpent
    BY <2>0, <2>4, Onwards DEF Stop, BudgetSpent
  <2>5. CASE Throws
    BY <2>0, <2>5, Onwards DEF Throws, Entered
  <2>6. CASE AgentStarts \/ AgentSucceeds \/ AgentAwaitsApproval \/ AgentFails \/ MergeCommand
    BY <2>0, <2>6, Onwards
      DEF AgentStarts, ReachesGate, AgentSucceeds, AgentAwaitsApproval, AgentFails, MergeCommand,
          Entered, machineVars
  <2>7. CASE Intake \/ Plan \/ ExecuteRefuses \/ SkipExecution \/ GateRejects
    <3>1. pc = "enter"
      BY <2>7 DEF Intake, Plan, ExecuteRefuses, SkipExecution, GateRejects, ReachesGate, Entered
    <3>2. \E n, b, r : returnsFor(n, b, r)
      BY <2>7 DEF Intake, Plan, ExecuteRefuses, SkipExecution, GateRejects, returns, stopsAt
    <3>3. QED
      BY <3>1, <3>2, <2>0, Goes, Onwards
  <2>8. CASE ReviewFindsMerged \/ Review \/ MergePending \/ MergeFails \/ Deploy \/ Escalate
    <3>1. pc = "enter"
      BY <2>8 DEF ReviewFindsMerged, Review, MergePending, MergeFails, Deploy, Escalate, Entered
    <3>2. \E n, b, r : returnsFor(n, b, r)
      BY <2>8 DEF ReviewFindsMerged, Review, MergePending, MergeFails, Deploy, Escalate, returns,
        stopsAt
    <3>3. QED
      BY <3>1, <3>2, <2>0, Goes, Onwards
  <2>9. CASE ExecuteSucceeded \/ ExecuteFailed \/ VerifyMerge
    <3>1. pc \in {"ended", "verify"}
      BY <2>9 DEF ExecuteSucceeded, ExecuteFailed, VerifyMerge
    <3>2. \E n, b, r : returnsFor(n, b, r)
      BY <2>9 DEF ExecuteSucceeded, ExecuteFailed, VerifyMerge, returns, stopsAt
    <3>3. QED
      BY <3>1, <3>2, <2>0, Goes, Onwards
  <2>10. QED
    BY <2>1, <2>2, <2>3, <2>4, <2>5, <2>6, <2>7, <2>8, <2>9 DEF Call, Execute, Merge
<1>2. QED
  BY <1>1, Typed, PTL DEF Spec, CallNearsItsEnd
=============================================================================
