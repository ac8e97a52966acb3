--------------------------- MODULE PlanApproval ---------------------------
(***************************************************************************)
(* The approval of a plan: the agent that writes it and waits, the map     *)
(* pendingApprovals with its 30 minute timers, the answers that come in    *)
(* through resolvePlanApproval() and the planSpec on disk, which a later   *)
(* execution and the recovery of a lost approval read.  One feature that   *)
(* requires approval; a plan is a number, new for each text an agent       *)
(* writes, and names the promise the agent waits for.                      *)
(***************************************************************************)
EXTENDS Naturals, FiniteSets

CONSTANTS
  Runs,      \* the executions that may exist at the same time
  Answers,   \* the calls of resolvePlanApproval that may be in flight
  MaxPlans,  \* bound: plans written
  MaxStops,  \* bound: stops and restarts of the server
  NoRun

ASSUME ApprovalAssumption ==
  NoRun \notin Runs /\ MaxPlans \in Nat /\ MaxStops \in Nat

VARIABLES
  spec,        \* planSpec of the feature on disk
  written,     \* plans written so far
  runs,        \* the executions
  registered,  \* the one runningFeatures holds
  pending,     \* the plan pendingApprovals holds, 0 without one
  timers,      \* the plans whose 30 minutes are running
  outcome,     \* what became of the promise of each plan
  answers,     \* the calls of resolvePlanApproval
  approved,    \* history: the plans a user's approval was meant for
  stops        \* stops and restarts so far

vars == <<spec, written, runs, registered, pending, timers, outcome, answers, approved, stops>>

Plans    == 1..MaxPlans
Verdicts == {"approve", "revise", "cancel"}

\* plan: the plan of the run; ask: the plan is on trial, not taken from disk.
RunRec == [pc : {"idle", "planning", "generated", "waiting", "implementing"},
           plan : 0..MaxPlans, ask : BOOLEAN, aborted : BOOLEAN]
AnswerRec == [pc : {"idle", "loading", "recovering", "starting", "writing", "resolving"},
              verdict : Verdicts, plan : 0..MaxPlans]
SpecRec == [status : {"pending", "generating", "generated", "approved", "rejected"},
            plan : 0..MaxPlans]

IdleRun    == [pc |-> "idle", plan |-> 0, ask |-> FALSE, aborted |-> FALSE]
IdleAnswer == [pc |-> "idle", verdict |-> "cancel", plan |-> 0]

TypeOK ==
  /\ spec \in SpecRec
  /\ written \in 0..MaxPlans
  /\ runs \in [Runs -> RunRec]
  /\ registered \in Runs \cup {NoRun}
  /\ pending \in 0..MaxPlans
  /\ timers \subseteq Plans
  /\ outcome \in [Plans -> Verdicts \cup {"open", "timeout", "stopped"}]
  /\ answers \in [Answers -> AnswerRec]
  /\ approved \subseteq Plans
  /\ stops \in 0..MaxStops

Init ==
  /\ spec = [status |-> "pending", plan |-> 0]
  /\ written = 0
  /\ runs = [r \in Runs |-> IdleRun]
  /\ registered = NoRun
  /\ pending = 0 /\ timers = {}
  /\ outcome = [p \in Plans |-> "open"]
  /\ answers = [a \in Answers |-> IdleAnswer]
  /\ approved = {}
  /\ stops = 0

-----------------------------------------------------------------------------
(* The execution.                                                           *)

\* Faulty StartsWith: a second execution of the feature is not refused.
StartsBesides(r, plan) ==
  /\ runs[r].pc = "idle"
  /\ registered' = r
  /\ runs' = [runs EXCEPT ![r] =
       [IdleRun EXCEPT !.pc = IF plan = 0 THEN "planning" ELSE "implementing", !.plan = plan]]

\* An approved plan is implemented as it is on disk, any other is written anew.
StartsWith(r, plan) ==
  /\ registered = NoRun /\ runs[r].pc = "idle"
  /\ registered' = r
  /\ runs' = [runs EXCEPT ![r] =
       [IdleRun EXCEPT !.pc = IF plan = 0 THEN "planning" ELSE "implementing", !.plan = plan]]

Start(r) ==
  /\ StartsWith(r, IF spec.status = "approved" THEN spec.plan ELSE 0)
  /\ UNCHANGED <<spec, written, pending, timers, outcome, answers, approved, stops>>

\* Faulty Generate: the plan is counted when it is asked for and again when it is written.
GenerateCountsTwice(r) ==
  /\ runs[r].pc = "planning" /\ ~runs[r].aborted /\ written < MaxPlans
  /\ written' = written + 1
  /\ spec' = [status |-> "generated", plan |-> written + 2]
  /\ runs' = [runs EXCEPT ![r].pc = "generated", ![r].plan = written + 1, ![r].ask = TRUE]
  /\ UNCHANGED <<registered, pending, timers, outcome, answers, approved, stops>>

\* [SPEC_GENERATED]: the plan, or its revision, is written to the feature; an abort ends
\* the stream before.
Generate(r) ==
  /\ runs[r].pc = "planning" /\ ~runs[r].aborted /\ written < MaxPlans
  /\ written' = written + 1
  /\ spec' = [status |-> "generated", plan |-> written + 1]
  /\ runs' = [runs EXCEPT ![r].pc = "generated", ![r].plan = written + 1, ![r].ask = TRUE]
  /\ UNCHANGED <<registered, pending, timers, outcome, answers, approved, stops>>

\* waitForPlanApproval(): a new promise, which replaces what the map holds.
Register(r) ==
  /\ runs[r].pc = "generated"
  /\ pending' = runs[r].plan
  /\ timers' = timers \cup {runs[r].plan}
  /\ runs' = [runs EXCEPT ![r].pc = "waiting"]
  /\ UNCHANGED <<spec, written, registered, outcome, answers, approved, stops>>

Verdict(r) == outcome[runs[r].plan]

\* finally: the entry is removed when it is the run's own.
Leaves(r) ==
  /\ runs' = [runs EXCEPT ![r] = IdleRun]
  /\ registered' = IF registered = r THEN NoRun ELSE registered

Implement(r) ==
  /\ runs[r].pc = "waiting" /\ Verdict(r) = "approve"
  /\ runs' = [runs EXCEPT ![r].pc = "implementing"]
  /\ spec' = [spec EXCEPT !.status = "approved"]
  /\ UNCHANGED <<written, registered, pending, timers, outcome, answers, approved, stops>>

\* Rejected with feedback or edits: the plan is revised.
Revise(r) ==
  /\ runs[r].pc = "waiting" /\ Verdict(r) = "revise"
  /\ runs' = [runs EXCEPT ![r].pc = "planning"]
  /\ spec' = [spec EXCEPT !.status = "generating"]
  /\ UNCHANGED <<written, registered, pending, timers, outcome, answers, approved, stops>>

\* Rejected without feedback, timed out or stopped; the agent throws.
GiveUp(r) ==
  /\ runs[r].pc = "waiting" /\ Verdict(r) \in {"cancel", "timeout", "stopped"}
  /\ Leaves(r)
  /\ UNCHANGED <<spec, written, pending, timers, outcome, answers, approved, stops>>

\* An agent that plans or implements ends, with a result, an error or an abort; one
\* that waits for its promise does not hear the abort.
End(r) ==
  /\ runs[r].pc \in {"planning", "implementing"}
  /\ Leaves(r)
  /\ UNCHANGED <<spec, written, pending, timers, outcome, answers, approved, stops>>

-----------------------------------------------------------------------------
(* resolvePlanApproval().                                                   *)

Idle(a) == answers[a].pc = "idle"

\* The pending approval is looked up at once.
Answer(a) ==
  /\ Idle(a) /\ pending # 0
  /\ \E v \in Verdicts :
       /\ answers' = [answers EXCEPT ![a] = [pc |-> "writing", verdict |-> v, plan |-> pending]]
       /\ approved' = IF v = "approve" THEN approved \cup {pending} ELSE approved
  /\ UNCHANGED <<spec, written, runs, registered, pending, timers, outcome, stops>>

\* Without one the feature is loaded, to recover what a restart has lost.
AnswerUnexpected(a) ==
  /\ Idle(a) /\ pending = 0
  /\ \E v \in Verdicts :
       answers' = [answers EXCEPT ![a] = [pc |-> "loading", verdict |-> v, plan |-> 0]]
  /\ UNCHANGED <<spec, written, runs, registered, pending, timers, outcome, approved, stops>>

LoadForRecovery(a) ==
  /\ answers[a].pc = "loading"
  /\ IF spec.status = "generated"
       THEN /\ answers' = [answers EXCEPT ![a].pc = "recovering", ![a].plan = spec.plan]
            /\ approved' = IF answers[a].verdict = "approve"
                             THEN approved \cup {spec.plan} ELSE approved
       ELSE /\ answers' = [answers EXCEPT ![a] = IdleAnswer]
            /\ UNCHANGED approved
  /\ UNCHANGED <<spec, written, runs, registered, pending, timers, outcome, stops>>

\* The status is written with the plan that was loaded.
Recover(a) ==
  /\ answers[a].pc = "recovering"
  /\ IF answers[a].verdict = "approve"
       THEN /\ spec' = [status |-> "approved", plan |-> answers[a].plan]
            /\ answers' = [answers EXCEPT ![a].pc = "starting"]
       ELSE /\ spec' = [spec EXCEPT !.status = "rejected"]
            /\ answers' = [answers EXCEPT ![a] = IdleAnswer]
  /\ UNCHANGED <<written, runs, registered, pending, timers, outcome, approved, stops>>

\* An approval starts an execution with the plan, which executeFeature refuses while
\* another is registered.
StartRecovered(a) ==
  /\ answers[a].pc = "starting"
  /\ \/ \E r \in Runs : StartsWith(r, answers[a].plan)
     \/ registered # NoRun /\ UNCHANGED <<runs, registered>>
  /\ answers' = [answers EXCEPT ![a] = IdleAnswer]
  /\ UNCHANGED <<spec, written, pending, timers, outcome, approved, stops>>

\* updateFeaturePlanSpec() writes to whatever plan is on disk by now.
Write(a) ==
  /\ answers[a].pc = "writing"
  /\ spec' = [spec EXCEPT !.status = IF answers[a].verdict = "approve" THEN "approved"
                                                                       ELSE "rejected"]
  /\ answers' = [answers EXCEPT ![a].pc = "resolving"]
  /\ UNCHANGED <<written, runs, registered, pending, timers, outcome, approved, stops>>

Settle(plan, v) == [outcome EXCEPT ![plan] = IF @ = "open" THEN v ELSE @]

\* Faulty Resolve: the promise is looked up again after the write.
ResolveWhatIsPending(a) ==
  /\ answers[a].pc = "resolving"
  /\ outcome' = IF pending = 0 THEN outcome ELSE Settle(pending, answers[a].verdict)
  /\ timers' = timers \ {pending}
  /\ pending' = 0
  /\ answers' = [answers EXCEPT ![a] = IdleAnswer]
  /\ UNCHANGED <<spec, written, runs, registered, approved, stops>>

\* Faulty Resolve: the entry of the promise that was resolved stays in the map.
ResolveKeepsEntry(a) ==
  /\ answers[a].pc = "resolving"
  /\ outcome' = Settle(answers[a].plan, answers[a].verdict)
  /\ timers' = timers \ {answers[a].plan}
  /\ answers' = [answers EXCEPT ![a] = IdleAnswer]
  /\ UNCHANGED <<spec, written, runs, registered, pending, approved, stops>>

\* The captured promise is resolved, the map entry removed whoever it belongs to.
Resolve(a) ==
  /\ answers[a].pc = "resolving"
  /\ outcome' = Settle(answers[a].plan, answers[a].verdict)
  /\ timers' = timers \ {answers[a].plan}
  /\ pending' = 0
  /\ answers' = [answers EXCEPT ![a] = IdleAnswer]
  /\ UNCHANGED <<spec, written, runs, registered, approved, stops>>

-----------------------------------------------------------------------------
(* Timers, stops and restarts.                                              *)

\* The timer rejects its own promise and removes the entry, if there is any entry.
TimerFires(plan) ==
  /\ plan \in timers
  /\ timers' = timers \ {plan}
  /\ pending' = 0
  /\ outcome' = IF pending # 0 THEN Settle(plan, "timeout") ELSE outcome
  /\ UNCHANGED <<spec, written, runs, registered, answers, approved, stops>>

\* stopFeature() cancels the approval and forgets the run it aborts.
Stop ==
  /\ registered # NoRun /\ stops < MaxStops
  /\ stops' = stops + 1
  /\ IF pending = 0 THEN UNCHANGED <<timers, outcome>>
     ELSE outcome' = Settle(pending, "stopped") /\ timers' = timers \ {pending}
  /\ pending' = 0
  /\ runs' = [runs EXCEPT ![registered].aborted = TRUE]
  /\ registered' = NoRun
  /\ UNCHANGED <<spec, written, answers, approved>>

\* Nothing but the planSpec survives a restart.
Restart ==
  /\ stops < MaxStops /\ stops' = stops + 1
  /\ runs' = [r \in Runs |-> IdleRun] /\ registered' = NoRun
  /\ pending' = 0 /\ timers' = {}
  /\ answers' = [a \in Answers |-> IdleAnswer]
  /\ UNCHANGED <<spec, written, outcome, approved>>

-----------------------------------------------------------------------------
RunStep(r) ==
  Register(r) \/ Implement(r) \/ Revise(r) \/ GiveUp(r) \/ End(r) \/ Generate(r)

AnswerStep(a) == LoadForRecovery(a) \/ Recover(a) \/ StartRecovered(a) \/ Write(a) \/ Resolve(a)

Next ==
  \/ \E r \in Runs : Start(r) \/ RunStep(r)
  \/ \E a \in Answers : Answer(a) \/ AnswerUnexpected(a) \/ AnswerStep(a)
  \/ \E plan \in Plans : TimerFires(plan)
  \/ Stop \/ Restart

Spec == Init /\ [][Next]_vars

-----------------------------------------------------------------------------
(* Properties.                                                              *)

\* The agent that asked implements the plan only when a user approved that very plan,
\* whatever answers, revisions, timeouts and stops overlap.
ApprovedByUser ==
  \A r \in Runs : runs[r].pc = "implementing" /\ runs[r].ask => runs[r].plan \in approved

\* Only one run at a time that nobody has stopped: an answer that finds no pending
\* approval does not start a second agent while the first is about to ask.
OneLiveRun ==
  \A r, s \in Runs :
    /\ runs[r].pc # "idle" /\ ~runs[r].aborted
    /\ runs[s].pc # "idle" /\ ~runs[s].aborted
    => r = s

\* An approval that is pending is one an agent waits for: whoever answers it finds its
\* promise open, whichever timer, answer, stop or later plan has passed through the map.
PendingIsAwaited ==
  pending # 0 =>
    /\ outcome[pending] = "open"
    /\ \E r \in Runs : runs[r].pc = "waiting" /\ runs[r].plan = pending

-----------------------------------------------------------------------------
(* What the approval promises.                                              *)

plansOf(R) == {runs[r].plan : r \in R}
unasked    == {p \in Plans : p > written}
                \cup plansOf({r \in Runs : runs[r].pc = "generated"})
awaited    == plansOf({r \in Runs : runs[r].pc = "waiting"})
worked     == plansOf({r \in Runs : runs[r].pc = "implementing" /\ runs[r].ask})

Abstract == INSTANCE PlanDecision WITH
  fresh <- unasked, waiting <- awaited, working <- worked, fate <- outcome

\* Each plan is asked about once and decided once, while its agent waits; an approval
\* decides the plan it was given for, and the agent does what was decided, although
\* answers write to disk before they resolve, and timers and stops empty the same map.
AbstractSpec == Abstract!Spec
=============================================================================
