# homeMaker: TLA+ verification of the agent automation core

homeMaker is a household board whose cards ("features") are worked on by AI
agents. The part of it that is hard to get right is the automation on the
server: a loop that picks features, a pipeline that takes each of them through
planning, an agent, review and merge, and the parties that write to the same
board at the same time. These modules model that part, TLC checks them on small
instances, and TLAPS proves the main results for every value of the constants.

Paths below are relative to `src/apps/server/src/services/` unless they say
otherwise.

## 1. The system

### Components

| Component | State | Operations | Hard parts |
| --- | --- | --- | --- |
| **Auto loop coordinator** (`auto-mode/auto-loop-coordinator.ts`) | one `LoopState` per project and worktree key: `isRunning`, `isPaused`, `failureTimestamps`, `cooldownTimer`, `startingFeatures` | `startLoop`, `stopLoop`, `pauseLoop`, `resetFailures`, `shutdown`; `resumeLoop` without a caller | a replaced `LoopState` lives on in the async function started with it |
| **Auto mode service** (`auto-mode-service.ts`) | `pendingLoopStarts`, persisted execution state | start and stop of a project's loop (its pause and resume have no caller); circuit breaker with a cooldown timer; `executeFeature`, `stopFeature`, `followUpFeature`; reconciliation at startup | awaits between check and use; timers that outlive what they were set for |
| **Feature scheduler** (`feature-scheduler.ts`) | local variables of each `runLoop` | capacity check, load pending features, choose, re-check, dispatch, starting timeout, treatment of results | results of minutes-old pipelines meet a different `LoopState` |
| **Concurrency manager** (`auto-mode/concurrency-manager.ts`) | leases and their counts | acquire, release, resolve | released twice, overwritten by follow-ups |
| **Execution service** (`auto-mode/execution-service.ts`) | the running feature, the board | runs an agent, classifies its end, retries, git workflow | delayed retries without a lease |
| **Pipeline state machine** (`lead-engineer-service.ts`, `lead-engineer-state-machine.ts`) | `currentState`, two transition counters, the `StateContext`, `activeFeatures` | `process`, `processFeature` with goal gates and error handling | six counters bound the cycles, some of them reset by other transitions |
| **Processors** (`lead-engineer-*processor*.ts`, `lead-engineer-escalation.ts`) | counters in `StateContext`, board status, the pull request | INTAKE, PLAN, EXECUTE, REVIEW, MERGE, DEPLOY, ESCALATE | each acts on a board and a pull request that others change meanwhile |
| **Checkpoints** (`pipeline-checkpoint-service.ts`) | one file per feature | save after every transition, load and restore at the next `process` call, delete at the end | only some counters are saved |
| **Feature store** (`feature-loader.ts`, `src/libs/types/src/feature.ts`, `src/libs/utils/src/atomic-writer.ts`) | one `feature.json` per feature with rotated backups; no cache, no lock | update, delete, normalisation of legacy statuses | two writers lose an update; a backup brings a deleted feature back; without one an update throws |
| **Error budget and pickup freeze** (`error-budget-service.ts`, `auto-mode/auto-mode-coordinator.ts`) | merge records on disk, `exhausted`, the freeze flag | record a merge, mark a CI failure; two asynchronous event handlers | handlers overtake one another |
| **Lead Engineer rules and world state** (`lead-engineer-rules.ts`, `-action-executor.ts`, `-world-state.ts`) | sessions, world state | event-driven repairs of the board | acts on a snapshot |
| **Plan approval and HITL forms** (`auto-mode-service.ts`, `hitl-form-service.ts`) | `pendingApprovals`, the plan in `feature.json` | resolve, reject, cancel, time out | four parties settle one promise |
| **Pull request feedback and watchers** (`pr-*.ts`, `merge-eligibility-service.ts`) | pull requests on GitHub | polls, webhooks, remediation | stale answers |
| **Git workflow, middleware, worktrees** (`git-workflow-service.ts`, `auto-mode/post-execution-middleware.ts`, `worktree-*.ts`) | branches, commits, stashes | sequences of git and gh commands | one of several steps fails |
| **Dependency resolver** (`src/libs/dependency-resolver/`) | none | topological order, blocked features | cycles, missing and repeated dependencies |
| **Completion cascade** (`completion-detector-service.ts`, `project-service.ts`) | three dedup sets and their ledger, the project in memory and in `project.json` | a finished feature completes its epic, milestone and project | every event starts a handler of its own; each writes a copy of the project it took earlier |
| **Reconciliation, health, recovery, maintenance, scheduler, automations** | board, cron state | periodic repairs | repair of something live |
| **Ceremonies, peer mesh, work intake, agent chat** | small state machines, claims, prompt queues | partly unreachable, see section 5 | lossy channel, queues |
| **Home domain** (sensors, inventory, vendors, budget, gamification) | SQLite | mostly one synchronous call per operation | reconnecting client |
| **Routes, UI, providers, settings, files** | none of the core's | I/O and wiring | outside the core |

### How they interact

Routes, tools and the cooldown timer call the auto mode service, which creates
the loop through the coordinator. The loop reads leases and its own
`startingFeatures` to decide whether it has room, asks the scheduler for pending
features, and calls `process()` of the Lead Engineer without awaiting it. That
call loads the feature and its checkpoint and runs the state machine; EXECUTE
calls `executeFeature()`, which takes a lease, runs the agent, writes the board
and tells the circuit breaker of the outcome. When the call ends, a callback frees the slot on
the `LoopState` that started it and feeds the breaker of the `LoopState` that is
current *now*. Board and pull request are shared with the scheduler's own sync,
reconciliation, webhooks and users; nothing locks them across an await.

Below `executeFeature()` three maps keyed by the feature hold an execution
together: the leases, `runningFeatures` with its abort controller, and
`retryTimers`. Stop, follow-up, resume, the retries and the health sweep all write
to them. An agent that wants its plan approved leaves a promise in
`pendingApprovals`, which a route, a timer, a stop or a second answer settles.
Feature status changes are events: the completion detector and the project service
hear each of them and go on asynchronously, and merges and CI failures feed the
error budget, whose exhaustion freezes the pickup of the loop.

### What makes each part correct

- *Loop control*: one loop runs per key; what is stopped ends; a start and a
  stop that overlap leave nothing running that a stop cannot reach.
- *Scheduling*: the limit on features in hand holds although leases appear
  minutes after the dispatch, as far as the leases are there to be counted; every slot
  comes back.
- *Circuit breaker*: failures that reach the threshold pause the loop.
- *Pipeline*: every call returns; the transition budget never cuts an ordinary
  feature short; a feature reported escalated is blocked.
- *Board and pull request*: done means merged, and merged ends up done.
- *Checkpoints*: a crash gives back a bounded number of attempts.
- *Execution*: what the maps say about a feature is about something alive; a lease
  has a holder; a wait for an execution ends, and not before the execution.
- *Approval*: no agent implements a plan that no user approved; one agent at a time.
- *Freeze*: a spent error budget freezes pickup, and a freeze without one comes from
  one known race.
- *Resolver*: dependencies first, then priority; nothing lost; cycles are found.
- *Cascade*: nothing is called complete over a part that was never done; a completed
  project has no open milestone; and completion is not forgotten.

The file `PROJECT.json` lists under `hazards` the places where these can go
wrong, line by line, with the property that watches each of them.

## 2. The modules

| Module | Models |
| --- | --- |
| `LoopControl` | abstract: the promise of the loop of one key |
| `AutoLoop` | coordinator, breaker, start and stop, `runLoop`, and the pipelines it starts, as seen from the loop |
| `MCAutoLoop` | symmetry sets for the runs of `AutoLoop` |
| `AutoLoopProofs` | theorems about `AutoLoop` |
| `FeaturePipeline` | one feature's pipeline: `process`, the state machine, all processors, the checkpoint, board and pull request |
| `FeaturePipelineProofs` | theorems about `FeaturePipeline` |
| `FeatureExecution` | every call that may run an agent for one feature, with the leases, the entry, the timers and `waitForCompletion` |
| `FeatureExecutionProofs`, `FeatureLeaseProofs` | theorems about `FeatureExecution` |
| `PlanDecision` | abstract: a plan is asked about once, decided once, and its agent does what was decided |
| `PlanApproval` | the promise between an agent and the user who approves its plan |
| `PlanApprovalProofs` | theorems about `PlanApproval` |
| `PickupFreeze` | error budget, freeze handlers, and loops that look at the flag |
| `PickupFreezeProofs` | theorems about `PickupFreeze` |
| `DependencyOrder` | abstract: take one of the most urgent features whose needs are met, then the rest, and report a cycle if there is a rest |
| `DependencyResolver` | `resolveDependencies` and `detectCycles`, one step per iteration |
| `DependencyResolverProofs` | theorems about `DependencyResolver` |
| `CompletionCascade` | the completion handlers, the project service's copies, restarts |
| `MCCompletionCascade` | the epic and the milestones of the checked instance |
| `CompletionCascadeProofs` | theorems about `CompletionCascade` |

Operators and actions keep the names of the functions they stand for.
Definitions commented as "Faulty" are plausible bugs (a dropped guard, a missing
reset); none of them is part of a specification, they stand in for the
definition they name when a property's strength is tested.

### AutoLoop

Steps are cut at the `await`s. `startAutoLoopForProject` is three steps
(`CallStart`, `RefuseStart` or `ClaimStart`, `FinishStart`): the check and the
claim of the key in `pendingLoopStarts` are synchronous, the awaits between the
claim and `startLoop` are not. `runLoop` is `StartupEnds`, `LoopExits`,
`Iterate`, `Choose`, `CountLeases`, `Defer` and `Dispatch`; between `Choose` and
`CountLeases` lie the awaits for heap, pickup freeze and review queue. A `process()`
call is a record in `run` that passes through INTAKE, the time before the agent, the
agent and the time after it, and ends in `Completed`, `Escalated`, `Blocked` or
`NeedsRetry`, which treat the result as the scheduler does.

The capacity check adds two numbers. The leases it counts and awaits (`CountLeases`
keeps them in `tally`); to these it adds the features of `startingFeatures` for which
`isFeatureRunning()` is false (`Occupied`): one that runs is left out, since its lease is
counted. `leased` and `registered` (`runningFeatures`) are therefore two variables. They
come apart where the code lets them: a retry of `ExecutionService` runs without a
lease (`due`, `RetryFires`), the health sweep or the late release of a stopped execution
takes the lease of a feature that runs (`ReleaseStaleLease`, `StoppedAgentEnds`), and
`executeFeature()` acquires its lease without a branch, so that only the main worktree's
loop, which counts all of the project's leases, finds it (`countedLeases`,
`MainWorktree`). `unseen` is a history: the slots of features that have run, since their
dispatch, without a lease the loop's check counts. `RetriedFeatures` and
`ManualFeatures` bound the features that are retried or lose their lease, and those a
user starts, stops and edits.

A `LoopState` that was replaced or removed from the map keeps running in its own
async function, so all `LoopState`s ever created are members of `Loops` and
`current` is the one the map holds; `None` plays the missing entry. `isRunning`,
`isPaused` and the failure timestamps are per `LoopState`. The 60 second window
is a nondeterministic choice of how many timestamps survive. An
`AbortController` has no variable: `abort()` always comes with
`isRunning = false` and only shortens a sleep.

`pauseAutoLoopForProject` and `resumeAutoLoopForProject` have no caller in the
repository and are not modelled; `pauseLoop` is what the breaker calls. The end of an
execution is one step here (`AgentEnds`, `OtherEnds`); its clean-up is taken apart in
`FeatureExecution`.

`LoopControl` is what remains seen from outside: one live loop at a time, slots that are
taken below the limit and freed, and slots the loop loses sight of (`Overlook`, mapped
from `unseen`), which the limit no longer covers.

### FeaturePipeline

`pc` is the suspension point of the call: `called` (loading feature and
checkpoint), `enter` (the top of the while loop), `agent` and `ended` (inside
EXECUTE, before and after `waitForCompletion`), `verify` (inside MERGE, after
`gh pr merge`), `exit` (the exit gate, the checkpoint and the transition) and
`cleanup`. Between any two of them every action of the rest of the world may
happen. The counters of `StateContext` are `ctx`, the part of them that reaches
the disk is `checkpoint`, and the result of a processor is `result`. A feature
that is deleted while it has backups comes back with its next read, so `Delete`
either moves it to the status of a backup or, without one, to `gone`; writing to a
gone feature throws and the catch clause (`Throws`) leads to ESCALATE.

`Faults` selects what may interfere: `crash` (the server stops at any point and
comes back), `edit` (a user, a HITL form or a delayed reset moves the feature
back to backlog), `delete`, `gh` (gh calls fail, and the code goes on as if it
had found nothing) and `noPr` (an agent succeeds while the git workflow reports
no pull request). Merging by somebody else, the scheduler's sync and
reconciliation are always possible.

The board's statuses are read as `normalizeFeatureStatus` reads them: `verified`
and `waiting_approval` are `done`.

### FeatureExecution

A call (`executeFeature`, `resumeFeature`, `followUpFeature`, or a retry that a
timer starts) is a record in `calls` whose `pc` names the await it hangs in: loading
the feature, preparing the worktree, the agent, the failure path, the `finally`
clause (`Cleanup`, which stands for `PostExecutionMiddleware`). `lease` is the
count `ConcurrencyManager` keeps, `entry` the call in `runningFeatures`, `due` the
armed timers and `handle` the one `retryTimers` knows. `stops` are `stopFeature`
calls between the abort and the status write, `wait` is the `waitForCompletion` of the
pipeline, which hears some of the endings (`WaitHears`) and has a timeout. The board
may move at any time (`BoardMoves`); a status that becomes `done` makes the listener
call `stopFeature` (`StopsDone`). The sweep of stale leases, the repair of stale
running features, `ClearRetryTimers` of a stopping loop and a restart are actions of
their own. The retry limits are constants per failure class.

The `frames` of a call are the acquisitions it will release, `leaked`, a history,
those nobody will; the comparison with `lease` finds a count that no call explains.

### PlanApproval

`spec` is the plan in `feature.json`, `runs` the executions of the feature, `pending`
the entry of `pendingApprovals` (a plan number; 0 for none), `timers` the armed
timers and `outcome` how each promise ended. `answers` are `resolvePlanApproval` calls: they
look the promise up (`Answer`), await the write to disk (`Write`) and then settle it and
delete the entry (`Resolve`); or find no promise and go through the recovery of a lost
one (`AnswerUnexpected` to `StartRecovered`). `Revise` ends one promise and lets the
same agent register the next under the same key. `approved` is a history.
`updateFeaturePlanSpec`'s read and write are one step.

`PlanDecision` is what is left without the map, the timers and the answers under way: a
plan is fresh, waiting or being worked on, and its fate is open or decided. The mapping
reads these off the executions (`unasked`, `awaited`, `worked`); the fate is `outcome`.
That a plan is decided only while its agent waits is what the refinement adds to the
invariants: a timer, an answer or a stop that finds the map in the hands of a later plan
must not decide a plan nobody waits for any more.

### PickupFreeze

`records` are the merges of the window with their CI outcome, `exhausted` the service's
memory of its last event. An event starts a handler (`EmitExhausted`,
`EmitRecovered`): the exhausted handler reads the settings (`ReadSettings`), may find
the freeze disabled, and then freezes (`Freeze`); the recovered one has no await and
takes effect at once. Settings may be unreadable, which counts as enabled. Loops check
the flag (`CheckFreeze`), await other things, and pick their feature up (`Pickup`).

Three histories say why the flag and the budget disagree. `optedOut`: since the latest
exhaustion a handler read a setting that disables the freeze, so what the setting says
excuses a missing freeze and what the handler made of it does not. `overtaken`: handlers
were at work when the latest recovery was emitted. `late`: what each loop started since
the freeze. `StaleFreezeExplained` allows a freeze without a spent budget in the case of
`overtaken` only; that case is reachable and is a fault of the code (section 3).

### DependencyResolver

The features are numbered as in the array; their lists are arbitrary and may name an
unknown id, the feature itself, or an id twice. `Order` is one iteration of Kahn's
loop with `lowered` as the inner loop over the dependents; `Leftover` ends it.
`SearchFrom`, `Descend`, `SkipVisited`, `CycleFound` and `Backtrack` are the recursion
of `dfs` with its stack in `calls`; a cycle ends all calls at once and leaves path and
recursion stack as they are, as in the code. Which of equally urgent features comes
first is left open.

`DependencyOrder` has no counters: it looks at the dependencies at each step. The mapping
keeps the known dependencies of each feature (`knownNeeds`) and the part of the function
it is in (`phase`), and hides the search but for whether it has found a cycle.

### CompletionCascade

A handler is a record: the step it stands at, the feature it is for, the milestones it
still has to check (`todo`), the project status it read (`held`) and the copy of the
project it is writing (`copy`). `emitted` are the three dedup sets, `ledger` the file
they are loaded from. The objects of the milestones are shared by all copies of the
project in memory, so `completed` is one variable; `project` is the status of the copy
that `_docs` holds and `disk` is `project.json`. `sync` is the phase sync of
`ProjectService`, which takes the project at a status change and writes it later; one
sync stands for those in progress. `Restart` loses any part of what this process has
appended to the ledger, since nobody waits for the appends.

A look at the board is not one step. `FeatureLoader.getAll()` lists the directories and
then reads each `feature.json` on its own: `EpicLook` and `MilestoneLook` check the set
and take the listing into `unread`, `ReadChild` and `ReadFeature` read one of the listed
files at a time, in any order, and anything may happen between two of them. The code
reads all files before it looks at the first; here the first file that does not fit ends
the look, since what is read after it has no effect. `Mark` then checks, as the code does
after all reads, that every phase of the milestone has its feature by now. The check of
the set and of the project, and the listing, are one step: an earlier check is a handler
that started earlier, and a project that changed in between is met again at `Mark`.

A look can therefore find all features done although they never were together: one is
read, reopened, and another is finished and read. And a feature that is scaffolded after
the listing is missed, while its phase counts as linked at `Mark`. Two histories say what
is left of "complete": `wasDone` are the features that were done at some time, `late` the
pairs of a feature and an item it came too late for, because a call was looking at the
item already or had claimed it. `CompleteWhenMarked` says that each part of a marked item
is in one of the two. Neither "the features were done together" nor the same without
`late` holds: TLC finds both violated.

## 3. The runs

### That pass

| Run | Question | Bounds |
| --- | --- | --- |
| `AutoLoop` | `SeenSlotBound` and `SlotsAccounted`, with a feature that is retried without a lease, loses its lease, and is started, stopped and edited by hand | 1 loop of the main worktree, 2 features, 2 pipelines, 1 timer, 1 user call beside the timer's own, limits of 1; 1.5 million states |
| `AutoLoopLive` | `NoOrphanLoop`, `TrippedLoopIsPaused`, `AbstractSpec`, the refinement of `LoopControl`, and `StoppedLoopExits` and `SlotsFreed` under fairness | 2 loops, 1 feature, 1 pipeline, threshold 1; 0.11 million states |
| `FeaturePipeline` | `DoneMeansMerged`, `CrashLosesAtMostOne`, `BudgetNeverSpent` with crashes, edits, deletions and failing gh calls | below; 1.4 million states |
| `FeaturePipelineLive` | `PipelineReturns` and `MergedStaysDone` with crashes and agents that report no pull request | below; 110 thousand states |
| `FeatureExecution` | `EntryIsLive`, `HandleIsLive`, `LeaseExplained`, `WaitOutlastsRun`, and `WaitEnds` under fairness | 2 calls, one retry per failure class, 1 stop in flight, leases up to 2; 0.35 million states |
| `PlanApproval` | `ApprovedByUser`, `OneLiveRun`, `PendingIsAwaited`, and `AbstractSpec`, the refinement of `PlanDecision` | 2 executions, 2 answers in flight, 2 plans, 1 stop; 2.2 million states |
| `PickupFreeze` | `ExhaustionIsSeen`, `StaleFreezeExplained`, `FreezeHolds` | 2 features, 2 loops, 4 records, 2 handlers; 0.23 million states |
| `DependencyResolver` | `TopologicalOrder`, `PriorityRespected`, `EveryFeatureOnce`, `OnlyCyclesRemain`, `CycleReported`, and `AbstractSpec`, the refinement of `DependencyOrder` | every graph of 3 features with lists of at most 2 ids, 2 priorities; 0.8 million states |
| `CompletionCascade` | `CompleteWhenMarked`, `ProjectConsistent`, and `CascadeEnds` under fairness | an epic with one child, a feature without an epic, two milestones, 2 handlers, one disturbance; 0.79 million states |

Why these bounds are enough to be interesting:

- Two `LoopState`s (`AutoLoopLive`) are what a replaced loop needs: an old one that
  still runs, or whose pipelines still report, and a current one. Two callers (a user and
  the cooldown timer) are what an overlapping start needs. Two features (`AutoLoop`) and
  a limit of one make the limit bite at once: the second is refused, unless the first
  runs without a counted lease. Slots are per loop, so this needs one loop only; what
  another loop adds is in the proofs. A bound on `Loops`, `Runs` or `Timers` blocks the
  action that would need one more; liveness asks nothing of these actions.
- The pipeline's counters are the code's with smaller limits. In
  `FeaturePipeline` the longest way is 4 + 2 + 2 + 2 * 2 = 12 transitions
  and the budget is 14; with a budget of 12 TLC finds it spent, so the run is
  close to the edge. `MaxSameState` stands for `MAX_SAME_STATE_TRANSITIONS` = 100.
- Two calls of `FeatureExecution` are an execution and the one that overlaps it: a
  follow-up beside a run, a retry beside a new start, a resume inside a start. The
  third would only add a second overwritten follow-up (the proofs cover it).
- Two answers and two plans of `PlanApproval` are one answer to the old plan in flight
  while the next is registered; two runs are the stopped one and the recovered one.
- Two handlers of `PickupFreeze` overtake one another; four records make a window that
  fails, recovers and fails again.
- Three features of the resolver hold a cycle of two with one behind it, a cycle of
  three, and a diamond's half; two entries per list hold a repeated and an unknown id.
- `CompletionCascade` has an epic in another milestone than its child, so that one
  event completes both milestones, and that milestone holds two features, which are read
  one after the other; a child and its epic are, too. `MaxDisturbances` = 1
  allows one reopened feature, one extra event or one crash. Two handlers at a time
  overlap in every await, and later events wait for a free one.
- `FeaturePipelineLive` cuts every limit to 1 or 2 and keeps all cycles. Its
  transition budget of 9 equals its longest way, 4 + 2 + 1 + 2 * 1, so calls
  that run out of transitions occur in it as well.

### That find a violation

Each of these states what a comment, an event or a name in the repository says
and TLC shows the code doing otherwise.

| Run | What is said | What happens |
| --- | --- | --- |
| `AutoLoopPausedDispatch` | "Auto Mode paused: ... Circuit breaker activated" (`auto-mode-service.ts:588`) | `signalShouldPauseForProject` sets `isPaused` and then calls `pauseLoop`, which returns early when `isPaused` is set; the loop goes on starting features |
| `AutoLoopLimit` | "maxConcurrency - Maximum concurrent features" (`auto-mode-service.ts:727`) | the check drops the starting features that run (`feature-scheduler.ts:261`, `:404`), expecting their lease to be counted; the loop of another worktree than the main one finds no lease of them, since they carry no branch, and dispatches one more. On the main worktree the same follows from a retry without a lease |
| `ExecutionDone` | the listener is to "stop running agents when their feature reaches a terminal state" (`auto-mode-service.ts:309`) | it calls `stopFeature`, which writes `backlog` over the `done` that called for it (`:1287`); the loop picks the finished feature up again |

Other disagreements seen while modelling, which the models contain (unless said
otherwise) and no run singles out. *Loop and pipeline*:

- `startingFeatures` "prevents race-condition double-starts"
  (`auto-loop-coordinator.ts:87`), but the starting timeout frees the slot of a running
  feature; when its agent fails, the loop hands it to a second pipeline;
- resume, which nothing calls yet, returns "false if no paused loop was found"
  (`auto-mode-service.ts:948`), but would replace a running loop (`:958`), which runs on
  where no stop reaches it (not modelled);
- ESCALATE "moves feature to blocked status" (`lead-engineer-escalation.ts:22`), but
  EXECUTE asks for ESCALATE with `shouldContinue: false`
  (`lead-engineer-execute-processor.ts:605`): the call ends as escalated, the processor
  never runs, and the feature is not blocked;
- "Changes requested, remediating" (`lead-engineer-review-merge-processors.ts:234`),
  but EXECUTE's guard against duplicate agents
  (`lead-engineer-execute-processor.ts:283-316`) finds the open pull request and returns
  to REVIEW without an agent;
- `gateRejectionCount` "escalates after 3" (`lead-engineer-types.ts:164`), but it dies
  with the call that counted, and the gate rejects for ever;
- the caps "prevent infinite loops" (`lead-engineer-state-machine.ts:153`), but for a
  feature that was deleted and has no backups ESCALATE throws, the catch clause (`:324`) enters
  ESCALATE again and counts nothing;
- with `skipVerificationInAutoMode` the scheduler starts a feature whose dependency is
  still in backlog, and INTAKE's `getBlockingDependencies`
  (`lead-engineer-processors.ts:41`), said to use the same logic, escalates it; missing
  dependencies, too, are unsatisfied to one and not blocking to the other (not modelled);
- stopping a loop is to clear retry timers "to prevent zombie restarts"
  (`auto-mode-service.ts:605`, `:883`), but only of features that run, which a feature
  that waits for its retry does not; `HandleIsLive` says that a timer in `retryTimers` has
  yet to fire, and does not see those that the clearing fails to find;
- the breaker's auto-resume finds the loop running and returns before
  `resetFailures`, so `isPaused` stays set until a feature succeeds
  (`auto-mode-service.ts:637`);
- a loop stopped between loading and dispatching starts one more feature, and the
  chosen feature is not looked at again (`feature-scheduler.ts:418`);
- infrastructure retries, said not to re-run the agent
  (`lead-engineer-types.ts:53`), return to EXECUTE, which does;
- REVIEW that finds its feature merged elsewhere stops with `nextState: null`, so
  the call reports `blocked` and the checkpoint stays
  (`lead-engineer-review-merge-processors.ts:117`);
- without a `prUrl` a successful feature becomes `verified` or
  `waiting_approval`, which are read as done, "PR merged"
  (`auto-mode/execution-service.ts:1172`): `DoneMeansMerged` needs `noPr` absent.

*Execution*:

- resuming an existing context through a leased `executeFeature` is always refused by
  the call's own lease; a retry that finds fresh agent output or an approved plan loses
  its `retryCount` on the way (`auto-mode/execution-service.ts:399-428`). With an approved
  plan this happens in every retry, so a feature is never found to have looped so often as to be "giving
  up" (`:1273`) and the limits on turns and transient errors are not reached either:
  each call ends (`CallNearsItsEnd`), the chain of its retries need not;
- retries run without a lease: a loop counts such a feature neither among the leases nor,
  while it runs, among the starting ones (`unseen` of `AutoLoop`);
- a generic failure and `waiting_approval` emit no event `waitForCompletion` knows: the
  pipeline waits out its 30 minutes;
- `runningFeatures` entries are deleted without asking whose they are, so a stop
  followed by a start leaves a moment in which two agents are possible; overlapping
  follow-ups leak a lease until the sweep;
- `loadExecutionState` (`auto-mode-service.ts:3292`) is never called: no loop is
  restored from the file that says what to restore.

*Approval and freeze*:

- a timer is there "to prevent indefinite waiting" (`auto-mode-service.ts:2588`), but a
  second answer in flight deletes the entry of the revised plan (`:2738`), whose timer then
  finds nothing to reject (`:2590`): the agent waits for ever, and no answer reaches it;
- the second answer also marks a regenerated plan approved on disk; the old timer of an
  overwritten promise deletes the newer entry; `updateFeaturePlanSpec` merges the update
  (`:3026`) before it compares the content, so the version never increments (`:3029`);
- `isPickupFrozen` "returns false when the setting is disabled or the budget is healthy"
  (`auto-mode-coordinator.ts:46-49`), but an exhausted handler that a recovery overtakes
  while it reads the settings freezes pickup over a healthy budget, and the next
  exhaustion and recovery must come to end it; and a setting that is disabled while
  pickup is frozen does not thaw it. `StaleFreezeExplained` says that the race is the
  only way to the first;
- the flag does not stop a feature already chosen; a thaw comes only with a later merge
  (`error-budget-service.ts:206`); a restart forgets both flags; the gate at
  `lead-engineer-execute-processor.ts:999` reads another directory than the recorder
  writes; a CI failure that is reported before the merge adds a second record, and the
  `pr:ci-failure` of `pr-feedback-service.ts:1314` carries no feature id.

*Resolver*:

- cycles after the first may be false: for A and B in a cycle and C behind A the second
  report is A, B, C with C on no cycle (`CycleReported` says what is true);
- the routes do not reject cycles: `wouldCreateCircularDependency` is used in the user
  interface only.

*Cascade*:

- a refused pull request must not claim the dedup key, "so the next feature:done event
  can retry" (`completion-detector-service.ts:282`), but when two handlers list no pull
  request and both create one, the second is refused and blocks the epic whose key the
  first has claimed: it stays blocked until its pull request is merged;
- a milestone's completion can be emitted twice, though the sets are a "dedup guard"
  (`:60`): the set is looked at before two awaits and not after them. An epic without a
  branch does it by itself, with its own check and the handler of its own event;
- `project:completed` can precede `milestone:completed`, and the project's status can go
  back to active behind it, when a phase sync or another milestone's update writes a copy with the old
  status last; the key is claimed by then, and no later event completes the project;
- `project.json` can lose a milestone's completion to an older copy written last;
- an epic is complete as soon as the children that exist are done: one that is created
  later finds the key claimed; an epic's `review` can be written after the `done` of a
  fast merge and stays;
- a crash between a claimed key in the ledger and the write it stands for leaves the
  epic, milestone or project unfinished (`CascadeEnds` assumes no crash);
- features are matched to a milestone by its slug alone, also across projects (not
  modelled).

*Parts that are not modelled*: two updates of one `feature.json` lose one of the two;
`archiveFeature` writes its stub with a plain write that an update in flight
overwrites; a slow recovery of a file can copy a backup over a newer one; in work
intake an instance's own claims are not in `peerStatus` and are reclaimed after the
timeout, crossing claims make both sides yield while the phase stays claimed, and
`updatePhaseClaim` changes the cached document before its write and overwrites what
arrived meanwhile.

### Fairness

`AutoLoop!Fairness`: awaits of the start function resolve, timers fire, a running
loop takes its next step, an agent ends (it has a timeout) and a retry delay
ends. A pipeline's `Result` has strong fairness: its retries are bounded (that is
`PipelineReturns` of the other module), so a pipeline that comes back to a
point where it may end does end. Nobody is assumed to start, stop or edit
anything.

`FeaturePipeline!Fairness`: a call in progress goes on (the agent's wait has a
timeout, every other step is an await of I/O), the loop keeps dispatching pending
features and keeps syncing merged branches, and `reconcileFeatureStates`, which
runs at startup, picks up a feature whose call is gone. Nobody is assumed to
merge, edit or review; a reviewer's verdict is any choice at any time.

`FeatureExecution!Fairness`: a call in progress goes on or its timer fires, a
`stopFeature` in flight finishes, and the timeout of the wait fires. Nobody has to
start, stop or answer anything; that agents end is their turn limit and timeout.

`CompletionCascade!Fairness`: a handler in progress goes on, some event that has
been emitted gets its handler, and the phase sync writes. Nobody has to finish a
feature or merge an epic: `CascadeEnds` is conditional on features that stay done and
on a process that lives.

## 4. The proofs

All for every value of the constants allowed by the named assumptions
`AutoLoopAssumption`, `PipelineAssumption`, `ExecutionAssumption`,
`ApprovalAssumption`, `FreezeAssumption`, `ResolverAssumption` and
`CascadeAssumption`, which TLC evaluates in the runs.

| Theorem | States | Argument |
| --- | --- | --- |
| `AutoLoopProofs!TypeCorrect` | `[]TypeOK` | inductive as it stands |
| `SingleLoop` | `[]NoOrphanLoop` | inductive with `TypeOK`; `KeepsLoop` and `ResultKeepsLoop` gather the actions that cannot disturb it |
| `SlotsCounted`, `SlotsBounded` | `[]Counted`, `[]SeenSlotBound` | `Counted`: a slot whose feature runs is either counted by its lease, also in the tally of a check under way, or in `unseen`; one whose feature does not run is counted as starting. So `Dispatch` finds every seen slot in its two numbers (`RoomToDispatch`), whether or not it is the main worktree's loop, and no other step takes a slot (`SlotsShrink`) |
| `NoSlotLeak` | `[]SlotsAccounted` | `RunsKept`: a step that leaves the slot leaves the pipeline that holds it |
| `TrippedIsPaused` | `[]TrippedLoopIsPaused` | case on `trackFailure` and `resetFailures`, the only writers |
| `LoopImplementsControl` | `Spec => AbstractSpec` | every action maps to `Begin`, `End`, `Take`, `Overlook`, `Free` or a stutter, using `NoOrphanLoop`, `Counted` and `TypeOK`; a slot that is overlooked does not count against the limit of `LoopControl` any more |
| `StoppedWindsDown` | `StoppedLoopWindsDown` | `NotRevived`: no action sets `isRunning` of a `LoopState` that exists; `WindsDown`: each step of a stopped loop is nearer to `exited` |
| `FeaturePipelineProofs!TypeCorrect` | `[]TypeOK` | `TypeOK` is not inductive: a counter could be incremented at its limit. `StepInv` records for each suspension point the guards the call has passed |
| `DoneIsMerged` | `[]DoneMeansMerged`, if `noPr` is not among the faults | `MergeInv`: DEPLOY is entered, asked for, or saved in a checkpoint only when the pull request is merged, so a resumed DEPLOY is safe |
| `CrashLosesLittle` | `[]CrashLosesAtMostOne` | `CounterInv`: while a processor runs, the checkpoint has exactly the call's counters, and EXECUTE, whose refused exit saves nothing, changes neither |
| `BudgetSuffices` | `[]BudgetNeverSpent`, if `Longest < MaxTransitions` and no `noPr` | `BudgetInv`: the transitions of a call never exceed the shortest way to its state plus one for each retry and two for each remediation; whoever reaches REVIEW has an agent retry left |
| `CallsNearTheirEnd` | `FeaturePipeline!CallNearsItsEnd` | a lexicographic measure: transitions, transitions to the same state, suspension point (`rank`); the one exception, ESCALATE of a deleted feature, is in the statement |
| `CountersGrow` | `CountersNeverGoBack` | `CountersKept`: between restore and save a call only adds to its counters; `CheckpointWriters`: everybody else leaves the file or deletes it |
| `FeatureExecutionProofs!TypeCorrect`, `EntriesAreLive`, `HandlesAreLive`, `WaitsOutlastRuns` | `[]TypeOK`, `[]EntryIsLive`, `[]HandleIsLive`, `[]WaitOutlastsRun` | one invariant `IInv`: the entry is a call that has not ended; the handle is an armed timer; every timer belongs to one call (`OwnTimer`); what has settled is idle (`SettledIsIdle`) |
| `FeatureExecutionProofs!CallsEnd` | `FeatureExecution!CallNearsItsEnd` | a measure `toGo` of the place in the body and of whether the call has its continuation prompt, which is what keeps `executeFeature` and `resumeFeature` from calling one another for ever |
| `FeatureLeaseProofs!LeasesExplained` | `[]LeaseExplained` | `LInv`: the leases never exceed the calls that hold a ticket plus those of overwritten follow-ups, counted with the theorems on finite sets |
| `PlanApprovalProofs!TypeCorrect`, `PlansApproved`, `RunsAlone`, `EntriesAwaited` | the four invariants of the run | a promise is approved only by an answer that named its plan; a pending entry is open and has exactly one waiting agent |
| `ApprovalImplementsDecision` | `Spec => PlanApproval!AbstractSpec` | the invariants above with `Promised`: an open promise that a timer or an answer in flight can still settle is one an agent waits for. Each action then maps to one action of `PlanDecision` or a stutter |
| `PickupFreezeProofs!TypeCorrect`, `ExhaustionSeen`, `FreezeExplained`, `FreezeEffective` | the four invariants of the run | inductive together; each handler in flight accounts for the event that started it |
| `DependencyResolverProofs!TopologicallyOrdered`, `PrioritiesRespected`, `NoFeatureLost`, `LeftoversAreKnots` | the properties of the order | `KInv`: a degree counts the positions of the list whose feature is not ordered, the queue is what has degree zero and is not ordered, and no member of a knot is ever ordered |
| `DependencyResolverProofs!CyclesReported`, `TypeCorrect` | `[]CycleReported`, `[]TypeOK` | `SInv`: the recursion stack is the path, the path is a walk along dependencies, and what the search has left hangs on no knot, so a search without a cycle would leave nothing over |
| `ResolverImplementsOrder` | `Spec => DependencyResolver!AbstractSpec` | from `KInv` and `SInv`: what has degree zero is what is free, and an end without everything ordered has a cycle reported |
| `ResolverEnds` | `EndsAtLast` | each action decreases the lexicographic measure of phase, ordered features, visited ids, open calls, place in a loop |
| `CompletionCascadeProofs!TypeCorrect`, `MarkedWereComplete`, `ConsistentProject` | the three invariants of the run | `CInv`: a copy of the project that is still to be written holds only completed milestones, and all of them if its status is completed; what a call's item can be missing, a part neither done at some time nor late, is among the files the call has still to read (`CallOK`), so nothing is missing at the end of the look; more completed milestones break none of it (`MoreCompleted`) |
| `CompletionCascadeProofs!CallsEnd` | `CompletionCascade!CallNearsItsEnd` | `OneChanges`: a step changes its own handler only; `StepOfCall`: where each step leads; a call of an epic passes through the epic's steps once and then through its milestones', and each read of a look leaves fewer files to read |
| `ProjectIsClaimedOnce` | `[]ProjectClaimedOnce` | `ClaimStep`: only `CheckProject` begins, and it takes a key nobody holds |

`Longest` is `4 + MaxAgentRetries + MaxInfraRetries + 2 * MaxRemediations`. With the
defaults of the code (3, 3 and 4) it is 18, below `MAX_TRANSITIONS` = 20. The project
settings can raise the retry limits, and the theorem says by how much they may
grow: beyond 19 the budget ends features that still have retries left.

The strengthened invariants were checked with TLC before they were proved.

Six results are the safety halves of liveness properties, which hold without any
fairness and for every value of the constants: `StoppedWindsDown` (of
`StoppedLoopExits`), `CallsNearTheirEnd` (of `PipelineReturns`), the two `CallsEnd` (of
`WaitEnds` and `CascadeEnds`), and `ResolverEnds`, which has no liveness property beside
it: the function is synchronous. They say that no step goes back; that a step is taken is
fairness, and stays with TLC. `CountersGrow` is the same for the retries that a
checkpoint remembers. The formulas of these results were checked with TLC on the runs'
instances; they are not among the runs' properties, whose number the project keeps small.

Only model-checked: the liveness properties `StoppedLoopExits`, `SlotsFreed`,
`PipelineReturns`, `MergedStaysDone`, `WaitEnds` and `CascadeEnds` (liveness under
fairness is out of the prover's reach), and everything in the violation runs. No
invariant of a passing run is only model-checked.

## 5. What is abstracted and what is left out

- Data: prompts, plans, comments, costs and times. A decision that depends on
  them is a nondeterministic choice among its outcomes (how a plan is reviewed,
  how an agent ends, what gh answers).
- Time: timeouts and cooldowns may fire whenever they are armed.
- `AutoLoop` has one key and one process. Several keys share only leases and the
  heap; the leases are global in the model, the heap is one of the reasons for
  `Defer`. Follow-ups are in `FeatureExecution` (their leases may carry a branch, which
  `AutoLoop` leaves out), the order of the pending features in
  `DependencyResolver`; the persisted execution state, which nothing loads, is nowhere.
- `FeaturePipeline` has one call in flight. Two at once are possible (section 3) and
  would share board and checkpoint; that their agents exclude one another is the lease
  of `FeatureExecution`. A pull request
  closed without a merge is not distinguished from an open one that nobody merges. The GTM pipeline of
  content features, goal verification and the HITL form of ESCALATE are left out;
  the form's answers "retry" and "provide_context" are the action `Requeue`. Its
  answer "skip" and a user who drags a card to "done" mark a feature done
  on purpose without a merge: `DoneMeansMerged` is about what the program does
  by itself, and no action edits a status to done.
- A checkpoint write succeeds: `save` only logs a failed write and the call goes on
  with the older checkpoint, of which `CrashLosesAtMostOne` says nothing.
- An I/O error is possible in front of every processor (`Throws`), not between
  any two of its writes, except in MERGE, where the merge and its verification
  are two steps.
- `FeatureExecution` and `PlanApproval` are about one feature each; features share only
  the leases' map. The age of a lease is not modelled (the sweep may come at any time),
  `stopFeature`'s status write and its clean-up are one step, and the recovery's backlog write after a rejection is left out of `PlanApproval`.
- `CompletionCascade`: `FeatureLoader.update` is one step; errors in a handler, which
  only end it, are left out, and so are the writers that replace the milestones' objects
  (`saveProjectMilestones`, peers) and the health check that may mark an epic done.

### Not modelled

- *Feature store and atomic files*: a write is one step that happens or, in a crash,
  does not; lost updates and the recovery from backups are described in section 3.
- *Pull request feedback and watchers, supervisor, GTM processors*: they meet the
  modelled parts as `MergedElsewhere`, `Review`, `EpicMerged` and `Requeue`. The feedback
  loop is the largest piece of concurrent code without a module of its own.
- *Peer mesh*: nothing starts it. *Work intake*: its two reporting functions have no
  caller, so a phase is never completed through it. *Agent chat*: no route sends a
  message. A model would be about behaviour that cannot happen.
- *Ceremonies, maintenance, automations, home domain, settings*: single records
  changed in one synchronous call, or documents and posts.
- *Routes, providers, user interface*: the environment actions of the modules.

## 6. The plan

Done, each with runs, mutants and proofs: `AutoLoop` (implements `LoopControl`),
`FeaturePipeline`, `FeatureExecution` (with `waitForCompletion`), `PlanApproval`
(implements `PlanDecision`), `PickupFreeze`, `DependencyResolver` (implements
`DependencyOrder`), `CompletionCascade`. What would add most next:

1. a composition of `AutoLoop` and `FeatureExecution` under an abstract feature
   lifecycle (backlog, in hand, settled), with a refinement theorem;
2. the pull request feedback loop, with its sessions and the webhooks that race it;
3. `AtomicFile` with rotated backups under crashes, and lost updates of the feature
   store;
4. the supervisor's world state and the repairs it derives from a stale snapshot.
