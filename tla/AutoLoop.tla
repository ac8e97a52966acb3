------------------------------ MODULE AutoLoop ------------------------------
(***************************************************************************)
(* The auto-mode loop of one project and worktree.  AutoLoopCoordinator    *)
(* keeps, under one key, at most one LoopState; AutoModeService starts,    *)
(* stops and (through the circuit breaker) pauses and restarts it;         *)
(* FeatureScheduler.runLoop picks features and hands them to the Lead      *)
(* Engineer pipeline, whose results come back later and drive the breaker. *)
(*                                                                         *)
(* A LoopState that was replaced or deleted in the map lives on in the     *)
(* async function that was started with it, so every LoopState ever        *)
(* created is a member of Loops and current is the one the map holds.      *)
(* Steps are cut where the code awaits.                                    *)
(***************************************************************************)
EXTENDS Naturals, FiniteSets

CONSTANTS
  Loops,             \* LoopState objects; bounds the loops ever created
  Features,          \* features on the project's board
  Runs,              \* LeadEngineerService.process() calls; bounds those in flight
  Timers,            \* handles of cooldown timers; bounds those in use
  UserCalls,         \* startAutoLoopForProject() calls made by routes and tools
  CooldownCall,      \* the startAutoLoopForProject() call of the cooldown timer
  ManualFeatures,    \* features users also run, stop or edit by hand
  RetriedFeatures,   \* features whose executions are retried or outlive their lease
  MaxConcurrency,    \* config.maxConcurrency
  FailureThreshold,  \* FAILURE_THRESHOLD
  MainWorktree,      \* whether the loop is the main worktree's: branchName is null
  None

ASSUME AutoLoopAssumption ==
  /\ MaxConcurrency \in Nat \ {0}
  /\ FailureThreshold \in Nat \ {0}
  /\ MainWorktree \in BOOLEAN
  /\ None \notin Loops \cup Features \cup Timers
  /\ CooldownCall \notin UserCalls
  /\ IsFiniteSet(Features) /\ ManualFeatures \cup RetriedFeatures \subseteq Features

Callers == UserCalls \cup {CooldownCall}

VARIABLES
  current,    \* coordinator.loops.get(key)
  running,    \* LoopStates with isRunning
  paused,     \* LoopStates with isPaused
  failures,   \* failureTimestamps.length of each LoopState
  cooldown,   \* cooldownTimer of each LoopState
  starting,   \* startingFeatures of each LoopState
  pc,         \* where each runLoop() is suspended
  pick,       \* nextFeature of each runLoop()
  armed,      \* cooldown timers that have not fired and are not cleared
  call,       \* progress of each startAutoLoopForProject() call
  status,     \* board status of each feature
  leased,     \* features with a ConcurrencyManager lease
  registered, \* runningFeatures
  due,        \* features ExecutionService is to retry
  active,     \* LeadEngineerService.activeFeatures
  run,        \* the process() calls in flight
  tally,      \* the leases each runLoop() has counted for the check before a dispatch
  unseen      \* history: slots of features that have run, since they were dispatched,
              \* without a lease that the loop's checks count

ctlVars   == <<current, running, paused, failures, cooldown, armed, call>>
loopVars  == <<pc, pick, tally>>
slotVars  == <<starting, unseen>>
agentVars == <<leased, registered, due>>
boardVars == <<status, agentVars, active, run>>
vars == <<ctlVars, loopVars, slotVars, boardVars>>

Stages == {"intake", "plan", "exec", "stopped", "post", "retry"}
NoRun  == [stage |-> "free", loop |-> None, feature |-> None]
RunRec == [stage : Stages, loop : Loops, feature : Features] \cup {NoRun}
Status == {"backlog", "in_progress", "settled"}

TypeOK ==
  /\ current \in Loops \cup {None}
  /\ running \in SUBSET Loops
  /\ paused \in SUBSET Loops
  /\ failures \in [Loops -> 0..FailureThreshold]
  /\ cooldown \in [Loops -> Timers \cup {None}]
  /\ starting \in [Loops -> SUBSET Features]
  /\ pc \in [Loops -> {"unborn", "startup", "top", "loading", "chosen", "counted", "exited"}]
  /\ pick \in [Loops -> Features \cup {None}]
  /\ \A l \in Loops : pc[l] \in {"chosen", "counted"} => pick[l] # None
  /\ armed \in SUBSET Timers
  /\ call \in [Callers -> {"idle", "checking", "claimed"}]
  /\ status \in [Features -> Status]
  /\ leased \in SUBSET Features
  /\ registered \in SUBSET Features
  /\ due \in SUBSET Features
  /\ active \in SUBSET Features
  /\ run \in [Runs -> RunRec]
  /\ tally \in [Loops -> SUBSET Features]
  /\ unseen \in [Loops -> SUBSET Features]

Init ==
  /\ current = None
  /\ running = {}
  /\ paused = {}
  /\ failures = [l \in Loops |-> 0]
  /\ cooldown = [l \in Loops |-> None]
  /\ starting = [l \in Loops |-> {}]
  /\ pc = [l \in Loops |-> "unborn"]
  /\ pick = [l \in Loops |-> None]
  /\ armed = {}
  /\ call = [c \in Callers |-> "idle"]
  /\ status = [f \in Features |-> "backlog"]
  /\ leased = {}
  /\ registered = {}
  /\ due = {}
  /\ active = {}
  /\ run = [r \in Runs |-> NoRun]
  /\ tally = [l \in Loops |-> {}]
  /\ unseen = [l \in Loops |-> {}]

-----------------------------------------------------------------------------
(* AutoLoopCoordinator.  An abort() always comes with isRunning = false and *)
(* only shortens a sleep, so the AbortController has no variable.           *)

\* startingFeatures.delete
freeSlots(l, F) ==
  /\ starting' = [starting EXCEPT ![l] = @ \ F]
  /\ unseen' = [unseen EXCEPT ![l] = @ \ F]

\* pendingLoopStarts.has(key)
PendingStart == \E c \in Callers : call[c] = "claimed"

\* Faulty createLoop: reuses the LoopState of a loop that has exited.
createLoopAgain(l) ==
  /\ pc[l] \in {"unborn", "exited"}
  /\ current' = l
  /\ running' = running \cup {l}
  /\ pc' = [pc EXCEPT ![l] = "startup"]

\* A fresh LoopState under the key, with runFn fired.
createLoop(l) ==
  /\ pc[l] = "unborn"
  /\ current' = l
  /\ running' = running \cup {l}
  /\ pc' = [pc EXCEPT ![l] = "startup"]

\* startLoop: refused when the key's loop is running.
startLoop(l) == current \notin running /\ createLoop(l)

\* Faulty stopLoop: forgets to clear isRunning.
stopLoopWithoutFlag ==
  /\ current' = None
  /\ UNCHANGED <<running, cooldown, armed>>

\* stopLoop: the loop leaves the map and its last cooldown timer is cleared.
stopLoop ==
  /\ running' = running \ {current}
  /\ IF current = None THEN UNCHANGED <<cooldown, armed>>
     ELSE /\ armed' = armed \ {cooldown[current]}
          /\ cooldown' = [cooldown EXCEPT ![current] = None]
  /\ current' = None

\* pauseLoop, called when the loops in marked have isPaused set: a loop that
\* is already marked is left as it is.
pauseLoop(marked) ==
  /\ running' = IF current \in marked THEN running ELSE running \ {current}
  /\ paused' = marked \cup {current}

\* Faulty resetFailures: clears isPaused and keeps the timestamps.
resetPausedOnly == paused' = paused \ {current} /\ UNCHANGED failures

\* resetFailures
resetFailures ==
  /\ paused' = paused \ {current}
  /\ failures' = IF current = None THEN failures
                 ELSE [failures EXCEPT ![current] = 0]

-----------------------------------------------------------------------------
(* startAutoLoopForProject: an integrity check, a synchronous claim of the  *)
(* key, two awaits, then startLoop; the catch clause calls stopLoop.        *)

CallStart(c) ==
  /\ c \in UserCalls
  /\ call[c] = "idle"
  /\ call' = [call EXCEPT ![c] = "checking"]
  /\ UNCHANGED <<current, running, paused, failures, cooldown, armed,
                 loopVars, slotVars, boardVars>>

RefuseStart(c) ==
  /\ call[c] = "checking"
  /\ call' = [call EXCEPT ![c] = "idle"]
  /\ UNCHANGED <<current, running, paused, failures, cooldown, armed,
                 loopVars, slotVars, boardVars>>

ClaimStart(c) ==
  /\ call[c] = "checking"
  /\ current \notin running /\ ~PendingStart
  /\ call' = [call EXCEPT ![c] = "claimed"]
  /\ UNCHANGED <<current, running, paused, failures, cooldown, armed,
                 loopVars, slotVars, boardVars>>

FinishStart(c) ==
  /\ call[c] = "claimed"
  /\ call' = [call EXCEPT ![c] = "idle"]
  /\ \/ /\ \E l \in Loops : startLoop(l)
        /\ UNCHANGED <<cooldown, armed>>
     \/ /\ current \in running
        /\ stopLoop
        /\ UNCHANGED pc
  /\ UNCHANGED <<paused, failures, pick, tally, slotVars, boardVars>>

StopAutoLoop ==
  /\ current # None
  /\ stopLoop
  /\ UNCHANGED <<paused, failures, call, loopVars, slotVars, boardVars>>

\* coordinator.shutdown()
Shutdown ==
  /\ current # None
  /\ stopLoop
  /\ freeSlots(current, Features)
  /\ UNCHANGED <<paused, failures, call, loopVars, boardVars>>

-----------------------------------------------------------------------------
(* The circuit breaker.                                                     *)

\* signalShouldPauseForProject: isPaused is set before pauseLoop is called.
\* The new timer's handle replaces the old one, which is not cleared.
signalShouldPause ==
  IF current \in paused
    THEN UNCHANGED <<running, paused, cooldown, armed>>
    ELSE \E t \in Timers :
           /\ t \notin armed
           /\ \A l \in Loops : cooldown[l] # t
           /\ pauseLoop(paused \cup {current})
           /\ cooldown' = [cooldown EXCEPT ![current] = t]
           /\ armed' = armed \cup {t}

\* trackFailureAndCheckPauseForProject, with the pause it may signal.  How many
\* timestamps are still in the 60 s window is any number up to the recorded one.
trackFailure ==
  IF current = None
    THEN UNCHANGED <<running, paused, failures, cooldown, armed>>
    ELSE \/ /\ UNCHANGED failures               \* quota, rate limit, network
            /\ signalShouldPause
         \/ \E kept \in 0..failures[current] :
              IF kept + 1 >= FailureThreshold
                THEN /\ failures' = [failures EXCEPT ![current] = FailureThreshold]
                     /\ signalShouldPause
                ELSE /\ failures' = [failures EXCEPT ![current] = kept + 1]
                     /\ UNCHANGED <<running, paused, cooldown, armed>>

\* autoResumeAfterCooldown, up to its call of startAutoLoopForProject.
CooldownFires(t) ==
  /\ t \in armed
  /\ armed' = armed \ {t}
  /\ CASE current \notin paused ->
            UNCHANGED <<paused, failures, cooldown, call>>
       [] current \in paused /\ (current \in running \/ PendingStart) ->
            /\ cooldown' = [cooldown EXCEPT ![current] = None]
            /\ UNCHANGED <<paused, failures, call>>
       [] OTHER ->
            /\ call[CooldownCall] = "idle"
            /\ resetFailures
            /\ cooldown' = [cooldown EXCEPT ![current] = None]
            /\ call' = [call EXCEPT ![CooldownCall] = "checking"]
  /\ UNCHANGED <<current, running, loopVars, slotVars, boardVars>>

-----------------------------------------------------------------------------
(* FeatureScheduler.runLoop.  Sleeps only delay a step; a deferred          *)
(* iteration (heap, frozen pickup, full review queue, capacity) returns to  *)
(* the top of the loop.                                                     *)

\* Faulty Occupied: counts leases and forgets the starting features.
LeasedOnly(l) == Cardinality(tally[l])

\* The features that getRunningCountForWorktree() counts.  The loop of the main worktree
\* counts every lease of the project; the loop of another one those with its branch, and
\* executeFeature() acquires them without (nobody calls updateBranchName()).
countedLeases == IF MainWorktree THEN leased ELSE {}

\* totalOccupied: the leases as counted before the await, and the starting features that
\* do not run now.
Occupied(l) == Cardinality(tally[l]) + Cardinality(starting[l] \ registered)

\* The startup delay ends: on to the loop, or isRunning is cleared because the
\* heap is high.
StartupEnds(l) ==
  /\ pc[l] = "startup"
  /\ l \in running
  /\ \/ pc' = [pc EXCEPT ![l] = "top"] /\ UNCHANGED running
     \/ pc' = [pc EXCEPT ![l] = "exited"] /\ running' = running \ {l}
  /\ UNCHANGED <<current, paused, failures, cooldown, armed, call, pick, tally, slotVars, boardVars>>

\* Faulty LoopExits: isRunning is tested once, not at every iteration.
ExitsAtStartup(l) ==
  /\ pc[l] = "startup"
  /\ l \notin running
  /\ pc' = [pc EXCEPT ![l] = "exited"]
  /\ UNCHANGED <<ctlVars, pick, tally, slotVars, boardVars>>

\* The while condition is false.
LoopExits(l) ==
  /\ pc[l] \in {"startup", "top"}
  /\ l \notin running
  /\ pc' = [pc EXCEPT ![l] = "exited"]
  /\ UNCHANGED <<ctlVars, pick, tally, slotVars, boardVars>>

\* The while condition holds and the capacity check passes; loading the pending
\* features follows.  How many leases it had counted before its await is left open: the
\* check is made again before the dispatch.
Iterate(l) ==
  /\ pc[l] = "top"
  /\ l \in running
  /\ Cardinality(starting[l] \ registered) < MaxConcurrency
  /\ pc' = [pc EXCEPT ![l] = "loading"]
  /\ UNCHANGED <<ctlVars, pick, tally, slotVars, boardVars>>

\* nextFeature, among the pending features that are neither running nor starting.
Choose(l) ==
  /\ pc[l] = "loading"
  /\ \E f \in Features :
       /\ status[f] = "backlog"
       /\ f \notin registered \cup starting[l]
       /\ pick' = [pick EXCEPT ![l] = f]
  /\ pc' = [pc EXCEPT ![l] = "chosen"]
  /\ UNCHANGED <<ctlVars, tally, slotVars, boardVars>>

\* Faulty Defer: drops the feature without a continue.
DeferAndGoOn(l) ==
  /\ pc[l] = "chosen"
  /\ pick' = [pick EXCEPT ![l] = None]
  /\ UNCHANGED <<ctlVars, pc, tally, slotVars, boardVars>>

\* Nothing to pick, heap high, pickup frozen, review queue full, capacity gone or
\* an error: next iteration.
Defer(l) ==
  /\ pc[l] \in {"loading", "chosen", "counted"}
  /\ pc' = [pc EXCEPT ![l] = "top"]
  /\ pick' = [pick EXCEPT ![l] = None]
  /\ tally' = [tally EXCEPT ![l] = {}]
  /\ UNCHANGED <<ctlVars, slotVars, boardVars>>

\* The second capacity check counts the leases and awaits the number.
CountLeases(l) ==
  /\ pc[l] = "chosen"
  /\ pc' = [pc EXCEPT ![l] = "counted"]
  /\ tally' = [tally EXCEPT ![l] = countedLeases]
  /\ UNCHANGED <<ctlVars, pick, slotVars, boardVars>>

\* The rest of the check, startingFeatures.add, the starting timeout and runner.run.
\* Neither isRunning nor the feature is looked at again.
Dispatch(l) ==
  /\ pc[l] = "counted"
  /\ Occupied(l) < MaxConcurrency
  /\ starting' = [starting EXCEPT ![l] = @ \cup {pick[l]}]
  /\ unseen' = [unseen EXCEPT ![l] = @ \cup ({pick[l]} \cap (registered \ countedLeases))]
  /\ active' = active \cup {pick[l]}
  /\ \E r \in Runs :
       /\ run[r] = NoRun
       /\ run' = [run EXCEPT ![r] = [stage |-> "intake", loop |-> l, feature |-> pick[l]]]
  /\ pc' = [pc EXCEPT ![l] = "top"]
  /\ pick' = [pick EXCEPT ![l] = None]
  /\ tally' = [tally EXCEPT ![l] = {}]
  /\ UNCHANGED <<ctlVars, status, agentVars>>

\* The 5 minute starting timeout of a feature, which renews itself while the
\* pipeline or a worktree lock vouches for the feature: otherwise the slot of a
\* feature that is running, or that nothing works on, is freed.  The result
\* clears the first timeout but not a renewed one.
StartingTimeout(l, f) ==
  /\ f \in starting[l]
  /\ f \in registered \/ f \notin active
  /\ freeSlots(l, {f})
  /\ UNCHANGED <<ctlVars, loopVars, boardVars>>

-----------------------------------------------------------------------------
(* Leases and runningFeatures.  An execution ends in one step; FeatureExecution *)
(* takes its clean-up apart.                                                *)

\* executeFeature() of the service acquires the lease and registers the feature.  A loop
\* in the middle of its check does not count a lease that is younger than its tally.
Execute(f) ==
  /\ f \notin leased \cup registered
  /\ leased' = leased \cup {f}
  /\ registered' = registered \cup {f}
  /\ unseen' = [l \in Loops |->
       IF MainWorktree /\ (pc[l] = "counted" => f \in tally[l]) THEN unseen[l]
       ELSE unseen[l] \cup ({f} \cap starting[l])]

\* A running feature without a lease is seen by no loop.
RunsUnleased(f) == unseen' = [l \in Loops |-> unseen[l] \cup ({f} \cap starting[l])]

LoseLease(f) ==
  /\ leased' = leased \ {f}
  /\ IF f \in registered THEN RunsUnleased(f) ELSE UNCHANGED unseen

\* releaseStaleLeases() of the health sweep, or the late release of an execution that
\* stopFeature() had stopped; what holds the lease goes on.
ReleaseStaleLease(f) ==
  /\ f \in leased
  /\ LoseLease(f)
  /\ UNCHANGED <<ctlVars, loopVars, starting, status, registered, due, active, run>>

-----------------------------------------------------------------------------
(* A process() call: INTAKE marks the feature in_progress, EXECUTE runs the  *)
(* agent and may be entered again, and the REVIEW to DEPLOY states follow a  *)
(* successful execution.                                                    *)

\* Faulty freeSlot: the result keeps the slot.
keepSlot(r) == UNCHANGED slotVars

\* The slot on the LoopState the pipeline was started by.
freeSlot(r) == freeSlots(run[r].loop, {run[r].feature})
endRun(r)   == /\ run' = [run EXCEPT ![r] = NoRun]
               /\ active' = active \ {run[r].feature}
               /\ freeSlot(r)

Intake(r) ==
  /\ run[r].stage = "intake"
  /\ run' = [run EXCEPT ![r].stage = "plan"]
  /\ status' = [status EXCEPT ![run[r].feature] = "in_progress"]
  /\ UNCHANGED <<ctlVars, loopVars, slotVars, agentVars, active>>

AgentStarts(r) ==
  /\ run[r].stage = "plan"
  /\ Execute(run[r].feature)
  /\ run' = [run EXCEPT ![r].stage = "exec"]
  /\ status' = [status EXCEPT ![run[r].feature] = "in_progress"]
  /\ UNCHANGED <<ctlVars, loopVars, starting, due, active>>

\* EXECUTE goes on to REVIEW without an agent of its own: a retry it has waited for, or
\* somebody else, finished the work.
WorkIsDone(r) ==
  /\ run[r].stage = "plan" /\ status[run[r].feature] = "settled"
  /\ run' = [run EXCEPT ![r].stage = "post"]
  /\ UNCHANGED <<ctlVars, loopVars, slotVars, status, agentVars, active>>

\* executeFeature() tells the breaker of the key of the feature's own branch how
\* the agent ended, which is this loop's breaker when the branches are the same.
breakerHears(success) ==
  \/ UNCHANGED <<running, paused, failures, cooldown, armed>>
  \/ success /\ resetFailures /\ UNCHANGED <<running, cooldown, armed>>
  \/ ~success /\ trackFailure

\* How an execution can end: the work is done, it has failed, or it is to be retried and
\* neither the breaker nor the board hears of it.
Ends(f, done) ==
  \/ /\ done
     /\ status' = [status EXCEPT ![f] = "settled"]
     /\ breakerHears(TRUE)
     /\ UNCHANGED due
  \/ /\ ~done
     /\ \E s \in Status : status' = [status EXCEPT ![f] = s]
     /\ breakerHears(FALSE)
     /\ UNCHANGED due
  \/ /\ ~done /\ f \in RetriedFeatures
     /\ due' = due \cup {f}
     /\ UNCHANGED <<running, paused, failures, cooldown, armed, status>>

\* Success leaves the feature in review and REVIEW follows; a failed or stopped
\* agent leaves it in backlog, blocked or as it was, and EXECUTE is entered again.
AgentEnds(r) ==
  /\ run[r].stage = "exec"
  /\ leased' = leased \ {run[r].feature}
  /\ registered' = registered \ {run[r].feature}
  /\ \E done \in BOOLEAN :
       /\ Ends(run[r].feature, done)
       /\ run' = [run EXCEPT ![r].stage = IF done THEN "post" ELSE "plan"]
  /\ UNCHANGED <<current, call, loopVars, slotVars, active>>

\* The agent stopFeature() has aborted unwinds: it releases a lease of the feature,
\* whoever has it now, and leaves another's entry alone.
StoppedAgentEnds(r) ==
  /\ run[r].stage = "stopped"
  /\ run' = [run EXCEPT ![r].stage = "plan"]
  /\ status' = [status EXCEPT ![run[r].feature] = "backlog"]
  /\ LoseLease(run[r].feature)
  /\ UNCHANGED <<ctlVars, loopVars, starting, registered, due, active>>

\* Outcome completed: recordSuccessForProject resets the loop the key has now.
Completed(r) ==
  /\ \/ run[r].stage = "post"
     \/ run[r].stage = "intake" /\ status[run[r].feature] = "settled"
  /\ endRun(r)
  /\ resetFailures
  /\ UNCHANGED <<current, running, cooldown, armed, call, loopVars, status, agentVars>>

\* Outcome escalated: the ESCALATE state blocked the feature, or process()
\* rejected before INTAKE; the failure counts unless it is a cancellation.
Escalated(r) ==
  /\ run[r].stage \in {"intake", "plan", "post"}
  /\ endRun(r)
  /\ \/ status' = [status EXCEPT ![run[r].feature] = "settled"]
     \/ run[r].stage = "intake" /\ UNCHANGED status
  /\ trackFailure \/ UNCHANGED <<running, paused, failures, cooldown, armed>>
  /\ UNCHANGED <<current, call, loopVars, agentVars>>

\* Outcome blocked: the pipeline ended in another state; the execution gate
\* returns the feature to backlog.
Blocked(r) ==
  /\ run[r].stage \in {"plan", "post"}
  /\ endRun(r)
  /\ status' = IF run[r].stage = "post" THEN status
               ELSE [status EXCEPT ![run[r].feature] = "backlog"]
  /\ UNCHANGED <<ctlVars, loopVars, agentVars>>

\* Outcome needs_retry: process() rejected on a rate limit.  The slot is kept
\* until the retry delay is over.
NeedsRetry(r) ==
  /\ run[r].stage = "intake"
  /\ run' = [run EXCEPT ![r].stage = "retry"]
  /\ active' = active \ {run[r].feature}
  /\ UNCHANGED <<ctlVars, loopVars, slotVars, status, agentVars>>

RetryDelayEnds(r) ==
  /\ run[r].stage = "retry"
  /\ run' = [run EXCEPT ![r] = NoRun]
  /\ freeSlot(r)
  /\ UNCHANGED <<ctlVars, loopVars, status, agentVars, active>>

-----------------------------------------------------------------------------
(* What ExecutionService retries, and what users and the rest of the server  *)
(* do to the board.                                                         *)

\* The retry calls executeFeature() of ExecutionService, past the lease: refused when the
\* feature runs or is done, else it runs without one.
RetryFires(f) ==
  /\ f \in due
  /\ due' = due \ {f}
  /\ \/ /\ f \in registered \/ status[f] = "settled"
        /\ UNCHANGED <<registered, status, unseen>>
     \/ /\ f \notin registered
        /\ registered' = registered \cup {f}
        /\ status' = [status EXCEPT ![f] = "in_progress"]
        /\ RunsUnleased(f)
  /\ UNCHANGED <<ctlVars, loopVars, starting, leased, active, run>>

\* executeFeature() called by a route, outside the loop.
ManualStart(f) ==
  /\ Execute(f)
  /\ status' = [status EXCEPT ![f] = "in_progress"]
  /\ UNCHANGED <<ctlVars, loopVars, starting, due, active, run>>

\* An execution that no pipeline has started, by hand or as a retry, ends.
OtherEnds(f) ==
  /\ f \in registered
  /\ \A r \in Runs : run[r].stage = "exec" => run[r].feature # f
  /\ registered' = registered \ {f}
  /\ leased' = leased \ {f}
  /\ \E done \in BOOLEAN : Ends(f, done)
  /\ UNCHANGED <<current, call, loopVars, slotVars, active, run>>

\* stopFeature(): the slot is taken from the loop that is in the map.
StopFeature(f) ==
  /\ f \in registered
  /\ registered' = registered \ {f}
  /\ leased' = leased \ {f}
  /\ due' = due \ {f}
  /\ IF current = None THEN UNCHANGED slotVars ELSE freeSlots(current, {f})
  /\ status' = [status EXCEPT ![f] = "backlog"]
  /\ run' = [r \in Runs |-> IF run[r].stage = "exec" /\ run[r].feature = f
                             THEN [run[r] EXCEPT !.stage = "stopped"] ELSE run[r]]
  /\ UNCHANGED <<ctlVars, loopVars, active>>

\* A board edit, or reconcileFeatureStates() on a feature nothing runs.
Requeue(f) ==
  /\ f \notin leased \cup registered
  /\ status[f] # "backlog"
  /\ status' = [status EXCEPT ![f] = "backlog"]
  /\ UNCHANGED <<ctlVars, loopVars, slotVars, agentVars, active, run>>

-----------------------------------------------------------------------------
LoopStep(l) == \/ StartupEnds(l) \/ LoopExits(l) \/ Iterate(l) \/ Choose(l) \/ Defer(l)
               \/ CountLeases(l) \/ Dispatch(l)
Agent(r)    == AgentStarts(r) \/ WorkIsDone(r) \/ AgentEnds(r) \/ StoppedAgentEnds(r)
Result(r)   == Completed(r) \/ Escalated(r) \/ Blocked(r) \/ NeedsRetry(r)
Control     == StopAutoLoop \/ Shutdown
StartStep(c) == RefuseStart(c) \/ ClaimStart(c) \/ FinishStart(c)

Next ==
  \/ \E c \in Callers : CallStart(c) \/ StartStep(c)
  \/ Control
  \/ \E t \in Timers : CooldownFires(t)
  \/ \E l \in Loops : LoopStep(l)
  \/ \E l \in Loops, f \in Features : StartingTimeout(l, f)
  \/ \E r \in Runs : Intake(r) \/ Agent(r) \/ Result(r) \/ RetryDelayEnds(r)
  \/ \E f \in RetriedFeatures : ReleaseStaleLease(f) \/ RetryFires(f)
  \/ \E f \in RetriedFeatures \cup ManualFeatures : OtherEnds(f)
  \/ \E f \in ManualFeatures : ManualStart(f) \/ StopFeature(f) \/ Requeue(f)

Spec == Init /\ [][Next]_vars

\* Timers fire, async functions go on and a pipeline that keeps coming back to
\* a state where it can end does end (its retries are bounded); nobody has to
\* start, stop or edit anything.
Fairness ==
  /\ \A c \in Callers : WF_vars(StartStep(c))
  /\ \A t \in Timers : WF_vars(CooldownFires(t))
  /\ \A l \in Loops : WF_vars(LoopStep(l))
  /\ \A r \in Runs :
       /\ WF_vars(AgentEnds(r) \/ StoppedAgentEnds(r))
       /\ WF_vars(RetryDelayEnds(r))
       /\ SF_vars(Result(r))

FairSpec == Spec /\ Fairness

-----------------------------------------------------------------------------
(* Properties.                                                              *)

\* Every loop that runs is the one in the coordinator's map, so that stopping
\* the key stops it: no start, stop, timer or late result leaves a second loop
\* behind.
NoOrphanLoop == running \subseteq {current}

\* A loop has more than maxConcurrency features in hand, from dispatch to the pipeline's
\* result, only by features that ran without a lease it counts: however leases, entries and
\* results interleave with its checks, no other feature slips through them.
SeenSlotBound == \A l \in Loops : Cardinality(starting[l] \ unseen[l]) <= MaxConcurrency

\* A taken slot belongs to a pipeline still in flight (or in its retry delay):
\* no outcome, timeout or restart leaks a slot.
SlotsAccounted ==
  \A l \in Loops : \A f \in starting[l] :
    \E r \in Runs : run[r].loop = l /\ run[r].feature = f

\* A LoopState whose failures reached the threshold is paused, also when the
\* failures come from pipelines that an earlier loop of the key started.
TrippedLoopIsPaused ==
  \A l \in Loops : failures[l] >= FailureThreshold => l \in paused

\* Seen from outside, the loop of a key is a LoopControl.
Abstract == INSTANCE LoopControl WITH
  live  <- IF current \in running THEN current ELSE None,
  fresh <- {l \in Loops : pc[l] = "unborn"},
  slots <- starting,
  extra <- unseen
AbstractSpec == Abstract!Spec

\* A loop whose isRunning was cleared leaves its while loop, whatever it was
\* suspended on.
StoppedLoopExits ==
  \A l \in Loops : (pc[l] # "unborn" /\ l \notin running) ~> pc[l] = "exited"

\* A slot taken for a feature is given back, so no feature occupies a loop's
\* capacity for ever.
SlotsFreed ==
  \A l \in Loops, f \in Features : f \in starting[l] ~> f \notin starting[l]

\* How many of its steps a stopped loop is from its exit.
windingDown == [step \in {"startup", "top", "loading", "chosen", "counted", "exited"} |->
  CASE step = "exited" -> 0 [] step \in {"startup", "top"} -> 1
    [] step = "counted" -> 2 [] step = "chosen" -> 3 [] step = "loading" -> 4]

\* A loop that was stopped, paused or replaced never runs again and winds down: each of
\* its steps brings it nearer to its exit, so it dispatches one feature more at the most,
\* whatever is started or reported meanwhile.
StoppedLoopWindsDown ==
  [][\A l \in Loops : pc[l] # "unborn" /\ l \notin running =>
       /\ l \notin running' /\ pc'[l] # "unborn"
       /\ pc'[l] = pc[l] \/ windingDown[pc'[l]] < windingDown[pc[l]]
       /\ LoopStep(l) => windingDown[pc'[l]] < windingDown[pc[l]]]_vars

(* What comments and messages of the code say and the code does not do.     *)

\* "Auto Mode paused: ... Circuit breaker activated" (auto-mode-service.ts:588):
\* a loop with isPaused set starts no feature.
NoDispatchWhilePaused == [][\A l \in Loops : Dispatch(l) => l \notin paused]_vars

\* "maxConcurrency - Maximum concurrent features" (auto-mode-service.ts:727): a loop has
\* no more features in hand.
SlotBound == \A l \in Loops : Cardinality(starting[l]) <= MaxConcurrency
=============================================================================
