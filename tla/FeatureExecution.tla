------------------------- MODULE FeatureExecution -------------------------
(***************************************************************************)
(* Everything that may run an agent for one feature, and what keeps those  *)
(* runs apart: the counted lease of ConcurrencyManager, the runningFeatures *)
(* entry with its abort controller, and the retryTimers.  The calls are    *)
(* executeFeature() of the auto-mode service (with a lease), the retries   *)
(* ExecutionService schedules for itself (without one), resumeFeature()    *)
(* and followUpFeature(); stopFeature(), the board, the health sweep and   *)
(* restarts interfere, and the EXECUTE processor waits for one of the runs. *)
(* Lease, entry and timers are kept per feature, so one feature is enough. *)
(*                                                                         *)
(* "done" stands for done and verified, "blocked" for blocked and failed.  *)
(* An approved planSpec, a fresh agent-output.md, the interrupted mark, a  *)
(* failing worktree, a policy decision and the failureCount are choices of *)
(* the step that reads them.                                               *)
(***************************************************************************)
EXTENDS Naturals, FiniteSets

CONSTANTS
  Calls,         \* the calls that may be in flight at the same time
  Waiter,        \* the one of them the EXECUTE processor makes
  LoopRetries,   \* MAX_LOOP_RETRIES
  TurnRetries,   \* MAX_MAX_TURNS_RETRIES
  ErrorRetries,  \* maxTransientRetries
  MaxStops,      \* bound: stopFeature calls in flight that are told apart
  MaxLease,      \* bound: follow-ups acquire below this count
  Disturbances,  \* what meets the executions, of KnownDisturbances
  NoCall

KnownDisturbances == {"pipeline", "resume", "follow_up", "stop", "board", "restart"}

ASSUME ExecutionAssumption ==
  /\ IsFiniteSet(Calls) /\ NoCall \notin Calls /\ Waiter \in Calls
  /\ LoopRetries \in Nat /\ TurnRetries \in Nat /\ ErrorRetries \in Nat
  /\ MaxStops \in Nat /\ MaxLease \in Nat
  /\ Disturbances \subseteq KnownDisturbances

VARIABLES
  status,       \* the feature on the board
  lease,        \* leaseCount of the feature, 0 without a lease
  leaked,       \* history: acquisitions that nobody is left to release
  entry,        \* the call whose object runningFeatures holds
  calls,        \* the calls in flight
  due,          \* the timer or immediate a call has left behind
  handle,       \* the call whose timer retryTimers holds
  stops,        \* stopFeature calls that await their status update
  wait          \* waitForCompletion of the EXECUTE processor

slotVars  == <<lease, leaked>>
timerVars == <<due, handle>>
vars == <<status, slotVars, entry, calls, timerVars, stops, wait>>

Statuses == {"backlog", "in_progress", "interrupted", "waiting_approval",
             "review", "blocked", "done"}
Phases == {"idle", "loading", "preparing", "resuming", "agent", "failing", "cleanup",
           "unwinding", "checking", "following", "followed"}

Limit(failure) == CASE failure = "loop"      -> LoopRetries
                    [] failure = "turns"     -> TurnRetries
                    [] failure = "transient" -> ErrorRetries

\* frames: the lease acquisitions the call will release; cont: it has a continuationPrompt.
CallRec == [pc : Phases, retry : Nat, frames : Nat, aborted : BOOLEAN, cont : BOOLEAN]
DueRec  == [kind : {"none", "now", "timer", "backlog"}, retry : Nat]
NewCall(pc, retry, frames, cont) ==
  [pc |-> pc, retry |-> retry, frames |-> frames, aborted |-> FALSE, cont |-> cont]
IdleCall == NewCall("idle", 0, 0, FALSE)
NoTimer  == [kind |-> "none", retry |-> 0]

TypeOK ==
  /\ status \in Statuses
  /\ lease \in Nat
  /\ leaked \in Nat
  /\ entry \in Calls \cup {NoCall}
  /\ calls \in [Calls -> CallRec]
  /\ due \in [Calls -> DueRec]
  /\ handle \in Calls \cup {NoCall}
  /\ stops \in 0..MaxStops
  /\ wait \in {"none", "pending", "told", "settled"}

Init ==
  /\ status = "backlog"
  /\ lease = 0 /\ leaked = 0
  /\ entry = NoCall
  /\ calls = [c \in Calls |-> IdleCall]
  /\ due = [c \in Calls |-> NoTimer]
  /\ handle = NoCall
  /\ stops = 0
  /\ wait = "none"

-----------------------------------------------------------------------------
(* Leases, statuses and the events that carry them.                         *)

\* The name of a call is used again when nothing is left of it.
Free(c) == calls[c].pc = "idle" /\ due[c] = NoTimer /\ (c = Waiter => wait = "none")

\* Faulty Released: release() does not stop at zero.
ReleasedBelowZero(n, frames) == n - frames

\* ConcurrencyManager.release(), once for each acquisition of the call.
Released(n, frames) == IF n > frames THEN n - frames ELSE 0

\* The history variable never exceeds the count it explains.
LeaseBecomes(n, lost) ==
  /\ lease' = n
  /\ leaked' = IF lost < n THEN lost ELSE n

\* Faulty WaitHears: the verdict is not chained through executionSettled.
WaitReturnsAtOnce(w) == IF w \in {"pending", "settled"} THEN "none" ELSE w

\* Faulty CallEnds: the end of an execution that an event was heard of before settles nothing.
VerdictNotChained(w, c) == IF c = Waiter /\ w = "pending" THEN "settled" ELSE w

\* waitForCompletion() needs an event it knows and the end of the execution, in
\* either order (safeResolve chains the verdict through executionSettled).
WaitHears(w) == CASE w = "pending" -> "told"  [] w = "settled" -> "none" [] OTHER -> w
CallEnds(w, c) ==
  IF c # Waiter THEN w
  ELSE CASE w = "pending" -> "settled" [] w = "told" -> "none" [] OTHER -> w

\* A status FeatureLoader.update() writes is such an event when it is a new review or
\* done; updateFeatureStatus() reports every blocked and failed.
Heard(w, s) ==
  IF s = "blocked" \/ (s \in {"review", "done"} /\ s # status) THEN WaitHears(w) ELSE w

\* The listener on feature:status-changed stops a running feature that is done.
StopsDone(s) == s = "done" /\ status # "done" /\ entry # NoCall

Aborted(cs, c) == [cs EXCEPT ![c].aborted = TRUE]

\* Faulty Ending: an early return skips the release of the lease.
EndingSkipsRelease(c, pc) == [calls EXCEPT ![c] = NewCall(pc, 0, 0, FALSE)]

\* The call is over but for its finally clause, which looks at none of these fields.
Ending(c, pc) == [calls EXCEPT ![c].pc = pc, ![c].retry = 0, ![c].cont = FALSE,
                              ![c].aborted = FALSE]

\* A status is written while the calls become cs.
SetStatus(s, cs) ==
  /\ status' = s
  /\ IF StopsDone(s)
       THEN /\ calls' = Aborted(cs, entry)
            /\ stops' = IF stops < MaxStops THEN stops + 1 ELSE stops
       ELSE /\ calls' = cs
            /\ UNCHANGED stops

-----------------------------------------------------------------------------
(* executeFeature().                                                        *)

\* A refused call undoes its acquisition and changes nothing.
ExecuteFeature(c) ==
  /\ Free(c) /\ lease = 0 /\ entry = NoCall
  /\ LeaseBecomes(1, leaked)
  /\ entry' = c
  /\ calls' = [calls EXCEPT ![c] = NewCall("loading", 0, 1, FALSE)]
  /\ UNCHANGED <<status, timerVars, stops>>

\* A route, a supervisor or the resolution of a plan starts the feature.
Execute(c) == ExecuteFeature(c) /\ UNCHANGED wait

\* waitForCompletion() starts it, having subscribed to the events of the feature.
PipelineExecutes(c) ==
  /\ "pipeline" \in Disturbances /\ c = Waiter /\ wait = "none"
  /\ ExecuteFeature(c)
  /\ wait' = "pending"

\* A retry or a resume finds the feature registered by someone else.
RetryRefused(c) ==
  /\ due[c].kind \in {"now", "timer"} /\ entry # NoCall
  /\ due' = [due EXCEPT ![c] = NoTimer]
  /\ handle' = IF due[c].kind = "timer" THEN NoCall ELSE handle
  /\ UNCHANGED <<status, slotVars, entry, calls, stops, wait>>

\* Faulty RetryStarts: the timer leaves itself in retryTimers.
RetryKeepsHandle(c, d) ==
  /\ due[c].kind \in {"now", "timer"} /\ entry = NoCall
  /\ calls[d].pc = "idle" /\ (d = c \/ due[d] = NoTimer) /\ (d = Waiter => wait = "none")
  /\ due' = [due EXCEPT ![c] = NoTimer]
  /\ entry' = d
  /\ calls' = [calls EXCEPT ![d] = NewCall("loading", due[c].retry, 0, FALSE)]
  /\ UNCHANGED <<status, slotVars, handle, stops, wait>>

\* setTimeout and setImmediate call ExecutionService.executeFeature directly.
RetryStarts(c, d) ==
  /\ due[c].kind \in {"now", "timer"} /\ entry = NoCall
  /\ calls[d].pc = "idle" /\ (d = c \/ due[d] = NoTimer) /\ (d = Waiter => wait = "none")
  /\ due' = [due EXCEPT ![c] = NoTimer]
  /\ handle' = IF due[c].kind = "timer" THEN NoCall ELSE handle
  /\ entry' = d
  /\ calls' = [calls EXCEPT ![d] = NewCall("loading", due[c].retry, 0, FALSE)]
  /\ UNCHANGED <<status, slotVars, stops, wait>>

RefuseTerminal(c) ==
  /\ calls[c].pc = "loading" /\ status = "done"
  /\ entry' = NoCall
  /\ calls' = Ending(c, "unwinding")
  /\ UNCHANGED <<status, slotVars, timerVars, stops, wait>>

\* An approved plan: executeFeature calls itself with nothing but the continuation
\* prompt, and a new abort controller.
ContinuePlan(c) ==
  /\ calls[c].pc = "loading" /\ status # "done" /\ ~calls[c].cont
  /\ entry' = c
  /\ calls' = [calls EXCEPT ![c] = NewCall("loading", 0, calls[c].frames, TRUE)]
  /\ UNCHANGED <<status, slotVars, timerVars, stops, wait>>

Load(c) ==
  /\ calls[c].pc = "loading" /\ status # "done"
  /\ calls' = [calls EXCEPT ![c].pc = "preparing"]
  /\ UNCHANGED <<status, slotVars, entry, timerVars, stops, wait>>

\* Faulty DelegateToResume: the entry is left to resumeFeature().
DelegateKeepsEntry(c) ==
  /\ calls[c].pc = "preparing" /\ ~calls[c].cont
  /\ calls' = [calls EXCEPT ![c].pc = "resuming", ![c].cont = TRUE, ![c].aborted = FALSE]
  /\ UNCHANGED <<status, slotVars, entry, timerVars, stops, wait>>

\* A fresh agent-output.md is resumed instead, unless a shutdown interrupted its run.
DelegateToResume(c) ==
  /\ calls[c].pc = "preparing" /\ ~calls[c].cont
  /\ entry' = NoCall
  /\ calls' = [calls EXCEPT ![c].pc = "resuming", ![c].cont = TRUE, ![c].aborted = FALSE]
  /\ UNCHANGED <<status, slotVars, timerVars, stops, wait>>

\* No worktree, no branch, or conflicts with the base branch.
PrepareFails(c) ==
  /\ calls[c].pc = "preparing"
  /\ SetStatus("blocked", Ending(c, "unwinding"))
  /\ wait' = Heard(wait, "blocked")
  /\ UNCHANGED <<slotVars, entry, timerVars>>

AuthorityDenies(c) ==
  /\ calls[c].pc = "preparing"
  /\ entry' = NoCall
  /\ calls' = Ending(c, "cleanup")
  /\ UNCHANGED <<status, slotVars, timerVars, stops, wait>>

StartAgent(c) ==
  /\ calls[c].pc = "preparing"
  /\ SetStatus("in_progress", [calls EXCEPT ![c].pc = "agent"])
  /\ UNCHANGED <<slotVars, entry, timerVars, wait>>

\* Reviews without a PR, recovered work, merges, verifications and conflicts.
AgentSucceeds(c) ==
  /\ calls[c].pc = "agent" /\ ~calls[c].aborted
  /\ \E s \in {"review", "waiting_approval", "done", "blocked"} :
       /\ SetStatus(s, Ending(c, "cleanup"))
       /\ wait' = Heard(wait, s)
  /\ UNCHANGED <<slotVars, entry, timerVars>>

AgentFails(c) ==
  /\ calls[c].pc = "agent" /\ ~calls[c].aborted
  /\ calls' = [calls EXCEPT ![c].pc = "failing"]
  /\ UNCHANGED <<status, slotVars, entry, timerVars, stops, wait>>

AgentAborts(c) ==
  /\ calls[c].pc = "agent" /\ calls[c].aborted
  /\ SetStatus("backlog", Ending(c, "cleanup"))
  /\ UNCHANGED <<slotVars, entry, timerVars, wait>>

\* A looping agent, spent turns and a retryable error: the entry is removed and the
\* retry left to a timer, which stopFeature can find, or to setImmediate.
ScheduleRetry(c) ==
  /\ calls[c].pc = "failing"
  /\ entry' = NoCall
  /\ \E failure \in {"loop", "turns", "transient"} :
       /\ calls[c].retry < Limit(failure)
       /\ due' = [due EXCEPT ![c] =
            [kind |-> IF failure = "transient" THEN "now" ELSE "timer",
             retry |-> calls[c].retry + 1]]
       /\ handle' = IF failure = "transient" THEN handle ELSE c
  /\ calls' = Ending(c, "cleanup")
  /\ UNCHANGED <<status, slotVars, stops, wait>>

\* The last loop, the last turns and the third git failure leave it to a person.
GiveUp(c) ==
  /\ calls[c].pc = "failing"
  /\ SetStatus("blocked", Ending(c, "cleanup"))
  /\ wait' = Heard(wait, "blocked")
  /\ UNCHANGED <<slotVars, entry, timerVars>>

\* An earlier git failure.
BackOff(c) ==
  /\ calls[c].pc = "failing"
  /\ due' = [due EXCEPT ![c] = [kind |-> "backlog", retry |-> 0]]
  /\ handle' = c
  /\ calls' = Ending(c, "cleanup")
  /\ UNCHANGED <<status, slotVars, entry, stops, wait>>

\* Any other error, a retryable one that was retried too often included.
ReturnToBacklog(c) ==
  /\ calls[c].pc = "failing"
  /\ SetStatus("backlog", Ending(c, "cleanup"))
  /\ UNCHANGED <<slotVars, entry, timerVars, wait>>

\* PostExecutionMiddleware: work an agent left behind goes to review, the entry is
\* removed when it is still the call's own, and executeFeature releases its lease.
Cleanup(c) ==
  /\ calls[c].pc \in {"cleanup", "unwinding"}
  /\ \E s \in {status} \cup IF calls[c].pc = "cleanup" THEN {"review"} ELSE {} :
       /\ status' = s
       /\ wait' = CallEnds(IF s # status THEN Heard(wait, s) ELSE wait, c)
  /\ entry' = IF entry = c THEN NoCall ELSE entry
  /\ calls' = [calls EXCEPT ![c] = IdleCall]
  /\ LeaseBecomes(Released(lease, calls[c].frames), leaked)
  /\ UNCHANGED <<timerVars, stops>>

\* resumeFeature() goes on with the context through executeFeature() of the service,
\* which wants a lease: the lease of the call that delegated is in its way.
ResumeRefused(c) ==
  /\ calls[c].pc = "resuming"
  /\ \/ status = "done" /\ wait' = CallEnds(wait, c)
     \/ /\ status # "done" /\ (lease > 0 \/ entry # NoCall)
        /\ wait' = CallEnds(IF c = Waiter THEN WaitHears(wait) ELSE wait, c)
  /\ calls' = [calls EXCEPT ![c] = IdleCall]
  /\ LeaseBecomes(Released(lease, calls[c].frames), leaked)
  /\ UNCHANGED <<status, entry, timerVars, stops>>

ResumeContinues(c) ==
  /\ calls[c].pc = "resuming" /\ status # "done" /\ lease = 0 /\ entry = NoCall
  /\ LeaseBecomes(1, leaked)
  /\ entry' = c
  /\ calls' = [calls EXCEPT ![c].pc = "loading", ![c].retry = 0, ![c].frames = @ + 1]
  /\ UNCHANGED <<status, timerVars, stops, wait>>

\* resumeFeature() as a route or resumeInterruptedFeatures() calls it.
ResumeFeature(c) ==
  /\ "resume" \in Disturbances /\ Free(c) /\ entry = NoCall
  /\ \E cont \in BOOLEAN :
       calls' = [calls EXCEPT ![c] = NewCall("resuming", 0, 0, cont)]
  /\ UNCHANGED <<status, slotVars, entry, timerVars, stops, wait>>

-----------------------------------------------------------------------------
(* followUpFeature(): the check, the preparations, and a registration that  *)
(* looks neither at the result of acquire() nor at the entry it overwrites. *)

FollowUp(c) ==
  /\ "follow_up" \in Disturbances /\ Free(c) /\ entry = NoCall
  /\ calls' = [calls EXCEPT ![c] = NewCall("checking", 0, 0, FALSE)]
  /\ UNCHANGED <<status, slotVars, entry, timerVars, stops, wait>>

FollowUpBlocked(c) ==
  /\ calls[c].pc = "checking"
  /\ SetStatus("blocked", [calls EXCEPT ![c] = IdleCall])
  /\ wait' = Heard(wait, "blocked")
  /\ UNCHANGED <<slotVars, entry, timerVars>>

FollowUpStarts(c) ==
  /\ calls[c].pc = "checking" /\ lease < MaxLease
  /\ LeaseBecomes(lease + 1, leaked)
  /\ entry' = c
  /\ SetStatus("in_progress", [calls EXCEPT ![c] = NewCall("following", 0, 1, TRUE)])
  /\ UNCHANGED <<timerVars, wait>>

FollowUpSucceeds(c) ==
  /\ calls[c].pc = "following" /\ ~calls[c].aborted
  /\ \E s \in {"waiting_approval", "done"} :
       /\ SetStatus(s, [calls EXCEPT ![c].pc = "followed"])
       /\ wait' = Heard(wait, s)
  /\ UNCHANGED <<slotVars, entry, timerVars>>

\* A failing or aborted follow-up leaves the status alone.
FollowUpFails(c) ==
  /\ calls[c].pc = "following"
  /\ calls' = [calls EXCEPT ![c].pc = "followed"]
  /\ UNCHANGED <<status, slotVars, entry, timerVars, stops, wait>>

\* The git workflow may move the feature to review.  Entry and lease are given back
\* only when the entry is still the call's own.
FollowUpReturns(c) ==
  /\ calls[c].pc = "followed"
  /\ \E s \in {status, "review"} :
       /\ status' = s
       /\ wait' = IF s # status THEN Heard(wait, s) ELSE wait
  /\ IF entry = c
       THEN /\ LeaseBecomes(Released(lease, 1), leaked)
            /\ entry' = NoCall
       ELSE /\ LeaseBecomes(lease, leaked + 1)
            /\ UNCHANGED entry
  /\ calls' = [calls EXCEPT ![c] = IdleCall]
  /\ UNCHANGED <<timerVars, stops>>

-----------------------------------------------------------------------------
(* stopFeature(), timers, the health sweep, people and restarts.            *)

StopFeature ==
  /\ "stop" \in Disturbances /\ entry # NoCall /\ stops < MaxStops
  /\ calls' = Aborted(calls, entry)
  /\ stops' = stops + 1
  /\ UNCHANGED <<status, slotVars, entry, timerVars, wait>>

\* After the status is written stopFeature removes whatever entry there is now.
StopFinishes ==
  /\ stops > 0
  /\ stops' = stops - 1
  /\ status' = "backlog"
  /\ LeaseBecomes(Released(lease, 1), leaked)
  /\ entry' = NoCall
  /\ due' = [c \in Calls |-> IF c = handle THEN NoTimer ELSE due[c]]
  /\ handle' = NoCall
  /\ UNCHANGED <<calls, wait>>

\* A stopped loop and a tripped breaker clear the timers of the features that run, which
\* a feature that waits for its retry does not.
ClearRetryTimers ==
  /\ "stop" \in Disturbances /\ entry # NoCall /\ handle # NoCall
  /\ due' = [due EXCEPT ![handle] = NoTimer]
  /\ handle' = NoCall
  /\ UNCHANGED <<status, slotVars, entry, calls, stops, wait>>

\* The backoff timer of a git failure.
BackoffEnds(c) ==
  /\ due[c].kind = "backlog"
  /\ SetStatus("backlog", calls)
  /\ due' = [due EXCEPT ![c] = NoTimer]
  /\ handle' = NoCall
  /\ UNCHANGED <<slotVars, entry, wait>>

WaitTimesOut ==
  /\ wait \in {"pending", "settled"}
  /\ wait' = WaitHears(wait)
  /\ UNCHANGED <<status, slotVars, entry, calls, timerVars, stops>>

\* The audit resets a feature nobody runs; reconcileFeatureStates() does so at
\* startup and on request, for interrupted features too, when no lease is left.
RepairStale ==
  /\ entry = NoCall
  /\ status = "in_progress" \/ (status = "interrupted" /\ lease = 0)
  /\ status' = "backlog"
  /\ UNCHANGED <<slotVars, entry, calls, timerVars, stops, wait>>

\* releaseStaleLeases(): the age of a lease is not modelled.
ReleaseStaleLease ==
  /\ lease > 0
  /\ LeaseBecomes(0, leaked)
  /\ UNCHANGED <<status, entry, calls, timerVars, stops, wait>>

\* A person, or a webhook, finishes the feature or asks for it again.
BoardMoves ==
  /\ "board" \in Disturbances
  /\ \E s \in {"done", "backlog"} :
       /\ s # status /\ (s = "backlog" => status = "blocked")
       /\ SetStatus(s, calls)
       /\ wait' = Heard(wait, s)
  /\ UNCHANGED <<slotVars, entry, timerVars>>

\* The server stops, by a shutdown that marks what runs or by a crash, and starts.
Restart ==
  /\ "restart" \in Disturbances
  /\ \E graceful \in BOOLEAN :
       LET marks == graceful /\ entry # NoCall /\ status \notin {"done", "review"}
       IN /\ status' = IF marks THEN "interrupted" ELSE status
  /\ lease' = 0 /\ leaked' = 0 /\ entry' = NoCall
  /\ calls' = [c \in Calls |-> IdleCall]
  /\ due' = [c \in Calls |-> NoTimer] /\ handle' = NoCall
  /\ stops' = 0 /\ wait' = "none"

-----------------------------------------------------------------------------
Starts(c) == Execute(c) \/ PipelineExecutes(c) \/ ResumeFeature(c) \/ FollowUp(c)

Agent(c) == AgentSucceeds(c) \/ AgentFails(c) \/ AgentAborts(c)

CallGoesOn(c) ==
  \/ RefuseTerminal(c) \/ ContinuePlan(c) \/ Load(c) \/ DelegateToResume(c)
  \/ PrepareFails(c) \/ AuthorityDenies(c) \/ StartAgent(c) \/ Agent(c)
  \/ ScheduleRetry(c) \/ GiveUp(c) \/ BackOff(c) \/ ReturnToBacklog(c) \/ Cleanup(c)
  \/ ResumeRefused(c) \/ ResumeContinues(c)
  \/ FollowUpBlocked(c) \/ FollowUpStarts(c) \/ FollowUpSucceeds(c) \/ FollowUpFails(c)
  \/ FollowUpReturns(c)

TimerFires(c) ==
  RetryRefused(c) \/ BackoffEnds(c) \/ (\E d \in Calls : RetryStarts(c, d))

Next ==
  \/ \E c \in Calls : Starts(c) \/ CallGoesOn(c) \/ TimerFires(c)
  \/ StopFeature \/ StopFinishes \/ ClearRetryTimers \/ WaitTimesOut
  \/ RepairStale \/ ReleaseStaleLease \/ BoardMoves \/ Restart

Spec == Init /\ [][Next]_vars

\* Calls go on and agents end (turns are limited and an abort ends them), timers fire;
\* nobody has to start, stop, sweep or move anything.
Fairness ==
  /\ \A c \in Calls : WF_vars(CallGoesOn(c) \/ TimerFires(c))
  /\ WF_vars(StopFinishes)
  /\ WF_vars(WaitTimesOut)

FairSpec == Spec /\ Fairness

-----------------------------------------------------------------------------
(* Properties.                                                              *)

Registered == {"loading", "preparing", "agent", "failing", "cleanup", "unwinding",
               "following", "followed"}

\* runningFeatures never holds a call that has ended: every early return, refusal,
\* retry, stop and overlap leaves an entry that its own finally clause will remove.
EntryIsLive == entry # NoCall => calls[entry].pc \in Registered

\* A stop that cancels the retry timer cancels one that is still to fire.
HandleIsLive == handle # NoCall => due[handle].kind \in {"timer", "backlog"}

\* The tickets for the lease: one for each acquisition a call in flight will release.
Tickets == {t \in Calls \X (1..2) : t[2] <= calls[t[1]].frames}

\* A slot outlives the calls that acquired it only where a follow-up was overwritten.
LeaseExplained == lease <= Cardinality(Tickets) + leaked

\* waitForCompletion() returns, though many ends of a run emit no event it knows.
WaitEnds == wait # "none" ~> wait = "none"

\* waitForCompletion() returns after the run it waits for has released its lease, so
\* that the retry of the EXECUTE processor can acquire it.
WaitOutlastsRun == [][wait # "none" /\ wait' = "none" => calls'[Waiter].pc = "idle"]_vars

\* How much of its body a call has before it; one with a continuation prompt is past the
\* places where executeFeature() calls itself and where it hands over to resumeFeature().
place == [pc \in Phases |->
  CASE pc = "idle" -> 0
    [] pc \in {"cleanup", "unwinding", "followed"} -> 1
    [] pc \in {"failing", "following"} -> 2
    [] pc \in {"agent", "checking"} -> 3
    [] pc = "preparing" -> 4  [] pc = "loading" -> 5  [] pc = "resuming" -> 6]

toGo(call) ==
  place[call.pc] +
    IF call.pc \in {"preparing", "loading", "resuming"} /\ ~call.cont THEN 3 ELSE 0

\* executeFeature() and resumeFeature() call one another, and still no call goes round
\* between them: each of its steps brings it nearer to its end, and nothing that another
\* call, a timer, a stop or a restart does takes it back.
CallNearsItsEnd ==
  [][\A c \in Calls :
       /\ CallGoesOn(c) => toGo(calls'[c]) < toGo(calls[c])
       /\ calls[c].pc # "idle" => toGo(calls'[c]) <= toGo(calls[c])]_vars

(* What comments of the code say and the code does not do.                  *)

\* "Stop running agents when their feature reaches a terminal state"
\* (auto-mode-service.ts:309): the stop does not take the feature back out of it.
DoneIsKept == [][status = "done" /\ stops' < stops => status' = "done"]_vars
=============================================================================
