--------------------------- MODULE AutoLoopProofs ---------------------------
(***************************************************************************)
(* The proofs about the auto-mode loop, for any number of loops, features, *)
(* pipelines, timers and callers and any limits.                           *)
(***************************************************************************)
EXTENDS AutoLoop, FiniteSetTheorems, TLAPS

\* However an execution ends, the breaker, the board and the retries stay in their types.
LEMMA EndsTyped ==
  ASSUME TypeOK, NEW f \in Features, NEW done \in BOOLEAN, Ends(f, done)
  PROVE  /\ running' \in SUBSET Loops /\ paused' \in SUBSET Loops
         /\ failures' \in [Loops -> 0..FailureThreshold]
         /\ cooldown' \in [Loops -> Timers \cup {None}] /\ armed' \in SUBSET Timers
         /\ status' \in [Features -> Status] /\ due' \in SUBSET Features
BY AutoLoopAssumption
DEF TypeOK, Status, Ends, breakerHears, resetFailures, trackFailure, signalShouldPause, pauseLoop

\* Every behaviour of the loop stays in its state space: the breaker's count never
\* passes its threshold and a chosen loop always has a feature to dispatch.
THEOREM TypeCorrect == Spec => []TypeOK
<1>1. Init => TypeOK
  BY AutoLoopAssumption DEF Init, TypeOK, RunRec, NoRun, Status
<1>2. TypeOK /\ [Next]_vars => TypeOK'
  <2> SUFFICES ASSUME TypeOK, [Next]_vars PROVE TypeOK'
    OBVIOUS
  <2> USE AutoLoopAssumption
      DEF TypeOK, ctlVars, loopVars, slotVars, agentVars, boardVars, RunRec, NoRun, Stages,
          Status, Callers
  <2>1. ASSUME NEW c \in Callers, CallStart(c) PROVE TypeOK'
    BY <2>1 DEF CallStart
  <2>2. ASSUME NEW c \in Callers, RefuseStart(c) PROVE TypeOK'
    BY <2>2 DEF RefuseStart
  <2>3. ASSUME NEW c \in Callers, ClaimStart(c) PROVE TypeOK'
    BY <2>3 DEF ClaimStart
  <2>4. ASSUME NEW c \in Callers, FinishStart(c) PROVE TypeOK'
    BY <2>4 DEF FinishStart, startLoop, createLoop, stopLoop
  <2>5. ASSUME StopAutoLoop PROVE TypeOK'
    BY <2>5 DEF StopAutoLoop, stopLoop
  <2>6. ASSUME Shutdown PROVE TypeOK'
    BY <2>6 DEF Shutdown, stopLoop, freeSlots
  <2>7. ASSUME NEW t \in Timers, CooldownFires(t) PROVE TypeOK'
    BY <2>7 DEF CooldownFires, resetFailures
  <2>8. ASSUME NEW l \in Loops, StartupEnds(l) PROVE TypeOK'
    BY <2>8 DEF StartupEnds
  <2>9. ASSUME NEW l \in Loops, LoopExits(l) \/ Iterate(l) PROVE TypeOK'
    BY <2>9 DEF LoopExits, Iterate
  <2>10. ASSUME NEW l \in Loops, Choose(l) PROVE TypeOK'
    BY <2>10 DEF Choose
  <2>11. ASSUME NEW l \in Loops, Defer(l) PROVE TypeOK'
    BY <2>11 DEF Defer
  <2>12. ASSUME NEW l \in Loops, CountLeases(l) PROVE TypeOK'
    BY <2>12 DEF CountLeases, countedLeases
  <2>13. ASSUME NEW l \in Loops, Dispatch(l) PROVE TypeOK'
    BY <2>13 DEF Dispatch
  <2>14. ASSUME NEW l \in Loops, NEW f \in Features, StartingTimeout(l, f) PROVE TypeOK'
    BY <2>14 DEF StartingTimeout, freeSlots
  <2>15. ASSUME NEW r \in Runs, Intake(r) PROVE TypeOK'
    BY <2>15 DEF Intake
  <2>16. ASSUME NEW r \in Runs, AgentStarts(r) PROVE TypeOK'
    BY <2>16 DEF AgentStarts, Execute
  <2>17. ASSUME NEW r \in Runs, WorkIsDone(r) PROVE TypeOK'
    BY <2>17 DEF WorkIsDone
  <2>18. ASSUME NEW r \in Runs, AgentEnds(r) PROVE TypeOK'
    <3>1. run[r].loop \in Loops /\ run[r].feature \in Features
      BY <2>18 DEF AgentEnds
    <3>2. PICK done \in BOOLEAN : /\ Ends(run[r].feature, done)
                                 /\ run' = [run EXCEPT ![r].stage = IF done THEN "post" ELSE "plan"]
      BY <2>18 DEF AgentEnds
    <3>3. run' \in [Runs -> RunRec]
      BY <2>18, <3>1, <3>2 DEF AgentEnds
    <3> QED
      BY <2>18, <3>1, <3>2, <3>3, EndsTyped DEF AgentEnds
  <2>19. ASSUME NEW r \in Runs, StoppedAgentEnds(r) PROVE TypeOK'
    BY <2>19 DEF StoppedAgentEnds, LoseLease, RunsUnleased
  <2>20. ASSUME NEW r \in Runs, Completed(r) PROVE TypeOK'
    BY <2>20 DEF Completed, endRun, freeSlot, freeSlots, resetFailures
  <2>21. ASSUME NEW r \in Runs, Escalated(r) PROVE TypeOK'
    BY <2>21, SMTT(30) DEF Escalated, endRun, freeSlot, freeSlots, trackFailure,
                 signalShouldPause, pauseLoop
  <2>22. ASSUME NEW r \in Runs, Blocked(r) PROVE TypeOK'
    BY <2>22 DEF Blocked, endRun, freeSlot, freeSlots
  <2>23. ASSUME NEW r \in Runs, NeedsRetry(r) PROVE TypeOK'
    BY <2>23 DEF NeedsRetry
  <2>24. ASSUME NEW r \in Runs, RetryDelayEnds(r) PROVE TypeOK'
    BY <2>24 DEF RetryDelayEnds, freeSlot, freeSlots
  <2>25. ASSUME NEW f \in Features, ReleaseStaleLease(f) PROVE TypeOK'
    BY <2>25 DEF ReleaseStaleLease, LoseLease, RunsUnleased
  <2>26. ASSUME NEW f \in Features, RetryFires(f) PROVE TypeOK'
    BY <2>26 DEF RetryFires, RunsUnleased
  <2>27. ASSUME NEW f \in Features, OtherEnds(f) PROVE TypeOK'
    BY <2>27, EndsTyped DEF OtherEnds
  <2>28. ASSUME NEW f \in Features, ManualStart(f) PROVE TypeOK'
    <3>1. /\ leased' \in SUBSET Features /\ registered' \in SUBSET Features
          /\ status' \in [Features -> Status] /\ unseen' \in [Loops -> SUBSET Features]
      BY <2>28 DEF ManualStart, Execute
    <3> QED  BY <2>28, <3>1 DEF ManualStart
  <2>29. ASSUME NEW f \in Features, StopFeature(f) PROVE TypeOK'
    <3>1. starting' \in [Loops -> SUBSET Features] /\ unseen' \in [Loops -> SUBSET Features]
      <4>1. CASE current = None  BY <2>29, <4>1 DEF StopFeature
      <4>2. CASE current # None
        BY <2>29, <4>2 DEF StopFeature, freeSlots
      <4> QED  BY <4>1, <4>2
    <3>2. run' \in [Runs -> RunRec]
      BY <2>29 DEF StopFeature
    <3>3. /\ registered' \in SUBSET Features /\ leased' \in SUBSET Features
          /\ due' \in SUBSET Features /\ status' \in [Features -> Status]
      BY <2>29 DEF StopFeature
    <3> QED  BY <2>29, <3>1, <3>2, <3>3 DEF StopFeature
  <2>30. ASSUME NEW f \in Features, Requeue(f) PROVE TypeOK'
    BY <2>30 DEF Requeue
  <2>31. CASE UNCHANGED vars
    BY <2>31 DEF vars
  <2> QED
    BY <2>1, <2>2, <2>3, <2>4, <2>5, <2>6, <2>7, <2>8, <2>9, <2>10, <2>11, <2>12, <2>13, <2>14, <2>15, <2>16, <2>17,
       <2>18, <2>19, <2>20, <2>21, <2>22, <2>23, <2>24, <2>25, <2>26, <2>27, <2>28, <2>29, <2>30, <2>31
    DEF Next, StartStep, Control, LoopStep, Agent, Result
<1>3. QED
  BY <1>1, <1>2, PTL DEF Spec

-----------------------------------------------------------------------------
(* The invariants.  Each is inductive together with TypeOK; the actions that *)
(* can disturb it are taken one by one, the others leave its variables alone.*)

\* Actions that leave the coordinator's map and every isRunning as they are.
LEMMA KeepsLoop ==
  ASSUME TypeOK,
         \/ \E c \in Callers : CallStart(c) \/ RefuseStart(c) \/ ClaimStart(c)
         \/ \E t \in Timers : CooldownFires(t)
         \/ \E l \in Loops : LoopExits(l) \/ Iterate(l) \/ Choose(l) \/ Defer(l)
                               \/ CountLeases(l) \/ Dispatch(l)
         \/ \E l \in Loops, f \in Features : StartingTimeout(l, f)
         \/ \E r \in Runs : Intake(r) \/ AgentStarts(r) \/ WorkIsDone(r) \/ StoppedAgentEnds(r)
                              \/ Completed(r) \/ Blocked(r) \/ NeedsRetry(r) \/ RetryDelayEnds(r)
         \/ \E f \in Features : ReleaseStaleLease(f) \/ RetryFires(f) \/ ManualStart(f)
                                  \/ StopFeature(f) \/ Requeue(f)
  PROVE  UNCHANGED <<current, running>>
BY DEF ctlVars, CallStart, RefuseStart, ClaimStart, CooldownFires, LoopExits, Iterate, Choose,
       Defer, CountLeases, Dispatch, StartingTimeout, Intake, AgentStarts, WorkIsDone,
       StoppedAgentEnds, Completed, Blocked, NeedsRetry, RetryDelayEnds, ReleaseStaleLease,
       RetryFires, ManualStart, StopFeature, Requeue

\* No result ever stops a loop: pauseLoop is called on a loop that is already
\* marked.
LEMMA ResultKeepsLoop ==
  ASSUME \/ \E r \in Runs : Escalated(r) \/ AgentEnds(r)
         \/ \E f \in Features : OtherEnds(f)
  PROVE  UNCHANGED <<current, running>>
BY DEF Escalated, AgentEnds, OtherEnds, Ends, breakerHears, trackFailure, signalShouldPause,
       pauseLoop

\* No loop ever runs outside the coordinator's map.
THEOREM SingleLoop == Spec => []NoOrphanLoop
<1>1. Init => NoOrphanLoop
  BY DEF Init, NoOrphanLoop
<1>2. TypeOK /\ NoOrphanLoop /\ [Next]_vars => NoOrphanLoop'
  <2> SUFFICES ASSUME TypeOK, NoOrphanLoop, [Next]_vars PROVE NoOrphanLoop'
    OBVIOUS
  <2> USE DEF NoOrphanLoop
  <2>1. ASSUME NEW c \in Callers, FinishStart(c) PROVE NoOrphanLoop'
    BY <2>1 DEF FinishStart, startLoop, createLoop, stopLoop
  <2>2. CASE StopAutoLoop \/ Shutdown
    BY <2>2 DEF StopAutoLoop, Shutdown, stopLoop
  <2>3. ASSUME NEW l \in Loops, StartupEnds(l) PROVE NoOrphanLoop'
    BY <2>3 DEF StartupEnds
  <2>4. CASE UNCHANGED <<current, running>>
    BY <2>4
  <2> QED
    BY <2>1, <2>2, <2>3, <2>4, KeepsLoop, ResultKeepsLoop, AutoLoopAssumption
    DEF Next, StartStep, Control, LoopStep, Agent, Result, vars, ctlVars
<1>3. QED
  BY <1>1, <1>2, TypeCorrect, PTL DEF Spec

\* Slots, and those a loop has lost sight of, are freed together.
LEMMA Freed ==
  ASSUME TypeOK, NEW k \in Loops, NEW F, freeSlots(k, F), NEW l \in Loops
  PROVE  /\ starting'[l] \subseteq starting[l]
         /\ \A f \in starting'[l] : f \in unseen[l] => f \in unseen'[l]
         /\ unseen[l] \subseteq starting[l] => unseen'[l] \subseteq starting'[l]
BY DEF TypeOK, freeSlots

\* The result of a pipeline frees its slot.
LEMMA ResultFrees ==
  ASSUME TypeOK, NEW r \in Runs, Completed(r) \/ Escalated(r) \/ Blocked(r) \/ RetryDelayEnds(r)
  PROVE  /\ run[r].loop \in Loops /\ run[r].feature \in Features
         /\ freeSlots(run[r].loop, {run[r].feature})
         /\ run' = [run EXCEPT ![r] = NoRun]
         /\ UNCHANGED <<pc, tally, registered, leased, current, running>>
<1>1. run[r].loop \in Loops /\ run[r].feature \in Features
  BY DEF Completed, Escalated, Blocked, RetryDelayEnds, TypeOK, RunRec, NoRun
<1>2. UNCHANGED <<current, running>>
  BY KeepsLoop, ResultKeepsLoop
<1> QED
  BY <1>1, <1>2 DEF Completed, Escalated, Blocked, RetryDelayEnds, endRun, freeSlot, loopVars,
                    agentVars

\* Slots are only ever taken by Dispatch.
LEMMA SlotsShrink ==
  ASSUME TypeOK, [Next]_vars, NEW l \in Loops, ~Dispatch(l)
  PROVE  starting'[l] \subseteq starting[l]
<1> USE DEF ctlVars, loopVars, slotVars, boardVars
<1>1. ASSUME NEW c \in Callers, CallStart(c) \/ StartStep(c) PROVE UNCHANGED starting
  BY <1>1 DEF CallStart, StartStep, RefuseStart, ClaimStart, FinishStart
<1>2. CASE StopAutoLoop
  BY <1>2 DEF StopAutoLoop
<1>3. CASE Shutdown
  BY <1>3, Freed DEF Shutdown, TypeOK
<1>4. ASSUME NEW t \in Timers, CooldownFires(t) PROVE UNCHANGED starting
  BY <1>4 DEF CooldownFires
<1>5. ASSUME NEW k \in Loops, LoopStep(k), k # l PROVE starting'[l] = starting[l]
  BY <1>5 DEF LoopStep, StartupEnds, LoopExits, Iterate, Choose, Defer, CountLeases, Dispatch, TypeOK
<1>6. ASSUME LoopStep(l) PROVE UNCHANGED starting
  BY <1>6 DEF LoopStep, StartupEnds, LoopExits, Iterate, Choose, Defer, CountLeases
<1>7. ASSUME NEW k \in Loops, NEW f \in Features, StartingTimeout(k, f)
      PROVE  starting'[l] \subseteq starting[l]
  BY <1>7, Freed DEF StartingTimeout
<1>8. ASSUME NEW r \in Runs, Intake(r) \/ Agent(r) \/ NeedsRetry(r)
      PROVE  UNCHANGED starting
  BY <1>8 DEF Intake, Agent, AgentStarts, WorkIsDone, AgentEnds, StoppedAgentEnds, NeedsRetry
<1>9. ASSUME NEW r \in Runs, Completed(r) \/ Escalated(r) \/ Blocked(r) \/ RetryDelayEnds(r)
      PROVE  starting'[l] \subseteq starting[l]
  BY <1>9, ResultFrees, Freed
<1>10. ASSUME NEW f \in Features, ReleaseStaleLease(f) \/ RetryFires(f) \/ OtherEnds(f)
                                    \/ ManualStart(f) \/ Requeue(f)
       PROVE  UNCHANGED starting
  BY <1>10 DEF ReleaseStaleLease, RetryFires, OtherEnds, ManualStart, Requeue
<1>11. ASSUME NEW f \in Features, StopFeature(f)  PROVE starting'[l] \subseteq starting[l]
  BY <1>11, Freed DEF StopFeature, TypeOK
<1>12. CASE UNCHANGED vars
  BY <1>12 DEF vars
<1> QED
  BY <1>1, <1>2, <1>3, <1>4, <1>5, <1>6, <1>7, <1>8, <1>9, <1>10, <1>11, <1>12, AutoLoopAssumption
  DEF Next, Control, Result

\* What the checks of a loop can rely on: each slot whose feature runs is counted by its
\* lease, also by a check under way, unless the feature ran without such a lease before.
Counted ==
  \A l \in Loops :
    /\ unseen[l] \subseteq starting[l]
    /\ \A f \in starting[l] \cap registered : f \notin unseen[l] =>
         MainWorktree /\ f \in leased /\ (pc[l] = "counted" => f \in tally[l])

\* A step that registers nothing and takes no slot leaves every slot counted, when it
\* keeps the leases, or loses those of features that no longer run or are now unseen.
LEMMA StaysCounted ==
  ASSUME Counted,
         \A l \in Loops : /\ unseen'[l] \subseteq starting'[l] /\ starting'[l] \subseteq starting[l]
                          /\ \A f \in starting'[l] : f \in unseen[l] => f \in unseen'[l]
                          /\ \/ pc'[l] = pc[l] /\ tally'[l] = tally[l]
                             \/ pc'[l] # "counted",
         registered' \subseteq registered,
         \A f \in leased \ leased' :
           f \notin registered' \/ \A l \in Loops : f \in starting[l] => f \in unseen'[l]
  PROVE  Counted'
BY DEF Counted

\* The next steps each keep Counted.
LEMMA ExecuteCounted ==
  ASSUME TypeOK, Counted, NEW f \in Features, Execute(f), UNCHANGED <<pc, tally, starting>>
  PROVE  Counted'
BY DEF TypeOK, Counted, Execute

LEMMA LoseCounted ==
  ASSUME TypeOK, Counted, NEW f \in Features, LoseLease(f),
         UNCHANGED <<pc, tally, starting, registered>>
  PROVE  Counted'
BY DEF TypeOK, Counted, LoseLease, RunsUnleased

LEMMA FreeCounted ==
  ASSUME TypeOK, Counted, NEW k \in Loops, NEW F, freeSlots(k, F), UNCHANGED <<pc, tally>>,
         registered' \subseteq registered, leased \ leased' \subseteq registered \ registered'
  PROVE  Counted'
<1>1. \A l \in Loops : /\ unseen'[l] \subseteq starting'[l] /\ starting'[l] \subseteq starting[l]
                       /\ \A f \in starting'[l] : f \in unseen[l] => f \in unseen'[l]
  BY Freed DEF Counted
<1> QED
  BY <1>1, StaysCounted

LEMMA CountedKept == TypeOK /\ Counted /\ [Next]_vars => Counted'
<1> SUFFICES ASSUME TypeOK, Counted, [Next]_vars PROVE Counted'
  OBVIOUS
<1> USE DEF ctlVars, loopVars, slotVars, agentVars, boardVars
<1>1. CASE UNCHANGED <<pc, tally, slotVars, registered, leased>>
  BY <1>1 DEF Counted
<1>2. ASSUME NEW c \in Callers, CallStart(c) \/ StartStep(c)  PROVE Counted'
  <2>1. CASE FinishStart(c)
    <3>1. \A l \in Loops : pc'[l] = pc[l] \/ pc'[l] # "counted"
      BY <2>1 DEF FinishStart, startLoop, createLoop, TypeOK
    <3>2. UNCHANGED <<tally, starting, unseen, registered, leased>>
      BY <2>1 DEF FinishStart
    <3> QED  BY <3>1, <3>2 DEF Counted
  <2>2. CASE CallStart(c) \/ RefuseStart(c) \/ ClaimStart(c)
    BY <1>1, <2>2 DEF CallStart, RefuseStart, ClaimStart
  <2> QED  BY <1>2, <2>1, <2>2 DEF StartStep
<1>3. CASE Control
  <2>1. CASE StopAutoLoop  BY <1>1, <2>1 DEF StopAutoLoop
  <2>2. CASE Shutdown
    <3>1. current \in Loops  BY <2>2 DEF Shutdown, TypeOK
    <3> QED  BY <2>2, <3>1, FreeCounted DEF Shutdown
  <2> QED  BY <1>3, <2>1, <2>2 DEF Control
<1>4. ASSUME NEW t \in Timers, CooldownFires(t)  PROVE Counted'
  BY <1>1, <1>4 DEF CooldownFires
<1>5. ASSUME NEW l \in Loops, LoopStep(l)  PROVE Counted'
  <2>1. CASE Dispatch(l)
    BY <2>1 DEF Dispatch, Counted, countedLeases, TypeOK
  <2>2. CASE CountLeases(l)
    BY <2>2 DEF CountLeases, Counted, countedLeases, TypeOK
  <2>3. CASE StartupEnds(l) \/ LoopExits(l) \/ Iterate(l) \/ Choose(l) \/ Defer(l)
    <3>1. \A k \in Loops : \/ pc'[k] = pc[k] /\ tally'[k] = tally[k]
                           \/ pc'[k] # "counted"
      BY <2>3 DEF StartupEnds, LoopExits, Iterate, Choose, Defer, TypeOK
    <3>2. UNCHANGED <<starting, unseen, registered, leased>>
      BY <2>3 DEF StartupEnds, LoopExits, Iterate, Choose, Defer
    <3> QED  BY <3>1, <3>2 DEF Counted
  <2> QED  BY <1>5, <2>1, <2>2, <2>3 DEF LoopStep
<1>6. ASSUME NEW l \in Loops, NEW f \in Features, StartingTimeout(l, f)  PROVE Counted'
  BY <1>6, FreeCounted DEF StartingTimeout
<1>7. ASSUME NEW r \in Runs,
             Completed(r) \/ Escalated(r) \/ Blocked(r) \/ RetryDelayEnds(r)  PROVE Counted'
  BY <1>7, ResultFrees, FreeCounted
<1>8. ASSUME NEW r \in Runs, Intake(r) \/ WorkIsDone(r) \/ NeedsRetry(r)  PROVE Counted'
  BY <1>1, <1>8 DEF Intake, WorkIsDone, NeedsRetry
<1>9. ASSUME NEW r \in Runs, AgentStarts(r)  PROVE Counted'
  <2>1. run[r].feature \in Features  BY <1>9 DEF AgentStarts, TypeOK, RunRec, NoRun
  <2> QED  BY <1>9, <2>1, ExecuteCounted DEF AgentStarts
<1>10. ASSUME NEW r \in Runs, StoppedAgentEnds(r)  PROVE Counted'
  <2>1. run[r].feature \in Features  BY <1>10 DEF StoppedAgentEnds, TypeOK, RunRec, NoRun
  <2> QED  BY <1>10, <2>1, LoseCounted DEF StoppedAgentEnds
<1>11. ASSUME \/ \E r \in Runs : AgentEnds(r)
              \/ \E f \in Features : OtherEnds(f)
       PROVE  Counted'
  <2>1. PICK f : leased' = leased \ {f} /\ registered' = registered \ {f}
    BY <1>11 DEF AgentEnds, OtherEnds
  <2>2. UNCHANGED <<pc, tally, starting, unseen>>
    BY <1>11 DEF AgentEnds, OtherEnds
  <2> QED  BY <2>1, <2>2 DEF Counted
<1>12. ASSUME NEW f \in Features, RetryFires(f)  PROVE Counted'
  BY <1>12 DEF RetryFires, RunsUnleased, Counted, TypeOK
<1>13. ASSUME NEW f \in Features, ReleaseStaleLease(f) \/ ManualStart(f) \/ Requeue(f)  PROVE Counted'
  BY <1>1, <1>13, LoseCounted, ExecuteCounted DEF ReleaseStaleLease, ManualStart, Requeue
<1>14. ASSUME NEW f \in Features, StopFeature(f)  PROVE Counted'
  <2>1. CASE current = None
    BY <1>14, <2>1 DEF StopFeature, Counted
  <2>2. CASE current # None
    <3>1. current \in Loops /\ freeSlots(current, {f})
      BY <1>14, <2>2 DEF StopFeature, TypeOK
    <3> QED  BY <1>14, <3>1, FreeCounted DEF StopFeature
  <2> QED  BY <2>1, <2>2
<1>15. CASE UNCHANGED vars  BY <1>1, <1>15 DEF vars
<1> QED
  BY <1>2, <1>3, <1>4, <1>5, <1>6, <1>7, <1>8, <1>9, <1>10, <1>11, <1>12, <1>13, <1>14, <1>15,
     AutoLoopAssumption
  DEF Next, Agent, Result

THEOREM SlotsCounted == Spec => []Counted
<1>1. Init => Counted  BY DEF Init, Counted
<1> QED  BY <1>1, CountedKept, TypeCorrect, PTL DEF Spec

\* In the check before a dispatch every slot of the loop that is seen is counted.
LEMMA RoomToDispatch ==
  ASSUME TypeOK, Counted, NEW l \in Loops, Dispatch(l)
  PROVE  /\ IsFiniteSet(starting[l] \ unseen[l])
         /\ Cardinality(starting[l] \ unseen[l]) < MaxConcurrency
<1> DEFINE S == starting[l] \ registered
<1>1. starting[l] \ unseen[l] \subseteq tally[l] \cup S
  BY DEF Counted, Dispatch
<1>2. IsFiniteSet(tally[l]) /\ IsFiniteSet(S)
  BY AutoLoopAssumption, FS_Subset DEF TypeOK
<1>3. /\ IsFiniteSet(tally[l] \cup S)
      /\ Cardinality(tally[l] \cup S) =
           Cardinality(tally[l]) + Cardinality(S) - Cardinality(tally[l] \cap S)
  BY <1>2, FS_Union, Zenon
<1>4. IsFiniteSet(tally[l] \cap S)  BY <1>2, FS_Subset
<1>5. /\ IsFiniteSet(starting[l] \ unseen[l])
      /\ Cardinality(starting[l] \ unseen[l]) <= Cardinality(tally[l] \cup S)
  BY <1>1, <1>3, FS_Subset
<1>6. /\ Cardinality(tally[l]) \in Nat /\ Cardinality(S) \in Nat
      /\ Cardinality(tally[l] \cap S) \in Nat /\ Cardinality(tally[l] \cup S) \in Nat
      /\ Cardinality(starting[l] \ unseen[l]) \in Nat
  BY <1>2, <1>3, <1>4, <1>5, FS_CardinalityType
<1>7. Cardinality(tally[l]) + Cardinality(S) < MaxConcurrency
  BY DEF Dispatch, Occupied
<1> QED
  BY <1>3, <1>5, <1>6, <1>7, AutoLoopAssumption

\* A slot that a loop has lost sight of stays so until it is freed.
LEMMA SightLost ==
  ASSUME TypeOK, [Next]_vars, NEW l \in Loops
  PROVE  \A f \in starting'[l] : f \in unseen[l] => f \in unseen'[l]
<1> USE DEF ctlVars, loopVars, slotVars, agentVars, boardVars
<1>1. ASSUME NEW c \in Callers, CallStart(c) \/ StartStep(c) PROVE UNCHANGED unseen
  BY <1>1 DEF CallStart, StartStep, RefuseStart, ClaimStart, FinishStart
<1>2. CASE StopAutoLoop
  BY <1>2 DEF StopAutoLoop
<1>3. CASE Shutdown
  BY <1>3, Freed DEF Shutdown, TypeOK
<1>4. ASSUME NEW t \in Timers, CooldownFires(t) PROVE UNCHANGED unseen
  BY <1>4 DEF CooldownFires
<1>5. ASSUME NEW k \in Loops, LoopStep(k)  PROVE unseen[l] \subseteq unseen'[l]
  BY <1>5 DEF LoopStep, StartupEnds, LoopExits, Iterate, Choose, Defer, CountLeases, Dispatch, TypeOK
<1>6. ASSUME NEW k \in Loops, NEW f \in Features, StartingTimeout(k, f)
      PROVE  \A g \in starting'[l] : g \in unseen[l] => g \in unseen'[l]
  BY <1>6, Freed DEF StartingTimeout
<1>7. ASSUME NEW r \in Runs, Intake(r) \/ Agent(r) \/ NeedsRetry(r)
      PROVE  unseen[l] \subseteq unseen'[l]
  BY <1>7 DEF Intake, Agent, AgentStarts, WorkIsDone, AgentEnds, StoppedAgentEnds, NeedsRetry,
              Execute, LoseLease, RunsUnleased
<1>8. ASSUME NEW r \in Runs, Completed(r) \/ Escalated(r) \/ Blocked(r) \/ RetryDelayEnds(r)
      PROVE  \A g \in starting'[l] : g \in unseen[l] => g \in unseen'[l]
  BY <1>8, ResultFrees, Freed
<1>9. ASSUME NEW f \in Features, ReleaseStaleLease(f) \/ RetryFires(f) \/ OtherEnds(f)
                                   \/ ManualStart(f) \/ Requeue(f)
      PROVE  unseen[l] \subseteq unseen'[l]
  BY <1>9 DEF ReleaseStaleLease, RetryFires, OtherEnds, ManualStart, Requeue, Execute, LoseLease,
              RunsUnleased
<1>10. ASSUME NEW f \in Features, StopFeature(f)
       PROVE  \A g \in starting'[l] : g \in unseen[l] => g \in unseen'[l]
  BY <1>10, Freed DEF StopFeature, TypeOK
<1>11. CASE UNCHANGED vars
  BY <1>11 DEF vars
<1> QED
  BY <1>1, <1>2, <1>3, <1>4, <1>5, <1>6, <1>7, <1>8, <1>9, <1>10, <1>11, AutoLoopAssumption
  DEF Next, Control, Result

\* Only features that ran without a lease the loop counts can take a loop beyond
\* maxConcurrency.
THEOREM SlotsBounded == Spec => []SeenSlotBound
<1>1. Init => SeenSlotBound
  BY AutoLoopAssumption, FS_EmptySet DEF Init, SeenSlotBound
<1>2. TypeOK /\ Counted /\ SeenSlotBound /\ [Next]_vars => SeenSlotBound'
  <2> SUFFICES ASSUME TypeOK, Counted, SeenSlotBound, [Next]_vars, NEW l \in Loops
               PROVE  Cardinality(starting'[l] \ unseen'[l]) <= MaxConcurrency
    BY DEF SeenSlotBound
  <2> DEFINE seen == starting[l] \ unseen[l]
  <2>1. IsFiniteSet(seen) /\ Cardinality(seen) \in Nat
    BY AutoLoopAssumption, FS_Subset, FS_CardinalityType DEF TypeOK
  <2>2. CASE Dispatch(l)
    <3>1. Cardinality(seen) < MaxConcurrency
      BY <2>2, RoomToDispatch
    <3>2. IsFiniteSet(seen \cup {pick[l]}) /\ Cardinality(seen \cup {pick[l]}) <= Cardinality(seen) + 1
      <4>1. Cardinality(seen \cup {pick[l]}) =
              IF pick[l] \in seen THEN Cardinality(seen) ELSE Cardinality(seen) + 1
        BY <2>1, FS_AddElement, Zenon
      <4> QED  BY <2>1, <4>1, FS_AddElement
    <3>3. starting'[l] \ unseen'[l] \subseteq seen \cup {pick[l]}
      BY <2>2 DEF Dispatch, TypeOK
    <3>4. /\ Cardinality(starting'[l] \ unseen'[l]) <= Cardinality(seen \cup {pick[l]})
          /\ Cardinality(starting'[l] \ unseen'[l]) \in Nat
          /\ Cardinality(seen \cup {pick[l]}) \in Nat
      BY <3>2, <3>3, FS_Subset, FS_CardinalityType
    <3> QED
      BY <2>1, <3>1, <3>2, <3>4, AutoLoopAssumption
  <2>3. CASE ~Dispatch(l)
    <3>1. starting'[l] \ unseen'[l] \subseteq seen
      BY <2>3, SlotsShrink, SightLost
    <3>2. /\ Cardinality(starting'[l] \ unseen'[l]) <= Cardinality(seen)
          /\ Cardinality(starting'[l] \ unseen'[l]) \in Nat
      BY <2>1, <3>1, FS_Subset, FS_CardinalityType
    <3> QED
      BY <2>1, <3>2, AutoLoopAssumption DEF SeenSlotBound
  <2> QED
    BY <2>2, <2>3
<1> QED
  BY <1>1, <1>2, TypeCorrect, SlotsCounted, PTL DEF Spec

\* The process() call that holds a slot is still in flight after a step that
\* does not free the slot.
LEMMA RunsKept ==
  ASSUME TypeOK, [Next]_vars, NEW r \in Runs, NEW l \in Loops, NEW f \in Features,
         run[r].loop = l, run[r].feature = f, f \in starting'[l]
  PROVE  run'[r].loop = l /\ run'[r].feature = f
<1> USE DEF TypeOK, ctlVars, loopVars, slotVars, agentVars, boardVars, RunRec, NoRun
<1>1. run[r] # NoRun
  BY AutoLoopAssumption
<1>2. ASSUME NEW k \in Loops, LoopStep(k) PROVE run'[r] = run[r]
  BY <1>1, <1>2 DEF LoopStep, StartupEnds, LoopExits, Iterate, Choose, Defer, CountLeases, Dispatch
<1>3. ASSUME NEW q \in Runs, Intake(q) \/ Agent(q) \/ NeedsRetry(q)
      PROVE  run'[r].loop = l /\ run'[r].feature = f
  <2>1. \E stage \in Stages : run' = [run EXCEPT ![q].stage = stage]
    BY <1>3 DEF Intake, Agent, AgentStarts, WorkIsDone, AgentEnds, StoppedAgentEnds, NeedsRetry, Stages
  <2> QED
    BY <2>1
<1>4. ASSUME NEW q \in Runs, Completed(q) \/ Escalated(q) \/ Blocked(q) \/ RetryDelayEnds(q)
      PROVE  run'[r] = run[r]
  <2>1. freeSlots(run[q].loop, {run[q].feature}) /\ run' = [run EXCEPT ![q] = NoRun]
    BY <1>4, ResultFrees
  <2>2. q # r
    BY <2>1 DEF freeSlots
  <2> QED
    BY <2>1, <2>2
<1>5. ASSUME NEW g \in Features, ReleaseStaleLease(g) \/ RetryFires(g) \/ OtherEnds(g)
                                   \/ ManualStart(g) \/ Requeue(g)
      PROVE  run' = run
  BY <1>5 DEF ReleaseStaleLease, RetryFires, OtherEnds, ManualStart, Requeue
<1>6. ASSUME NEW g \in Features, StopFeature(g)
      PROVE  run'[r].loop = l /\ run'[r].feature = f
  <2>1. run'[r] = run[r] \/ run'[r] = [run[r] EXCEPT !.stage = "stopped"]
    BY <1>6 DEF StopFeature
  <2> QED  BY <1>1, <2>1
<1>7. ASSUME \/ \E c \in Callers : CallStart(c) \/ StartStep(c)
             \/ Control
             \/ \E t \in Timers : CooldownFires(t)
             \/ \E k \in Loops, g \in Features : StartingTimeout(k, g)
             \/ UNCHANGED vars
      PROVE  run' = run
  BY <1>7
  DEF vars, Control, StartStep, CallStart, RefuseStart, ClaimStart, FinishStart,
      StopAutoLoop, Shutdown, CooldownFires, StartingTimeout
<1> HIDE DEF TypeOK, ctlVars, loopVars, slotVars, agentVars, boardVars, RunRec, NoRun
<1>8. CASE run' = run
  BY <1>8
<1> QED
  BY <1>2, <1>3, <1>4, <1>5, <1>6, <1>7, <1>8, AutoLoopAssumption DEF Next, Result

\* No outcome, timeout, stop or restart leaks a slot.
THEOREM NoSlotLeak == Spec => []SlotsAccounted
<1>1. Init => SlotsAccounted
  BY DEF Init, SlotsAccounted
<1>2. TypeOK /\ SlotsAccounted /\ [Next]_vars => SlotsAccounted'
  <2> SUFFICES ASSUME TypeOK, SlotsAccounted, [Next]_vars,
                      NEW l \in Loops, NEW f \in starting'[l]
               PROVE  \E r \in Runs : run'[r].loop = l /\ run'[r].feature = f
    BY DEF SlotsAccounted
  <2>1. CASE f \in starting[l]
    <3>1. PICK r \in Runs : run[r].loop = l /\ run[r].feature = f
      BY <2>1 DEF SlotsAccounted
    <3>2. f \in Features
      BY <2>1 DEF TypeOK
    <3>3. QED
      BY <3>1, <3>2, RunsKept
  <2>2. CASE f \notin starting[l]
    <3>1. Dispatch(l)
      BY <2>2, SlotsShrink
    <3>2. f = pick[l]
      BY <2>2, <3>1 DEF Dispatch, TypeOK
    <3>3. PICK r \in Runs :
            run' = [run EXCEPT ![r] = [stage |-> "intake", loop |-> l, feature |-> pick[l]]]
      BY <3>1 DEF Dispatch
    <3>4. QED
      BY <3>2, <3>3 DEF TypeOK
  <2>3. QED
    BY <2>1, <2>2
<1>3. QED
  BY <1>1, <1>2, TypeCorrect, PTL DEF Spec

\* Failures that reach the threshold leave the loop paused until they are reset.
THEOREM TrippedIsPaused == Spec => []TrippedLoopIsPaused
<1>1. Init => TrippedLoopIsPaused
  BY AutoLoopAssumption DEF Init, TrippedLoopIsPaused
<1>2. TypeOK /\ TrippedLoopIsPaused /\ [Next]_vars => TrippedLoopIsPaused'
  <2> SUFFICES ASSUME TypeOK, TrippedLoopIsPaused, [Next]_vars PROVE TrippedLoopIsPaused'
    OBVIOUS
  <2> USE AutoLoopAssumption DEF TypeOK, TrippedLoopIsPaused
  <2>1. ASSUME resetFailures PROVE TrippedLoopIsPaused'
    BY <2>1 DEF resetFailures
  <2>2. ASSUME trackFailure PROVE TrippedLoopIsPaused'
    <3>1. CASE current = None
      BY <2>2, <3>1 DEF trackFailure
    <3>2. CASE current # None /\ signalShouldPause
      <4>1. paused' = paused \cup {current}
        BY <3>2 DEF signalShouldPause, pauseLoop
      <4>2. \A l \in Loops : l # current => failures'[l] = failures[l]
        BY <2>2, <3>2 DEF trackFailure
      <4>3. QED
        BY <4>1, <4>2
    <3>3. CASE current # None /\ ~signalShouldPause
      BY <2>2, <3>3 DEF trackFailure
    <3>4. QED
      BY <3>1, <3>2, <3>3
  <2>3. CASE UNCHANGED <<paused, failures>>
    BY <2>3
  <2>5. ASSUME NEW t \in Timers, CooldownFires(t) PROVE TrippedLoopIsPaused'
    BY <2>1, <2>3, <2>5 DEF CooldownFires
  <2>6. ASSUME NEW r \in Runs, Completed(r) \/ Escalated(r) PROVE TrippedLoopIsPaused'
    BY <2>1, <2>2, <2>3, <2>6 DEF Completed, Escalated
  <2>7. ASSUME NEW b \in BOOLEAN, breakerHears(b) PROVE TrippedLoopIsPaused'
    BY <2>1, <2>2, <2>3, <2>7 DEF breakerHears
  <2>8. ASSUME \/ \E r \in Runs : AgentEnds(r)
               \/ \E f \in Features : OtherEnds(f)
        PROVE  TrippedLoopIsPaused'
    BY <2>3, <2>7, <2>8 DEF AgentEnds, OtherEnds, Ends
  <2> HIDE DEF TypeOK, TrippedLoopIsPaused
  <2>9. ASSUME NEW r \in Runs, Intake(r) \/ AgentStarts(r) \/ WorkIsDone(r) \/ StoppedAgentEnds(r)
                                 \/ Blocked(r) \/ NeedsRetry(r) \/ RetryDelayEnds(r)
        PROVE  UNCHANGED <<paused, failures>>
    BY <2>9 DEF ctlVars, Intake, AgentStarts, WorkIsDone, StoppedAgentEnds, Blocked, NeedsRetry,
                RetryDelayEnds
  <2>10. ASSUME NEW l \in Loops, LoopStep(l)  PROVE UNCHANGED <<paused, failures>>
    BY <2>10 DEF ctlVars, LoopStep, StartupEnds, LoopExits, Iterate, Choose, Defer, CountLeases,
                 Dispatch
  <2>11. ASSUME NEW f \in Features, ReleaseStaleLease(f) \/ RetryFires(f) \/ ManualStart(f)
                                      \/ StopFeature(f) \/ Requeue(f)
         PROVE  UNCHANGED <<paused, failures>>
    BY <2>11 DEF ctlVars, ReleaseStaleLease, RetryFires, ManualStart, StopFeature, Requeue
  <2>12. CASE \/ \E c \in Callers : CallStart(c) \/ StartStep(c)
              \/ Control
              \/ \E l \in Loops, f \in Features : StartingTimeout(l, f)
              \/ UNCHANGED vars
    BY <2>3, <2>12 DEF vars, ctlVars, CallStart, StartStep, RefuseStart, ClaimStart, FinishStart,
                       Control, StopAutoLoop, Shutdown, StartingTimeout
  <2> QED
    BY <2>3, <2>5, <2>6, <2>8, <2>9, <2>10, <2>11, <2>12 DEF Next, Agent, Result
<1>3. QED
  BY <1>1, <1>2, TypeCorrect, PTL DEF Spec

-----------------------------------------------------------------------------
(* Refinement.  Every step of the loop is a step of LoopControl or a stutter.*)

\* LoopControl counts as this module does.
LEMMA SameCardinality == \A S : Abstract!Cardinality(S) = Cardinality(S)
BY Zenon DEF Abstract!Cardinality, Cardinality

\* A step that keeps isRunning and the map as they are, starts no loop and frees
\* slots of one loop is a Free step.
LEMMA FreeStep ==
  ASSUME UNCHANGED <<current, running, pc>>, NEW k \in Loops, NEW F \in SUBSET Features,
         freeSlots(k, F)
  PROVE  Abstract!Next
<1>1. Abstract!Free(k, F)
  BY DEF Abstract!Free, freeSlots
<1> QED
  BY <1>1 DEF Abstract!Next

\* A step that touches neither the map, isRunning nor a slot and starts no loop
\* is a stutter.
LEMMA StutterStep ==
  ASSUME UNCHANGED <<current, running, starting, unseen>>,
         \A l \in Loops : pc'[l] = "unborn" <=> pc[l] = "unborn"
  PROVE  UNCHANGED Abstract!vars
BY DEF Abstract!vars

\* A feature that comes to run without a lease that loops count is overlooked by them.
LEMMA OverlookStep ==
  ASSUME TypeOK, UNCHANGED <<current, running, pc, starting>>, NEW f \in Features,
         NEW L \in SUBSET Loops,
         unseen' = [l \in Loops |-> IF l \in L THEN unseen[l] \cup ({f} \cap starting[l])
                                               ELSE unseen[l]]
  PROVE  Abstract!Next
<1> DEFINE K == {l \in L : f \in starting[l]}
<1>1. unseen' = [l \in Loops |-> IF l \in K THEN unseen[l] \cup {f} ELSE unseen[l]]
  BY DEF TypeOK
<1>2. Abstract!Overlook(f, K)
  BY <1>1 DEF Abstract!Overlook
<1>3. K \in SUBSET Loops
  OBVIOUS
<1> QED
  BY <1>2, <1>3 DEF Abstract!Next

LEMMA ExecuteStep ==
  ASSUME TypeOK, UNCHANGED <<current, running, pc, starting>>, NEW f \in Features,
         Execute(f) \/ RunsUnleased(f)
  PROVE  Abstract!Next
<1>1. CASE Execute(f)
  <2> DEFINE L == {l \in Loops : ~(MainWorktree /\ (pc[l] = "counted" => f \in tally[l]))}
  <2>1. unseen' = [l \in Loops |-> IF l \in L THEN unseen[l] \cup ({f} \cap starting[l])
                                              ELSE unseen[l]]
    BY <1>1 DEF Execute
  <2>2. L \in SUBSET Loops
    OBVIOUS
  <2> HIDE DEF L
  <2> QED  BY <2>1, <2>2, OverlookStep
<1>2. CASE RunsUnleased(f)
  <2>1. unseen' = [l \in Loops |-> IF l \in Loops THEN unseen[l] \cup ({f} \cap starting[l])
                                                  ELSE unseen[l]]
    BY <1>2 DEF RunsUnleased
  <2> QED  BY <2>1, OverlookStep
<1> QED  BY <1>1, <1>2

\* The loop of a key is a LoopControl.
THEOREM LoopImplementsControl == Spec => AbstractSpec
<1>1. Init => Abstract!Init
  BY AutoLoopAssumption DEF Init, Abstract!Init
<1>2. TypeOK /\ NoOrphanLoop /\ Counted /\ [Next]_vars => [Abstract!Next]_(Abstract!vars)
  <2> SUFFICES ASSUME TypeOK, NoOrphanLoop, Counted, [Next]_vars
               PROVE  Abstract!Next \/ UNCHANGED Abstract!vars
    OBVIOUS
  <2> DEFINE Mapped == Abstract!Next \/ UNCHANGED Abstract!vars
  <2> USE AutoLoopAssumption DEF ctlVars, loopVars, slotVars, agentVars, boardVars
  <2>1. ASSUME NEW c \in Callers, FinishStart(c) PROVE Mapped
    <3>1. ASSUME NEW l \in Loops, startLoop(l) PROVE Abstract!Begin(l)
      BY <2>1, <3>1 DEF FinishStart, startLoop, createLoop, Abstract!Begin, TypeOK
    <3>2. CASE current \in running /\ stopLoop /\ UNCHANGED pc
      BY <2>1, <3>2 DEF FinishStart, stopLoop, Abstract!Next, Abstract!End, TypeOK, NoOrphanLoop
    <3> QED
      BY <2>1, <3>1, <3>2 DEF FinishStart, Abstract!Next
  <2>2. CASE StopAutoLoop \/ Shutdown
    <3>1. stopLoop /\ current # None /\ current \in Loops /\ UNCHANGED pc
      BY <2>2 DEF StopAutoLoop, Shutdown, TypeOK
    <3>2. \/ UNCHANGED <<starting, unseen>>
          \/ /\ starting' = [starting EXCEPT ![current] = {}]
             /\ unseen' = [unseen EXCEPT ![current] = {}]
      BY <2>2 DEF StopAutoLoop, Shutdown, freeSlots, TypeOK
    <3>3. CASE current \in running
      BY <3>1, <3>2, <3>3 DEF stopLoop, Abstract!Next, Abstract!End, NoOrphanLoop
    <3>4. CASE current \notin running
      <4>1. \E F \in SUBSET Features : Abstract!Free(current, F)
        <5>1. Abstract!Free(current, IF UNCHANGED <<starting, unseen>> THEN {} ELSE Features)
          BY <3>1, <3>2, <3>4 DEF stopLoop, Abstract!Free, NoOrphanLoop, TypeOK
        <5> QED  BY <5>1
      <4> QED
        BY <3>1, <4>1 DEF Abstract!Next
    <3> QED
      BY <3>3, <3>4
  <2>3. ASSUME NEW l \in Loops, StartupEnds(l) PROVE Mapped
    BY <2>3 DEF StartupEnds, Abstract!Next, Abstract!End, Abstract!vars, NoOrphanLoop, TypeOK
  <2>4. ASSUME NEW l \in Loops, Dispatch(l) PROVE Abstract!Take(l, pick[l]) /\ pick[l] \in Features
    <3>1. Cardinality(starting[l] \ unseen[l]) < MaxConcurrency
      BY <2>4, RoomToDispatch
    <3>2. unseen' \in {unseen, [unseen EXCEPT ![l] = @ \cup {pick[l]}]}
      <4>1. CASE pick[l] \in registered \ countedLeases
        BY <2>4, <4>1 DEF Dispatch
      <4>2. CASE pick[l] \notin registered \ countedLeases
        <5>1. unseen[l] \cup ({pick[l]} \cap (registered \ countedLeases)) = unseen[l]
          BY <4>2
        <5> QED  BY <2>4, <5>1 DEF Dispatch, TypeOK
      <4> QED  BY <4>1, <4>2
    <3>3. /\ pick[l] \in Features /\ pc[l] # "unborn"
          /\ UNCHANGED <<current, running>>
          /\ \A k \in Loops : pc'[k] = "unborn" <=> pc[k] = "unborn"
          /\ starting' = [starting EXCEPT ![l] = @ \cup {pick[l]}]
      BY <2>4 DEF Dispatch, TypeOK
    <3> QED
      BY <3>1, <3>2, <3>3, SameCardinality DEF Abstract!Take
  <2>5. ASSUME NEW l \in Loops, NEW f \in Features, StartingTimeout(l, f) PROVE Mapped
    BY <2>5, FreeStep DEF StartingTimeout
  <2>6. ASSUME NEW r \in Runs, Completed(r) \/ Escalated(r) \/ Blocked(r) \/ RetryDelayEnds(r)
        PROVE  Mapped
    <3>1. /\ run[r].loop \in Loops /\ {run[r].feature} \in SUBSET Features
          /\ freeSlots(run[r].loop, {run[r].feature})
          /\ UNCHANGED <<current, running, pc>>
      BY <2>6, ResultFrees
    <3> QED  BY <3>1, FreeStep
  <2>7. ASSUME NEW l \in Loops,
               LoopExits(l) \/ Iterate(l) \/ Choose(l) \/ Defer(l) \/ CountLeases(l)
        PROVE  Mapped
    BY <2>7, StutterStep DEF LoopExits, Iterate, Choose, Defer, CountLeases, TypeOK
  <2>8. CASE UNCHANGED <<current, running, starting, unseen, pc>>
    BY <2>8, StutterStep
  <2>9. CASE (\E r \in Runs : AgentEnds(r)) \/ \E f \in Features : OtherEnds(f)
    BY <2>8, <2>9, ResultKeepsLoop DEF AgentEnds, OtherEnds
  <2>10. ASSUME NEW r \in Runs, AgentStarts(r) \/ StoppedAgentEnds(r)  PROVE Mapped
    <3>1. run[r].feature \in Features
      BY <2>10 DEF AgentStarts, StoppedAgentEnds, TypeOK, RunRec, NoRun
    <3>2. UNCHANGED <<current, running, pc, starting>>
      BY <2>10 DEF AgentStarts, StoppedAgentEnds
    <3> QED
      BY <2>8, <2>10, <3>1, <3>2, ExecuteStep DEF AgentStarts, StoppedAgentEnds, LoseLease
  <2>11. ASSUME NEW f \in Features, ReleaseStaleLease(f) \/ RetryFires(f) \/ ManualStart(f)
         PROVE  Mapped
    <3>1. UNCHANGED <<current, running, pc, starting>>
      BY <2>11 DEF ReleaseStaleLease, RetryFires, ManualStart
    <3> QED
      BY <2>8, <2>11, <3>1, ExecuteStep DEF ReleaseStaleLease, RetryFires, ManualStart, LoseLease
  <2>12. ASSUME NEW f \in Features, StopFeature(f)  PROVE Mapped
    <3>1. CASE current = None  BY <2>8, <2>12, <3>1 DEF StopFeature
    <3>2. CASE current # None  BY <2>12, <3>2, FreeStep DEF StopFeature, TypeOK
    <3> QED  BY <3>1, <3>2
  <2>13. CASE \/ \E c \in Callers : CallStart(c) \/ RefuseStart(c) \/ ClaimStart(c)
              \/ \E t \in Timers : CooldownFires(t)
              \/ \E r \in Runs : Intake(r) \/ WorkIsDone(r) \/ NeedsRetry(r)
              \/ \E f \in Features : Requeue(f)
              \/ UNCHANGED vars
    BY <2>8, <2>13 DEF vars, CallStart, RefuseStart, ClaimStart, CooldownFires, Intake, WorkIsDone,
                       NeedsRetry, Requeue
  <2>14. \A l \in Loops : Dispatch(l) => Abstract!Next
    BY <2>4 DEF Abstract!Next
  <2> HIDE DEF Mapped
  <2>15. Mapped
    BY <2>1, <2>2, <2>3, <2>5, <2>6, <2>7, <2>9, <2>10, <2>11, <2>12, <2>13, <2>14
    DEF Next, Control, Agent, Result, StartStep, LoopStep, Mapped
  <2> QED  BY <2>15 DEF Mapped
<1>3. QED
  BY <1>1, <1>2, TypeCorrect, SingleLoop, SlotsCounted, PTL DEF Spec, AbstractSpec, Abstract!Spec

-----------------------------------------------------------------------------
(* Stopped loops.                                                           *)

\* The steps of a loop that does not run.
LEMMA WindsDown ==
  ASSUME TypeOK, NEW l \in Loops, LoopStep(l), l \notin running
  PROVE  /\ pc'[l] # "unborn" /\ pc[l] # "unborn"
         /\ windingDown[pc'[l]] < windingDown[pc[l]]
<1> USE DEF TypeOK, windingDown
<1>1. CASE LoopExits(l)  BY <1>1 DEF LoopExits
<1>2. CASE Choose(l)  BY <1>2 DEF Choose
<1>3. CASE Defer(l)  BY <1>3 DEF Defer
<1>4. CASE CountLeases(l)  BY <1>4 DEF CountLeases
<1>5. CASE Dispatch(l)  BY <1>5 DEF Dispatch
<1> QED  BY <1>1, <1>2, <1>3, <1>4, <1>5 DEF LoopStep, StartupEnds, Iterate

\* Whatever the others do, a loop that was started keeps its place and does not run again.
LEMMA NotRevived ==
  ASSUME TypeOK, [Next]_vars, NEW l \in Loops, pc[l] # "unborn", l \notin running, ~LoopStep(l)
  PROVE  l \notin running' /\ pc'[l] = pc[l]
<1> USE DEF ctlVars, loopVars, boardVars
<1>1. ASSUME NEW c \in Callers, CallStart(c) \/ StartStep(c)
      PROVE  l \notin running' /\ pc'[l] = pc[l]
  BY <1>1
  DEF CallStart, StartStep, RefuseStart, ClaimStart, FinishStart, startLoop, createLoop, stopLoop,
      TypeOK
<1>2. CASE Control
  BY <1>2 DEF Control, StopAutoLoop, Shutdown, stopLoop
<1>3. ASSUME NEW t \in Timers, CooldownFires(t)  PROVE l \notin running' /\ pc'[l] = pc[l]
  BY <1>3 DEF CooldownFires
<1>4. ASSUME NEW k \in Loops, LoopStep(k)  PROVE l \notin running' /\ pc'[l] = pc[l]
  BY <1>4 DEF LoopStep, StartupEnds, LoopExits, Iterate, Choose, Defer, CountLeases, Dispatch, TypeOK
<1>5. ASSUME NEW k \in Loops, NEW f \in Features, StartingTimeout(k, f)
      PROVE  l \notin running' /\ pc'[l] = pc[l]
  BY <1>5 DEF StartingTimeout
<1>6. ASSUME NEW r \in Runs, Intake(r) \/ Agent(r) \/ Result(r) \/ RetryDelayEnds(r)
      PROVE  l \notin running' /\ pc'[l] = pc[l]
  <2>1. UNCHANGED pc
    BY <1>6 DEF Intake, Agent, AgentStarts, WorkIsDone, AgentEnds, StoppedAgentEnds, Result,
                Completed, Escalated, Blocked, NeedsRetry, RetryDelayEnds
  <2>2. UNCHANGED running  BY <1>6, KeepsLoop, ResultKeepsLoop DEF Agent, Result
  <2> QED  BY <2>1, <2>2
<1>7. ASSUME NEW f \in Features, ReleaseStaleLease(f) \/ RetryFires(f) \/ OtherEnds(f)
                                   \/ ManualStart(f) \/ StopFeature(f) \/ Requeue(f)
      PROVE  l \notin running' /\ pc'[l] = pc[l]
  <2>1. UNCHANGED pc
    BY <1>7 DEF ReleaseStaleLease, RetryFires, OtherEnds, ManualStart, StopFeature, Requeue
  <2>2. UNCHANGED running  BY <1>7, KeepsLoop, ResultKeepsLoop
  <2> QED  BY <2>1, <2>2
<1>8. CASE UNCHANGED vars  BY <1>8 DEF vars
<1> QED  BY <1>1, <1>2, <1>3, <1>4, <1>5, <1>6, <1>7, <1>8, AutoLoopAssumption DEF Next

\* A loop that was stopped, paused or replaced winds down: it is never revived and comes
\* nearer to its exit with every step.
THEOREM StoppedWindsDown == Spec => StoppedLoopWindsDown
<1> DEFINE Way == \A l \in Loops : pc[l] # "unborn" /\ l \notin running =>
             /\ l \notin running' /\ pc'[l] # "unborn"
             /\ pc'[l] = pc[l] \/ windingDown[pc'[l]] < windingDown[pc[l]]
             /\ LoopStep(l) => windingDown[pc'[l]] < windingDown[pc[l]]
<1>1. TypeOK /\ [Next]_vars => Way
  <2> SUFFICES ASSUME TypeOK, [Next]_vars, NEW l \in Loops, pc[l] # "unborn", l \notin running
               PROVE  /\ l \notin running' /\ pc'[l] # "unborn"
                      /\ pc'[l] = pc[l] \/ windingDown[pc'[l]] < windingDown[pc[l]]
                      /\ LoopStep(l) => windingDown[pc'[l]] < windingDown[pc[l]]
    OBVIOUS
  <2>1. CASE LoopStep(l)
    <3>1. UNCHANGED running
      BY <2>1 DEF LoopStep, StartupEnds, LoopExits, Iterate, Choose, Defer, CountLeases,
                  Dispatch, ctlVars
    <3> QED  BY <2>1, <3>1, WindsDown
  <2>2. CASE ~LoopStep(l)  BY <2>2, NotRevived
  <2> QED  BY <2>1, <2>2
<1>2. Spec => [][Way]_vars  BY <1>1, TypeCorrect, PTL DEF Spec
<1> QED  BY <1>2 DEF StoppedLoopWindsDown
=============================================================================
