------------------------ MODULE PlanApprovalProofs ------------------------
(***************************************************************************)
(* Proofs about PlanApproval, for any number of executions and answers.    *)
(* They rest on plans being told apart: the plan of an agent that has not  *)
(* registered its promise is known to no answer, timer or map entry, so    *)
(* none of the calls still in flight can touch it.                         *)
(***************************************************************************)
EXTENDS PlanApproval, TLAPS

SpecInOrder == spec.plan <= written /\ (spec.status = "generated" => spec.plan # 0)

\* Nothing refers to a plan that is not written yet.
PlansInOrder ==
  /\ SpecInOrder /\ pending <= written
  /\ \A r \in Runs : runs[r].plan <= written
  /\ \A a \in Answers : answers[a].plan <= written
  /\ \A p \in timers : p <= written
  /\ \A p \in Plans : p > written => outcome[p] = "open"

Asking(r) == runs[r].pc \in {"generated", "waiting"}
Holds(a)  == answers[a].pc \in {"writing", "resolving"}

\* No two agents ask about the same plan.
OwnPlan ==
  /\ \A r \in Runs : Asking(r) => runs[r].plan # 0
  /\ \A r, s \in Runs : Asking(r) /\ Asking(s) /\ runs[r].plan = runs[s].plan => r = s

\* What has just been written has not been asked about.
FreshPlan ==
  \A r \in Runs : runs[r].pc = "generated" =>
    /\ runs[r].plan \notin timers
    /\ runs[r].plan # pending
    /\ outcome[runs[r].plan] = "open"
    /\ \A a \in Answers : Holds(a) => answers[a].plan # runs[r].plan

\* An approval on its way, or settled, is one a user gave for that plan.
ApprovalsMeant ==
  /\ \A a \in Answers : Holds(a) =>
       answers[a].plan # 0 /\ (answers[a].verdict = "approve" => answers[a].plan \in approved)
  /\ \A p \in Plans : outcome[p] = "approve" => p \in approved

\* The run that nobody has stopped is the registered one.
LiveIsRegistered ==
  \A r \in Runs : runs[r].pc # "idle" /\ ~runs[r].aborted => registered = r

IInv ==
  /\ TypeOK /\ LiveIsRegistered
  /\ PlansInOrder /\ OwnPlan /\ FreshPlan /\ PendingIsAwaited
  /\ ApprovalsMeant /\ ApprovedByUser

USE ApprovalAssumption

-----------------------------------------------------------------------------
\* A started run is well typed.
LEMMA StartsTyped ==
  ASSUME NEW r \in Runs, NEW p \in 0..MaxPlans, TypeOK, StartsWith(r, p)
  PROVE  /\ runs' \in [Runs -> RunRec] /\ registered' = r
         /\ runs'[r].pc \in {"planning", "implementing"}
         /\ runs'[r].plan = p /\ runs'[r].ask = FALSE
         /\ \A s \in Runs \ {r} : runs'[s] = runs[s]
<1> DEFINE e == [IdleRun EXCEPT !.pc = IF p = 0 THEN "planning" ELSE "implementing", !.plan = p]
<1>1. e \in RunRec /\ e.pc \in {"planning", "implementing"} /\ e.plan = p /\ e.ask = FALSE
  BY DEF RunRec, IdleRun
<1>2. runs' = [runs EXCEPT ![r] = e]  BY DEF StartsWith
<1> QED  BY <1>1, <1>2 DEF StartsWith, TypeOK

\* So are the runs one has left.
LEMMA LeavesTyped ==
  ASSUME NEW r \in Runs, TypeOK, Leaves(r)
  PROVE  /\ runs' \in [Runs -> RunRec] /\ registered' \in Runs \cup {NoRun}
         /\ runs'[r].pc = "idle" /\ runs'[r].plan = 0
         /\ \A s \in Runs \ {r} : runs'[s] = runs[s]
         /\ registered' = IF registered = r THEN NoRun ELSE registered
BY DEF Leaves, TypeOK, RunRec, IdleRun

\* A settled promise has an outcome.
LEMMA SettleTyped ==
  ASSUME NEW p \in Plans, NEW v \in Verdicts \cup {"timeout", "stopped"}, TypeOK
  PROVE  /\ Settle(p, v) \in [Plans -> Verdicts \cup {"open", "timeout", "stopped"}]
         /\ \A q \in Plans \ {p} : Settle(p, v)[q] = outcome[q]
         /\ Settle(p, v)[p] \in {outcome[p], v}
BY DEF Settle, TypeOK

\* The invariant holds before anything has started.
THEOREM InitInv == Init => IInv
BY DEF Init, IInv, TypeOK, LiveIsRegistered, PlansInOrder, SpecInOrder, OwnPlan, FreshPlan, PendingIsAwaited,
       ApprovalsMeant, ApprovedByUser, SpecRec, RunRec, AnswerRec, IdleRun, IdleAnswer, Asking,
       Holds, Verdicts, Plans

\* A run starts.
LEMMA StartInv ==
  ASSUME NEW r \in Runs, IInv, Start(r)  PROVE IInv'
<1> DEFINE p == IF spec.status = "approved" THEN spec.plan ELSE 0
<1>1. p \in 0..MaxPlans /\ p <= written  BY DEF IInv, TypeOK, SpecRec, PlansInOrder, SpecInOrder
<1>2. StartsWith(r, p)  BY DEF Start
<1>3. registered = NoRun /\ runs[r].pc = "idle"  BY DEF Start, StartsWith
<1> HIDE DEF p
<1>4. /\ runs' \in [Runs -> RunRec] /\ registered' = r
      /\ runs'[r].pc \in {"planning", "implementing"}
      /\ runs'[r].plan = p /\ runs'[r].ask = FALSE
      /\ \A s \in Runs \ {r} : runs'[s] = runs[s]
  BY <1>1, <1>2, StartsTyped DEF IInv
<1> QED
  BY <1>1, <1>3, <1>4
  DEF Start, IInv, TypeOK, LiveIsRegistered, PlansInOrder, SpecInOrder, OwnPlan, FreshPlan, PendingIsAwaited,
      ApprovalsMeant, ApprovedByUser, Asking, Holds

\* The new plan is above every other number in use.
LEMMA GenerateInv ==
  ASSUME NEW r \in Runs, IInv, Generate(r)  PROVE IInv'
<1> DEFINE e == [runs[r] EXCEPT !.pc = "generated", !.plan = written + 1, !.ask = TRUE]
<1>1. TypeOK /\ written + 1 \in Plans  BY DEF IInv, TypeOK, Generate, Plans
<1>2. /\ e \in RunRec /\ e.pc = "generated" /\ e.plan = written + 1
         /\ e.aborted = runs[r].aborted
  <2>1. PICK x \in RunRec : x = runs[r]  BY <1>1 DEF TypeOK
  <2>2. e = [x EXCEPT !.pc = "generated", !.plan = written + 1, !.ask = TRUE]  BY <2>1
  <2>3. written + 1 \in 0..MaxPlans  BY <1>1 DEF Plans
  <2> QED  BY <2>1, <2>2, <2>3 DEF RunRec
<1>3. runs' = [runs EXCEPT ![r] = e]  BY DEF Generate
<1> HIDE DEF e
<1>4. /\ runs' \in [Runs -> RunRec] /\ runs'[r] = e
      /\ \A s \in Runs \ {r} : runs'[s] = runs[s]
  BY <1>1, <1>2, <1>3 DEF TypeOK
<1>5. TypeOK'  BY <1>1, <1>4 DEF TypeOK, Generate, SpecRec, Plans
<1>6. runs[r].pc = "planning" /\ ~runs[r].aborted  BY DEF Generate
<1>7. spec'.plan = written + 1 /\ written' = written + 1 /\ written \in Nat
  BY <1>1 DEF Generate, TypeOK
<1>8. (PlansInOrder /\ LiveIsRegistered)'
  BY <1>1, <1>2, <1>4, <1>6, <1>7
  DEF Generate, IInv, TypeOK, PlansInOrder, SpecInOrder, LiveIsRegistered, RunRec, AnswerRec, Plans
<1>9. OwnPlan'
  <2>1. \A s \in Runs \ {r} : runs[s].plan # written + 1
    BY <1>1, <1>7 DEF IInv, TypeOK, PlansInOrder, SpecInOrder, RunRec
  <2> QED  BY <2>1, <1>2, <1>4, <1>7 DEF IInv, OwnPlan, Asking
<1>10. FreshPlan'
  <2>1. /\ written + 1 \notin timers /\ written + 1 # pending
        /\ outcome[written + 1] = "open"
        /\ \A a \in Answers : answers[a].plan # written + 1
    BY <1>1, <1>7 DEF IInv, TypeOK, PlansInOrder, SpecInOrder, AnswerRec, Plans
  <2> QED  BY <2>1, <1>2, <1>4 DEF Generate, IInv, FreshPlan, Holds
<1>11. (PendingIsAwaited /\ ApprovalsMeant /\ ApprovedByUser)'
  BY <1>2, <1>4, <1>6 DEF Generate, IInv, PendingIsAwaited, ApprovalsMeant, ApprovedByUser, Holds
<1> QED  BY <1>5, <1>8, <1>9, <1>10, <1>11 DEF IInv

\* The promise that enters the map is the run's own, and still open.
LEMMA RegisterInv ==
  ASSUME NEW r \in Runs, IInv, Register(r)  PROVE IInv'
<1> DEFINE e == [runs[r] EXCEPT !.pc = "waiting"]
<1>1. e \in RunRec /\ e.pc = "waiting" /\ e.plan = runs[r].plan /\ e.aborted = runs[r].aborted
  BY DEF IInv, TypeOK, RunRec
<1>2. runs' = [runs EXCEPT ![r] = e]  BY DEF Register
<1> HIDE DEF e
<1>3. /\ runs' \in [Runs -> RunRec] /\ runs'[r] = e
      /\ \A s \in Runs \ {r} : runs'[s] = runs[s]
  BY <1>1, <1>2 DEF IInv, TypeOK
<1>4. /\ runs[r].pc = "generated" /\ runs[r].plan \in Plans /\ runs[r].plan <= written
      /\ outcome[runs[r].plan] = "open"
  BY DEF Register, IInv, TypeOK, RunRec, Plans, OwnPlan, Asking, FreshPlan, PlansInOrder, SpecInOrder
<1>5. \A s \in Runs \ {r} : Asking(s) => runs[s].plan # runs[r].plan
  BY <1>4 DEF IInv, OwnPlan, Asking
<1>6. TypeOK'  BY <1>3, <1>4 DEF Register, IInv, TypeOK, Plans
<1>7. (LiveIsRegistered /\ PlansInOrder)'
  BY <1>1, <1>3, <1>4 DEF Register, IInv, LiveIsRegistered, PlansInOrder, SpecInOrder
<1>8. OwnPlan'  BY <1>1, <1>3, <1>4 DEF IInv, OwnPlan, Asking
<1>9. FreshPlan'  BY <1>1, <1>3, <1>5 DEF Register, IInv, FreshPlan, Holds, Asking
<1>10. PendingIsAwaited'  BY <1>1, <1>3, <1>4 DEF Register, IInv, PendingIsAwaited
<1>11. (ApprovalsMeant /\ ApprovedByUser)'
  BY <1>1, <1>3 DEF Register, IInv, ApprovalsMeant, ApprovedByUser, Holds
<1> QED  BY <1>6, <1>7, <1>8, <1>9, <1>10, <1>11 DEF IInv

\* A waiting run whose promise is settled is not the one the map entry stands for.
LEMMA SettledIsNotPending ==
  ASSUME NEW r \in Runs, IInv, runs[r].pc = "waiting", Verdict(r) # "open"
  PROVE  pending # 0 =>
           \E s \in Runs \ {r} : runs[s].pc = "waiting" /\ runs[s].plan = pending
BY DEF IInv, PendingIsAwaited, Verdict

\* A run hears a verdict that lets it go on.
LEMMA HeardInv ==
  ASSUME NEW r \in Runs, IInv, Implement(r) \/ Revise(r)  PROVE IInv'
<1> DEFINE e == [runs[r] EXCEPT !.pc = IF Verdict(r) = "approve" THEN "implementing"
                                                               ELSE "planning"]
<1>1. /\ runs[r].pc = "waiting" /\ Verdict(r) \in {"approve", "revise"}
      /\ runs' = [runs EXCEPT ![r] = e]
  BY DEF Implement, Revise
<1>2. /\ e \in RunRec /\ e.pc \in {"implementing", "planning"}
      /\ e.pc = "implementing" => Verdict(r) = "approve"
      /\ e.plan = runs[r].plan /\ e.aborted = runs[r].aborted
  BY <1>1 DEF IInv, TypeOK, RunRec
<1> HIDE DEF e
<1>3. /\ runs' \in [Runs -> RunRec] /\ runs'[r] = e
      /\ \A s \in Runs \ {r} : runs'[s] = runs[s]
  BY <1>1, <1>2 DEF IInv, TypeOK
<1>4. runs[r].plan \in Plans
  BY <1>1 DEF IInv, TypeOK, RunRec, Plans, OwnPlan, Asking
<1>5. /\ spec'.plan = spec.plan /\ spec' \in SpecRec /\ spec'.status # "generated"
      /\ UNCHANGED <<written, registered, pending, timers, outcome, answers, approved, stops>>
  BY DEF Implement, Revise, IInv, TypeOK, SpecRec
<1>6. (TypeOK /\ LiveIsRegistered /\ PlansInOrder)'
  BY <1>1, <1>2, <1>3, <1>5 DEF IInv, TypeOK, LiveIsRegistered, PlansInOrder, SpecInOrder
<1>7. (OwnPlan /\ FreshPlan)'  BY <1>2, <1>3, <1>5 DEF IInv, OwnPlan, FreshPlan, Asking, Holds
<1>8. PendingIsAwaited'
  BY <1>1, <1>3, <1>5, SettledIsNotPending DEF IInv, PendingIsAwaited
<1>9. (ApprovalsMeant /\ ApprovedByUser)'
  BY <1>2, <1>3, <1>4, <1>5 DEF IInv, ApprovalsMeant, ApprovedByUser, Holds, Verdict
<1> QED  BY <1>6, <1>7, <1>8, <1>9 DEF IInv

\* A run ends.
LEMMA LeaveInv ==
  ASSUME NEW r \in Runs, IInv, GiveUp(r) \/ End(r)  PROVE IInv'
<1>1. /\ Leaves(r)
      /\ UNCHANGED <<spec, written, pending, timers, outcome, answers, approved, stops>>
  BY DEF GiveUp, End
<1>2. /\ runs' \in [Runs -> RunRec] /\ registered' \in Runs \cup {NoRun}
      /\ runs'[r].pc = "idle" /\ runs'[r].plan = 0
      /\ \A s \in Runs \ {r} : runs'[s] = runs[s]
      /\ registered' = IF registered = r THEN NoRun ELSE registered
  BY <1>1, LeavesTyped DEF IInv
<1>3. pending # 0 =>
        \E s \in Runs \ {r} : runs[s].pc = "waiting" /\ runs[s].plan = pending
  BY SettledIsNotPending DEF GiveUp, End, IInv, PendingIsAwaited
<1>4. (TypeOK /\ LiveIsRegistered)'  BY <1>1, <1>2 DEF IInv, TypeOK, LiveIsRegistered
<1>5. PlansInOrder'  BY <1>1, <1>2 DEF IInv, TypeOK, PlansInOrder, SpecInOrder
<1>6. (OwnPlan /\ FreshPlan)'  BY <1>1, <1>2 DEF IInv, OwnPlan, FreshPlan, Asking, Holds
<1>7. PendingIsAwaited'  BY <1>1, <1>2, <1>3 DEF IInv, PendingIsAwaited
<1>8. (ApprovalsMeant /\ ApprovedByUser)'
  BY <1>1, <1>2 DEF IInv, ApprovalsMeant, ApprovedByUser, Holds
<1> QED  BY <1>4, <1>5, <1>6, <1>7, <1>8 DEF IInv

-----------------------------------------------------------------------------
(* Answers.                                                                 *)

\* What every step of an answer has to keep: it takes up the entry or nothing.
LEMMA AnswerStepsInv ==
  ASSUME NEW a \in Answers, IInv,
         NEW e \in AnswerRec, answers' = [answers EXCEPT ![a] = e],
         e.plan <= written, spec' \in SpecRec, SpecInOrder',
         e.pc \in {"writing", "resolving"} =>
           /\ e.plan # 0
           /\ e.plan = pending \/ (Holds(a) /\ e.plan = answers[a].plan)
           /\ e.verdict = "approve" => e.plan \in approved',
         approved \subseteq approved', approved' \subseteq Plans,
         UNCHANGED <<written, runs, registered, pending, timers, outcome, stops>>
  PROVE  IInv'
<1>1. /\ answers' \in [Answers -> AnswerRec] /\ answers'[a] = e
      /\ \A b \in Answers \ {a} : answers'[b] = answers[b]
  BY DEF IInv, TypeOK
<1>2. (TypeOK /\ LiveIsRegistered /\ PlansInOrder)'
  BY <1>1 DEF IInv, TypeOK, LiveIsRegistered, PlansInOrder, SpecInOrder
<1>3. (OwnPlan /\ PendingIsAwaited)'  BY DEF IInv, OwnPlan, PendingIsAwaited, Asking
<1>4. FreshPlan'  BY <1>1 DEF IInv, FreshPlan, Holds
<1>5. (ApprovalsMeant /\ ApprovedByUser)'
  BY <1>1 DEF IInv, ApprovalsMeant, ApprovedByUser, Holds
<1> QED  BY <1>2, <1>3, <1>4, <1>5 DEF IInv

\* An answer finds its promise.
LEMMA AnswerInv ==
  ASSUME NEW a \in Answers, IInv, Answer(a)  PROVE IInv'
<1>1. PICK v \in Verdicts :
        /\ answers' = [answers EXCEPT ![a] = [pc |-> "writing", verdict |-> v, plan |-> pending]]
        /\ approved' = IF v = "approve" THEN approved \cup {pending} ELSE approved
  BY DEF Answer
<1>2. /\ pending \in Plans /\ pending # 0 /\ pending <= written
      /\ approved \subseteq Plans /\ spec \in SpecRec /\ SpecInOrder
  BY DEF Answer, IInv, TypeOK, Plans, PlansInOrder
<1> DEFINE e == [pc |-> "writing", verdict |-> v, plan |-> pending]
<1>3. e \in AnswerRec /\ e.plan = pending /\ e.verdict = v  BY <1>2 DEF AnswerRec, Plans
<1>4. answers' = [answers EXCEPT ![a] = e]  BY <1>1
<1>5. /\ approved \subseteq approved' /\ approved' \subseteq Plans
      /\ e.verdict = "approve" => pending \in approved'
  BY <1>1, <1>2, <1>3
<1>6. UNCHANGED <<spec, written, runs, registered, pending, timers, outcome, stops>>
  BY DEF Answer
<1>7. SpecInOrder'  BY <1>2, <1>6 DEF SpecInOrder
<1> HIDE DEF e
<1> QED  BY <1>2, <1>3, <1>4, <1>5, <1>6, <1>7, AnswerStepsInv

\* Any other step of an answer leaves it with the plan it has, or with none.
LEMMA AnswerEndsInv ==
  ASSUME NEW a \in Answers, IInv, answers' = [answers EXCEPT ![a] = IdleAnswer],
         spec' \in SpecRec, SpecInOrder',
         UNCHANGED <<written, runs, registered, pending, timers, outcome, approved, stops>>
  PROVE  IInv'
<1>1. /\ IdleAnswer \in AnswerRec /\ IdleAnswer.plan = 0 /\ IdleAnswer.pc = "idle"
      /\ 0 <= written
  BY DEF IdleAnswer, AnswerRec, Verdicts, IInv, TypeOK
<1> QED  BY <1>1, AnswerStepsInv DEF IInv, TypeOK

\* An answer finds none.
LEMMA UnexpectedInv ==
  ASSUME NEW a \in Answers, IInv, AnswerUnexpected(a)  PROVE IInv'
<1>1. PICK v \in Verdicts :
        answers' = [answers EXCEPT ![a] = [pc |-> "loading", verdict |-> v, plan |-> 0]]
  BY DEF AnswerUnexpected
<1> DEFINE e == [pc |-> "loading", verdict |-> v, plan |-> 0]
<1>2. e \in AnswerRec /\ e.plan = 0 /\ e.pc = "loading" /\ 0 <= written
  BY DEF AnswerRec, IInv, TypeOK
<1>3. answers' = [answers EXCEPT ![a] = e]  BY <1>1
<1> HIDE DEF e
<1> QED  BY <1>2, <1>3, AnswerStepsInv DEF AnswerUnexpected, IInv, TypeOK, PlansInOrder, SpecInOrder

\* The feature is loaded for recovery.
LEMMA LoadInv ==
  ASSUME NEW a \in Answers, IInv, LoadForRecovery(a)  PROVE IInv'
<1>1. CASE spec.status # "generated"
  BY <1>1, AnswerEndsInv DEF LoadForRecovery, IInv, TypeOK, PlansInOrder, SpecInOrder
<1>2. CASE spec.status = "generated"
  <2> DEFINE e == [answers[a] EXCEPT !.pc = "recovering", !.plan = spec.plan]
  <2>1. e \in AnswerRec /\ e.plan = spec.plan /\ e.pc = "recovering" /\ spec.plan <= written
    BY DEF IInv, TypeOK, AnswerRec, SpecRec, PlansInOrder, SpecInOrder
  <2>2. answers' = [answers EXCEPT ![a] = e]  BY <1>2 DEF LoadForRecovery
  <2>3. UNCHANGED <<spec, written, runs, registered, pending, timers, outcome, stops>>
    BY DEF LoadForRecovery
  <2>4. approved \subseteq approved' /\ approved' \subseteq Plans
    BY <1>2 DEF LoadForRecovery, IInv, TypeOK, SpecRec, Plans, PlansInOrder, SpecInOrder
  <2>5. spec' \in SpecRec /\ SpecInOrder'
    BY <2>3 DEF IInv, TypeOK, PlansInOrder, SpecInOrder
  <2> HIDE DEF e
  <2> QED  BY <2>1, <2>2, <2>3, <2>4, <2>5, AnswerStepsInv
<1> QED  BY <1>1, <1>2

\* A lost approval is recovered.
LEMMA RecoverInv ==
  ASSUME NEW a \in Answers, IInv, Recover(a)  PROVE IInv'
<1>1. CASE answers[a].verdict = "approve"
  <2> DEFINE e == [answers[a] EXCEPT !.pc = "starting"]
  <2>1. /\ e \in AnswerRec /\ e.pc = "starting" /\ e.plan = answers[a].plan
        /\ e.plan \in 0..MaxPlans /\ e.plan <= written
    BY DEF IInv, TypeOK, AnswerRec, PlansInOrder, SpecInOrder
  <2>2. answers' = [answers EXCEPT ![a] = e]  BY <1>1 DEF Recover
  <2>3. spec' \in SpecRec /\ SpecInOrder'
    BY <1>1, <2>1 DEF Recover, SpecRec, SpecInOrder
  <2> HIDE DEF e
  <2> QED  BY <2>1, <2>2, <2>3, AnswerStepsInv DEF Recover, IInv, TypeOK
<1>2. CASE answers[a].verdict # "approve"
  <2>1. spec' \in SpecRec /\ SpecInOrder'
    BY <1>2 DEF Recover, IInv, TypeOK, SpecRec, PlansInOrder, SpecInOrder
  <2> QED  BY <1>2, <2>1, AnswerEndsInv DEF Recover
<1> QED  BY <1>1, <1>2

\* The run starts, or is refused, and the answer is over.
LEMMA StartRecoveredInv ==
  ASSUME NEW a \in Answers, IInv, StartRecovered(a)  PROVE IInv'
<1>1. /\ answers' \in [Answers -> AnswerRec] /\ answers'[a].pc = "idle" /\ answers'[a].plan = 0
      /\ \A b \in Answers \ {a} : answers'[b] = answers[b]
  BY DEF StartRecovered, IInv, TypeOK, AnswerRec, IdleAnswer, Verdicts
<1>2. UNCHANGED <<spec, written, pending, timers, outcome, approved, stops>>
  BY DEF StartRecovered
<1>3. CASE UNCHANGED <<runs, registered>>
  BY <1>3, AnswerEndsInv DEF StartRecovered, IInv, TypeOK, PlansInOrder, SpecInOrder
<1>4. ASSUME NEW r \in Runs, StartsWith(r, answers[a].plan)  PROVE IInv'
  <2>1. answers[a].plan \in 0..MaxPlans /\ answers[a].plan <= written
    BY DEF IInv, TypeOK, AnswerRec, PlansInOrder, SpecInOrder
  <2>2. registered = NoRun /\ runs[r].pc = "idle"  BY <1>4 DEF StartsWith
  <2>3. /\ runs' \in [Runs -> RunRec] /\ registered' = r
        /\ runs'[r].pc \in {"planning", "implementing"}
        /\ runs'[r].plan = answers[a].plan /\ runs'[r].ask = FALSE
        /\ \A s \in Runs \ {r} : runs'[s] = runs[s]
    BY <1>4, <2>1, StartsTyped DEF IInv
  <2>4. (TypeOK /\ LiveIsRegistered)'
    BY <1>1, <1>2, <2>2, <2>3 DEF IInv, TypeOK, LiveIsRegistered
  <2>5. PlansInOrder'  BY <1>1, <1>2, <2>1, <2>3 DEF IInv, TypeOK, PlansInOrder, SpecInOrder
  <2>6. (OwnPlan /\ FreshPlan)'
    BY <1>1, <1>2, <2>3 DEF IInv, OwnPlan, FreshPlan, Asking, Holds
  <2>7. PendingIsAwaited'  BY <1>2, <2>2, <2>3 DEF IInv, PendingIsAwaited
  <2>8. (ApprovalsMeant /\ ApprovedByUser)'
    BY <1>1, <1>2, <2>3 DEF IInv, ApprovalsMeant, ApprovedByUser, Holds
  <2> QED  BY <2>4, <2>5, <2>6, <2>7, <2>8 DEF IInv
<1> QED  BY <1>3, <1>4 DEF StartRecovered

\* The verdict is written to the plan.
LEMMA WriteInv ==
  ASSUME NEW a \in Answers, IInv, Write(a)  PROVE IInv'
<1> DEFINE e == [answers[a] EXCEPT !.pc = "resolving"]
<1>1. /\ e \in AnswerRec /\ e.pc = "resolving" /\ e.plan = answers[a].plan
      /\ e.verdict = answers[a].verdict /\ e.plan <= written
  BY DEF IInv, TypeOK, AnswerRec, PlansInOrder, SpecInOrder
<1>2. answers' = [answers EXCEPT ![a] = e] /\ Holds(a)  BY DEF Write, Holds
<1>3. spec' \in SpecRec /\ SpecInOrder'
  BY DEF Write, IInv, TypeOK, SpecRec, PlansInOrder, SpecInOrder
<1>4. e.plan # 0 /\ (e.verdict = "approve" => e.plan \in approved)
  BY <1>1, <1>2 DEF IInv, ApprovalsMeant
<1> HIDE DEF e
<1> QED  BY <1>1, <1>2, <1>3, <1>4, AnswerStepsInv DEF Write, IInv, TypeOK

\* A promise is settled and the map emptied: no fresh plan is concerned.
LEMMA SettleInv ==
  ASSUME NEW p \in Plans, NEW v \in Verdicts \cup {"timeout", "stopped"}, IInv,
         outcome' = Settle(p, v), pending' = 0, timers' \subseteq timers,
         p <= written, v = "approve" => p \in approved,
         \A r \in Runs : runs[r].pc = "generated" => runs[r].plan # p,
         UNCHANGED <<spec, written, runs, registered, approved>>,
         stops' \in 0..MaxStops,
         answers' \in [Answers -> AnswerRec],
         \A a \in Answers : answers'[a] \in {answers[a], IdleAnswer}
  PROVE  IInv'
<1>1. /\ outcome' \in [Plans -> Verdicts \cup {"open", "timeout", "stopped"}]
      /\ \A q \in Plans \ {p} : outcome'[q] = outcome[q]
      /\ outcome'[p] \in {outcome[p], v}
  BY SettleTyped DEF IInv
<1>2. IdleAnswer.plan = 0 /\ IdleAnswer.pc = "idle"  BY DEF IdleAnswer
<1>3. (TypeOK /\ LiveIsRegistered)'  BY <1>1 DEF IInv, TypeOK, LiveIsRegistered
<1>4. PlansInOrder'
  <2>1. \A a \in Answers : answers'[a].plan <= written
    BY <1>2 DEF IInv, TypeOK, PlansInOrder
  <2>2. \A q \in Plans : q > written => outcome'[q] = "open"
    BY <1>1 DEF IInv, TypeOK, PlansInOrder, Plans
  <2> QED  BY <2>1, <2>2 DEF IInv, TypeOK, PlansInOrder, SpecInOrder
<1>5. OwnPlan'  BY DEF IInv, OwnPlan, Asking
<1>6. FreshPlan'
  <2> SUFFICES ASSUME NEW r \in Runs, runs[r].pc = "generated"
               PROVE  /\ runs[r].plan \notin timers'
                      /\ runs[r].plan # 0
                      /\ outcome'[runs[r].plan] = "open"
                      /\ \A a \in Answers : Holds(a)' => answers'[a].plan # runs[r].plan
    BY DEF FreshPlan
  <2>1. runs[r].plan \in Plans \ {p}
    BY DEF IInv, TypeOK, RunRec, OwnPlan, Asking, Plans
  <2>2. \A a \in Answers : Holds(a)' => Holds(a) /\ answers'[a] = answers[a]
    BY <1>2 DEF Holds
  <2> QED  BY <1>1, <2>1, <2>2 DEF IInv, FreshPlan, Plans
<1>7. PendingIsAwaited'  BY DEF PendingIsAwaited
<1>8. ApprovalsMeant'
  <2>1. \A a \in Answers : Holds(a)' => Holds(a) /\ answers'[a] = answers[a]
    BY <1>2 DEF Holds
  <2> QED  BY <1>1, <2>1 DEF IInv, ApprovalsMeant
<1>9. ApprovedByUser'  BY DEF IInv, ApprovedByUser
<1> QED  BY <1>3, <1>4, <1>5, <1>6, <1>7, <1>8, <1>9 DEF IInv

\* The record of no answer is well typed.
LEMMA IdleAnswerTyped == IdleAnswer \in AnswerRec
BY DEF IdleAnswer, AnswerRec, Verdicts

\* The promise is resolved.
LEMMA ResolveInv ==
  ASSUME NEW a \in Answers, IInv, Resolve(a)  PROVE IInv'
<1>1. /\ answers[a].plan \in Plans /\ answers[a].plan <= written
      /\ answers[a].verdict \in Verdicts
      /\ answers[a].verdict = "approve" => answers[a].plan \in approved
  BY DEF Resolve, IInv, TypeOK, AnswerRec, ApprovalsMeant, PlansInOrder, Plans, Holds
<1>2. \A r \in Runs : runs[r].pc = "generated" => runs[r].plan # answers[a].plan
  BY DEF Resolve, IInv, FreshPlan, Holds
<1>3. /\ answers' \in [Answers -> AnswerRec]
      /\ \A b \in Answers : answers'[b] \in {answers[b], IdleAnswer}
  BY IdleAnswerTyped DEF Resolve, IInv, TypeOK
<1>4. /\ outcome' = Settle(answers[a].plan, answers[a].verdict)
      /\ pending' = 0 /\ timers' \subseteq timers
      /\ UNCHANGED <<spec, written, runs, registered, approved>>
      /\ stops' \in 0..MaxStops
  BY DEF Resolve, IInv, TypeOK
<1> QED  BY <1>1, <1>2, <1>3, <1>4, SettleInv

\* A timer fires.
LEMMA TimerInv ==
  ASSUME NEW p \in Plans, IInv, TimerFires(p)  PROVE IInv'
<1>1. /\ pending' = 0 /\ timers' \subseteq timers
      /\ UNCHANGED <<spec, written, runs, registered, approved>>
      /\ stops' \in 0..MaxStops
      /\ answers' \in [Answers -> AnswerRec]
      /\ \A a \in Answers : answers'[a] \in {answers[a], IdleAnswer}
  BY DEF TimerFires, IInv, TypeOK
<1>2. p <= written /\ \A r \in Runs : runs[r].pc = "generated" => runs[r].plan # p
  BY DEF TimerFires, IInv, PlansInOrder, FreshPlan
<1>3. CASE pending # 0  BY <1>1, <1>2, <1>3, SettleInv DEF TimerFires
<1>4. CASE pending = 0
  <2>1. (TypeOK /\ LiveIsRegistered)'
    BY <1>1, <1>4 DEF TimerFires, IInv, TypeOK, LiveIsRegistered
  <2>2. (PlansInOrder /\ OwnPlan /\ FreshPlan)'
    BY <1>1, <1>4
    DEF TimerFires, IInv, PlansInOrder, SpecInOrder, OwnPlan, FreshPlan, Asking, Holds
  <2>3. (PendingIsAwaited /\ ApprovalsMeant /\ ApprovedByUser)'
    BY <1>1, <1>4
    DEF TimerFires, IInv, PendingIsAwaited, ApprovalsMeant, ApprovedByUser, Holds
  <2> QED  BY <2>1, <2>2, <2>3 DEF IInv
<1> QED  BY <1>3, <1>4

\* An abort marks the run, whose promise the map may hold.
LEMMA StopInv == IInv /\ Stop => IInv'
<1> SUFFICES ASSUME IInv, Stop  PROVE IInv'  OBVIOUS
<1>1. PICK r \in Runs : r = registered  BY DEF Stop, IInv, TypeOK
<1> DEFINE e == [runs[r] EXCEPT !.aborted = TRUE]
<1>2. /\ e \in RunRec /\ e.aborted = TRUE
      /\ e.pc = runs[r].pc /\ e.plan = runs[r].plan /\ e.ask = runs[r].ask
  BY DEF IInv, TypeOK, RunRec
<1>3. runs' = [runs EXCEPT ![r] = e]  BY <1>1 DEF Stop
<1> HIDE DEF e
<1>4. /\ runs' \in [Runs -> RunRec]
      /\ runs'[r].aborted = TRUE /\ \A s \in Runs \ {r} : runs'[s] = runs[s]
      /\ \A s \in Runs : /\ runs'[s].pc = runs[s].pc /\ runs'[s].plan = runs[s].plan
                         /\ runs'[s].ask = runs[s].ask
  BY <1>2, <1>3 DEF IInv, TypeOK
<1>5. /\ registered' = NoRun /\ pending' = 0 /\ stops' \in 0..MaxStops
      /\ UNCHANGED <<spec, written, answers, approved>> /\ timers' \subseteq timers
  BY DEF Stop, IInv, TypeOK
<1>6. /\ outcome' \in [Plans -> Verdicts \cup {"open", "timeout", "stopped"}]
      /\ \A q \in Plans : outcome'[q] # outcome[q] => q = pending /\ outcome'[q] = "stopped"
  <2>1. CASE pending = 0  BY <2>1 DEF Stop, IInv, TypeOK
  <2>2. CASE pending # 0
    <3>1. pending \in Plans  BY <2>2 DEF IInv, TypeOK, Plans
    <3>2. outcome' = Settle(pending, "stopped")  BY <2>2 DEF Stop
    <3> QED  BY <3>1, <3>2, SettleTyped DEF IInv
  <2> QED  BY <2>1, <2>2
<1>7. (TypeOK /\ LiveIsRegistered)'
  <2>1. \A s \in Runs \ {r} : runs'[s].pc # "idle" => runs'[s].aborted
    BY <1>1, <1>4 DEF IInv, LiveIsRegistered
  <2>2. LiveIsRegistered'  BY <1>4, <2>1 DEF LiveIsRegistered
  <2>3. TypeOK'  BY <1>4, <1>5, <1>6 DEF IInv, TypeOK
  <2> QED  BY <2>2, <2>3
<1>8. PlansInOrder'
  <2>1. \A q \in Plans : q > written => outcome'[q] = "open"
    BY <1>6 DEF IInv, TypeOK, PlansInOrder, Plans
  <2> QED  BY <1>4, <1>5, <2>1 DEF IInv, TypeOK, PlansInOrder, SpecInOrder
<1>9. OwnPlan'  BY <1>4 DEF IInv, OwnPlan, Asking
<1>10. FreshPlan'
  <2>1. \A s \in Runs : runs[s].pc = "generated" => runs[s].plan \in Plans
    BY DEF IInv, TypeOK, RunRec, OwnPlan, Asking, Plans
  <2> QED  BY <1>4, <1>5, <1>6, <2>1 DEF IInv, FreshPlan, Holds, Plans
<1>11. (PendingIsAwaited /\ ApprovalsMeant /\ ApprovedByUser)'
  BY <1>4, <1>5, <1>6 DEF IInv, PendingIsAwaited, ApprovalsMeant, ApprovedByUser, Holds
<1> QED  BY <1>7, <1>8, <1>9, <1>10, <1>11 DEF IInv

\* The server restarts.
LEMMA RestartInv == IInv /\ Restart => IInv'
<1> SUFFICES ASSUME IInv, Restart  PROVE IInv'  OBVIOUS
<1>1. /\ runs' \in [Runs -> RunRec] /\ answers' \in [Answers -> AnswerRec]
      /\ \A r \in Runs : runs'[r].pc = "idle" /\ runs'[r].plan = 0
      /\ \A a \in Answers : answers'[a].pc = "idle" /\ answers'[a].plan = 0
  BY DEF Restart, RunRec, AnswerRec, IdleRun, IdleAnswer, Verdicts
<1>2. (TypeOK /\ LiveIsRegistered)'
  BY <1>1 DEF Restart, IInv, TypeOK, LiveIsRegistered
<1>3. (PlansInOrder /\ OwnPlan)'
  BY <1>1 DEF Restart, IInv, TypeOK, PlansInOrder, SpecInOrder, OwnPlan, Asking
<1>4. (FreshPlan /\ PendingIsAwaited /\ ApprovalsMeant /\ ApprovedByUser)'
  BY <1>1 DEF Restart, IInv, FreshPlan, PendingIsAwaited, ApprovalsMeant, ApprovedByUser, Holds
<1> QED  BY <1>2, <1>3, <1>4 DEF IInv

-----------------------------------------------------------------------------
(* The theorems.                                                            *)

\* The invariant is inductive.
THEOREM NextInv == IInv /\ [Next]_vars => IInv'
<1> SUFFICES ASSUME IInv, [Next]_vars  PROVE IInv'  OBVIOUS
<1>1. ASSUME NEW r \in Runs, Start(r) \/ RunStep(r)  PROVE IInv'
  BY <1>1, StartInv, GenerateInv, RegisterInv, HeardInv, LeaveInv DEF RunStep
<1>2. ASSUME NEW a \in Answers, Answer(a) \/ AnswerUnexpected(a) \/ AnswerStep(a)  PROVE IInv'
  BY <1>2, AnswerInv, UnexpectedInv, LoadInv, RecoverInv, StartRecoveredInv, WriteInv, ResolveInv
  DEF AnswerStep
<1>3. ASSUME NEW p \in Plans, TimerFires(p)  PROVE IInv'  BY <1>3, TimerInv
<1>4. CASE Stop  BY <1>4, StopInv
<1>5. CASE Restart  BY <1>5, RestartInv
<1>6. CASE UNCHANGED vars
  BY <1>6
  DEF vars, IInv, TypeOK, LiveIsRegistered, PlansInOrder, SpecInOrder, OwnPlan, FreshPlan,
      PendingIsAwaited, ApprovalsMeant, ApprovedByUser, Asking, Holds
<1> QED  BY <1>1, <1>2, <1>3, <1>4, <1>5, <1>6 DEF Next

\* The invariant holds in every behaviour of the approval.
THEOREM Invariance == Spec => []IInv
BY InitInv, NextInv, PTL DEF Spec

\* Every variable keeps its type.
THEOREM TypeCorrect == Spec => []TypeOK
<1>1. IInv => TypeOK  BY DEF IInv
<1> QED  BY <1>1, Invariance, PTL

\* No agent that asked implements a plan no user approved.
THEOREM PlansApproved == Spec => []ApprovedByUser
<1>1. IInv => ApprovedByUser  BY DEF IInv
<1> QED  BY <1>1, Invariance, PTL

\* At most one run is live.
THEOREM RunsAlone == Spec => []OneLiveRun
<1>1. IInv => OneLiveRun  BY DEF IInv, LiveIsRegistered, OneLiveRun
<1> QED  BY <1>1, Invariance, PTL

\* The entry of the map stands for an open promise of a waiting agent.
THEOREM EntriesAwaited == Spec => []PendingIsAwaited
<1>1. IInv => PendingIsAwaited  BY DEF IInv
<1> QED  BY <1>1, Invariance, PTL

-----------------------------------------------------------------------------
(* The approval implements PlanDecision.                                    *)

\* What the abstract plans see of a run.
made(r, p)  == runs[r].pc = "generated" /\ runs[r].plan = p
waits(r, p) == runs[r].pc = "waiting" /\ runs[r].plan = p
works(r, p) == runs[r].pc = "implementing" /\ runs[r].ask /\ runs[r].plan = p

\* A promise that an answer or a timer can still settle is one an agent waits for, and
\* an agent that asks has its own plan on trial.
Promised ==
  /\ \A r \in Runs : Asking(r) => runs[r].ask
  /\ \A p \in Plans :
       outcome[p] = "open" /\ (p \in timers \/ \E a \in Answers : Holds(a) /\ answers[a].plan = p)
         => \E r \in Runs : waits(r, p)

\* The members of the mapped sets.
LEMMA Members ==
  /\ \A p : p \in unasked <=> (p \in Plans /\ p > written) \/ \E r \in Runs : made(r, p)
  /\ \A p : p \in awaited <=> \E r \in Runs : waits(r, p)
  /\ \A p : p \in worked  <=> \E r \in Runs : works(r, p)
BY DEF unasked, awaited, worked, plansOf, made, waits, works

\* The same after a step.
LEMMA NextMembers ==
  /\ \A p : p \in unasked' <=> (p \in Plans /\ p > written') \/ \E r \in Runs : made(r, p)'
  /\ \A p : p \in awaited' <=> \E r \in Runs : waits(r, p)'
  /\ \A p : p \in worked'  <=> \E r \in Runs : works(r, p)'
BY DEF unasked, awaited, worked, plansOf, made, waits, works

\* Steps the abstract plans do not see.
LEMMA Unseen ==
  ASSUME \A r \in Runs : \A p :
                            /\ made(r, p)' <=> made(r, p)
                            /\ waits(r, p)' <=> waits(r, p)
                            /\ works(r, p)' <=> works(r, p),
         UNCHANGED written
  PROVE  UNCHANGED <<unasked, awaited, worked>>
<1>1. \A p : p \in unasked' <=> p \in unasked  BY Members, NextMembers
<1>2. \A p : p \in awaited' <=> p \in awaited  BY Members, NextMembers
<1>3. \A p : p \in worked' <=> p \in worked    BY Members, NextMembers
<1> QED  BY <1>1, <1>2, <1>3

\* Steps that leave the runs alone.
LEMMA RunsKept ==
  ASSUME UNCHANGED <<runs, written>>  PROVE UNCHANGED <<unasked, awaited, worked>>
BY Unseen DEF made, waits, works

\* One run goes to another step.
LEMMA RunGoesTo ==
  ASSUME TypeOK, NEW r \in Runs, NEW step, runs' = [runs EXCEPT ![r].pc = step]
  PROVE  /\ runs'[r].pc = step /\ runs'[r].plan = runs[r].plan /\ runs'[r].ask = runs[r].ask
         /\ \A s \in Runs \ {r} : runs'[s] = runs[s]
BY DEF TypeOK, RunRec

\* The new plan of a run.
LEMMA RunGenerates ==
  ASSUME TypeOK, NEW r \in Runs, Generate(r)
  PROVE  /\ runs'[r].pc = "generated" /\ runs'[r].plan = written + 1 /\ runs'[r].ask = TRUE
         /\ \A s \in Runs \ {r} : runs'[s] = runs[s]
BY DEF TypeOK, RunRec, Generate

\* The run that is stopped goes on as before.
LEMMA StopSeen ==
  ASSUME TypeOK, Stop
  PROVE  \A s \in Runs : /\ runs'[s].pc = runs[s].pc /\ runs'[s].plan = runs[s].plan
                         /\ runs'[s].ask = runs[s].ask
<1>1. registered \in Runs  BY DEF TypeOK, Stop
<1>2. runs' = [runs EXCEPT ![registered].aborted = TRUE]  BY DEF Stop
<1> QED  BY <1>1, <1>2 DEF TypeOK, RunRec

\* Nothing is promised at first.
LEMMA InitPromised == Init => Promised
BY DEF Init, Promised, IdleRun, IdleAnswer, Asking, Holds

\* Promises stay awaited: they enter with their agent, and it leaves when they are settled.
LEMMA PromisedStep == IInv /\ IInv' /\ Promised /\ [Next]_vars => Promised'
<1> SUFFICES ASSUME IInv, IInv', Promised, [Next]_vars  PROVE Promised'  OBVIOUS
<1> USE DEF IInv
<1> DEFINE Waited(p) == \E r \in Runs : waits(r, p)
           Asks      == \A r \in Runs : Asking(r)' => runs'[r].ask
           Keeps     == \A p \in Plans : outcome'[p] = "open" /\ Waited(p) => Waited(p)'
           Open(p)   == p \in timers \/ \E a \in Answers : Holds(a) /\ answers[a].plan = p
           Less      == \A p \in Plans : /\ outcome'[p] = "open" => outcome[p] = "open"
                                         /\ Open(p)' => Open(p) \/ Waited(p)
<1>1. Asks /\ Keeps /\ Less => Promised'  BY DEF Promised
<1>2. UNCHANGED <<timers, answers, outcome>> => Less  BY DEF Holds
<1>3. UNCHANGED runs => Asks /\ Keeps  BY DEF Promised, Asking, waits
<1>4. ASSUME NEW r \in Runs, Start(r) \/ End(r)  PROVE Promised'
  <2>1. CASE Start(r)
    <3>1. PICK plan \in 0..MaxPlans : StartsWith(r, plan)  BY <2>1 DEF Start, TypeOK, SpecRec
    <3>2. /\ runs'[r].pc \in {"planning", "implementing"} /\ runs[r].pc = "idle"
          /\ \A s \in Runs \ {r} : runs'[s] = runs[s]
      BY <3>1, StartsTyped DEF StartsWith
    <3> QED  BY <2>1, <3>2, <1>1, <1>2 DEF Start, Promised, Asking, waits
  <2>2. CASE End(r)
    <3>1. /\ runs'[r].pc = "idle" /\ runs[r].pc # "waiting"
          /\ \A s \in Runs \ {r} : runs'[s] = runs[s]
      BY <2>2, LeavesTyped DEF End
    <3> QED  BY <2>2, <3>1, <1>1, <1>2 DEF End, Promised, Asking, waits
  <2> QED  BY <1>4, <2>1, <2>2
<1>5. ASSUME NEW r \in Runs, Generate(r)  PROVE Promised'
  <2>1. runs[r].pc = "planning" /\ UNCHANGED <<timers, answers, outcome>>
    BY <1>5 DEF Generate
  <2>2. /\ runs'[r].pc = "generated" /\ runs'[r].ask = TRUE
        /\ \A s \in Runs \ {r} : runs'[s] = runs[s]
    BY <1>5, RunGenerates
  <2>3. Asks /\ Keeps  BY <2>1, <2>2 DEF Promised, Asking, waits
  <2> QED  BY <2>1, <2>3, <1>1, <1>2
<1>6. ASSUME NEW r \in Runs, Register(r)  PROVE Promised'
  <2>1. /\ runs'[r].pc = "waiting" /\ runs'[r].plan = runs[r].plan /\ runs'[r].ask = runs[r].ask
        /\ \A s \in Runs \ {r} : runs'[s] = runs[s]
    BY <1>6, RunGoesTo DEF Register
  <2>2. runs[r].pc = "generated"  BY <1>6 DEF Register
  <2>3. Asks /\ Keeps  BY <2>1, <2>2 DEF Promised, Asking, waits
  <2>4. timers' = timers \cup {runs[r].plan} /\ UNCHANGED <<outcome, answers>>
    BY <1>6 DEF Register
  <2> SUFFICES ASSUME NEW p \in Plans, outcome'[p] = "open", Open(p)'  PROVE Waited(p)'
    BY <2>3 DEF Promised
  <2>5. CASE p = runs[r].plan  BY <2>1, <2>5 DEF waits
  <2>6. CASE p # runs[r].plan
    <3>1. Open(p)  BY <2>4, <2>6 DEF Holds
    <3>2. Waited(p)  BY <2>4, <3>1 DEF Promised
    <3> QED  BY <2>3, <3>2
  <2> QED  BY <2>5, <2>6
<1>7. ASSUME NEW r \in Runs, Implement(r) \/ Revise(r) \/ GiveUp(r)  PROVE Promised'
  <2>1. /\ runs[r].pc = "waiting" /\ Verdict(r) # "open" /\ runs'[r].pc # "waiting"
        /\ runs'[r].pc # "generated" /\ \A s \in Runs \ {r} : runs'[s] = runs[s]
    <3>1. CASE Implement(r)
      <4>1. runs' = [runs EXCEPT ![r].pc = "implementing"]  BY <3>1 DEF Implement
      <4>2. runs'[r].pc = "implementing" /\ \A s \in Runs \ {r} : runs'[s] = runs[s]
        BY <4>1, RunGoesTo
      <4> QED  BY <3>1, <4>2 DEF Implement
    <3>2. CASE Revise(r)
      <4>1. runs' = [runs EXCEPT ![r].pc = "planning"]  BY <3>2 DEF Revise
      <4>2. runs'[r].pc = "planning" /\ \A s \in Runs \ {r} : runs'[s] = runs[s]
        BY <4>1, RunGoesTo
      <4> QED  BY <3>2, <4>2 DEF Revise
    <3>3. CASE GiveUp(r)  BY <3>3, LeavesTyped DEF GiveUp
    <3> QED  BY <1>7, <3>1, <3>2, <3>3
  <2>2. UNCHANGED <<timers, answers, outcome>>  BY <1>7 DEF Implement, Revise, GiveUp
  <2>3. Asks /\ Keeps  BY <2>1, <2>2 DEF Promised, Asking, waits, Verdict
  <2> QED  BY <2>2, <2>3, <1>1, <1>2
<1>8. ASSUME NEW a \in Answers, Answer(a)  PROVE Promised'
  <2>1. /\ UNCHANGED <<runs, timers, outcome>> /\ pending # 0
        /\ \A b \in Answers \ {a} : answers'[b] = answers[b]
        /\ answers'[a].plan = pending
    BY <1>8 DEF Answer, TypeOK
  <2>2. Waited(pending)  BY <2>1 DEF PendingIsAwaited, waits
  <2>3. Less  BY <2>1, <2>2 DEF Holds
  <2> QED  BY <2>1, <2>3, <1>1, <1>3
<1>9. ASSUME NEW a \in Answers, AnswerUnexpected(a) \/ LoadForRecovery(a) \/ Recover(a) \/ Write(a)
      PROVE  Promised'
  <2>1. /\ UNCHANGED <<runs, timers, outcome>>
        /\ \A b \in Answers \ {a} : answers'[b] = answers[b]
        /\ Holds(a)' => Holds(a) /\ answers'[a].plan = answers[a].plan
    BY <1>9 DEF AnswerUnexpected, LoadForRecovery, Recover, Write, TypeOK, AnswerRec, Holds, IdleAnswer
  <2>2. Less  BY <2>1 DEF Holds
  <2> QED  BY <2>1, <2>2, <1>1, <1>3
<1>10. ASSUME NEW a \in Answers, StartRecovered(a)  PROVE Promised'
  <2>1. /\ UNCHANGED <<timers, outcome>>
        /\ \A b \in Answers \ {a} : answers'[b] = answers[b]
        /\ answers'[a].pc = "idle"
    BY <1>10 DEF StartRecovered, TypeOK, IdleAnswer
  <2>2. Less  BY <2>1 DEF Holds
  <2>3. CASE UNCHANGED runs  BY <2>2, <2>3, <1>1, <1>3
  <2>4. ASSUME NEW r \in Runs, StartsWith(r, answers[a].plan)  PROVE Promised'
    <3>1. answers[a].plan \in 0..MaxPlans  BY DEF TypeOK, AnswerRec
    <3>2. /\ runs'[r].pc \in {"planning", "implementing"} /\ runs[r].pc = "idle"
          /\ \A s \in Runs \ {r} : runs'[s] = runs[s]
      BY <2>4, <3>1, StartsTyped DEF StartsWith
    <3>3. Asks /\ Keeps  BY <2>1, <3>2 DEF Promised, Asking, waits
    <3> QED  BY <2>2, <3>3, <1>1
  <2> QED  BY <1>10, <2>3, <2>4 DEF StartRecovered
<1>11. ASSUME NEW p \in Plans, NEW v \in Verdicts \cup {"timeout", "stopped"},
              outcome' \in {outcome, Settle(p, v)}, timers' \subseteq timers,
              \A a \in Answers : answers'[a] \in {answers[a], IdleAnswer},
              \A s \in Runs : /\ runs'[s].pc = runs[s].pc /\ runs'[s].plan = runs[s].plan
                              /\ runs'[s].ask = runs[s].ask
       PROVE  Promised'
  <2>1. \A q \in Plans : outcome'[q] = "open" => outcome[q] = "open"
    BY <1>11 DEF Settle, TypeOK, Verdicts
  <2>2. \A a \in Answers : Holds(a)' => Holds(a) /\ answers'[a] = answers[a]
    BY <1>11 DEF Holds, IdleAnswer
  <2>3. Less  BY <1>11, <2>1, <2>2
  <2>4. Asks /\ Keeps  BY <1>11 DEF Promised, Asking, waits
  <2> QED  BY <2>3, <2>4, <1>1
<1>12. ASSUME NEW a \in Answers, Resolve(a)  PROVE Promised'
  <2>1. answers[a].plan \in Plans /\ answers[a].verdict \in Verdicts
    BY <1>12 DEF Resolve, TypeOK, AnswerRec, ApprovalsMeant, Plans, Holds
  <2>2. \A b \in Answers : answers'[b] \in {answers[b], IdleAnswer}
    BY <1>12 DEF Resolve, TypeOK
  <2> QED  BY <1>11, <1>12, <2>1, <2>2 DEF Resolve
<1>13. ASSUME NEW p \in Plans, TimerFires(p)  PROVE Promised'
  BY <1>11, <1>13 DEF TimerFires
<1>14. CASE Stop
  <2>1. UNCHANGED answers /\ timers' \subseteq timers  BY <1>14 DEF Stop
  <2>2. CASE pending = 0
    <3>1. UNCHANGED <<timers, outcome>>  BY <1>14, <2>2 DEF Stop
    <3>2. Less  BY <2>1, <3>1 DEF Holds
    <3>3. Asks /\ Keeps  BY <1>14, StopSeen DEF Promised, Asking, waits
    <3> QED  BY <3>2, <3>3, <1>1
  <2>3. CASE pending # 0
    <3>1. pending \in Plans /\ outcome' = Settle(pending, "stopped")
      BY <1>14, <2>3 DEF Stop, TypeOK, Plans
    <3> QED  BY <1>11, <1>14, <2>1, <3>1, StopSeen
  <2> QED  BY <2>2, <2>3
<1>15. CASE Restart
  <2>1. /\ \A r \in Runs : runs'[r].pc = "idle"
        /\ \A a \in Answers : answers'[a].pc = "idle"
        /\ timers' = {}
    BY <1>15 DEF Restart, IdleRun, IdleAnswer
  <2> QED  BY <2>1 DEF Promised, Asking, Holds
<1>16. CASE UNCHANGED vars  BY <1>16, <1>1, <1>2, <1>3 DEF vars
<1> QED
  BY <1>4, <1>5, <1>6, <1>7, <1>8, <1>9, <1>10, <1>12, <1>13, <1>14, <1>15, <1>16
  DEF Next, RunStep, AnswerStep

\* The initial states agree.
LEMMA InitDecides == Init => Abstract!Init
<1> SUFFICES ASSUME Init  PROVE Abstract!Init  OBVIOUS
<1>1. \A r \in Runs : runs[r].pc = "idle"  BY DEF Init, IdleRun
<1>2. \A p : p \in unasked <=> p \in Plans  BY <1>1, Members DEF Init, made, Plans
<1>3. awaited = {} /\ worked = {}  BY <1>1, Members DEF waits, works
<1> QED  BY <1>2, <1>3 DEF Init, Abstract!Init

\* A run that starts has not asked.
LEMMA StartUnseen ==
  ASSUME TypeOK, NEW r \in Runs, NEW plan \in 0..MaxPlans, StartsWith(r, plan),
         UNCHANGED written
  PROVE  UNCHANGED <<unasked, awaited, worked>>
<1>1. /\ runs[r].pc = "idle" /\ runs'[r].pc \in {"planning", "implementing"}
      /\ runs'[r].ask = FALSE /\ \A s \in Runs \ {r} : runs'[s] = runs[s]
  BY StartsTyped DEF StartsWith
<1> QED  BY <1>1, Unseen DEF made, waits, works

\* A run that asks, goes on, turns back or ends is seen as such.
LEMMA RunDecides ==
  ASSUME IInv, Promised, NEW r \in Runs, RunStep(r) \/ Start(r)
  PROVE  [Abstract!Next]_(Abstract!vars)
<1> USE DEF IInv
<1> DEFINE p == runs[r].plan
           Goal == [Abstract!Next]_(Abstract!vars)
<1>1. UNCHANGED <<unasked, awaited, worked, outcome, approved>> => Goal  BY DEF Abstract!vars
<1>2. Asking(r) => p \in Plans /\ runs[r].ask
  BY DEF TypeOK, RunRec, OwnPlan, Asking, Promised, Plans
<1>3. CASE Register(r)
  <2>1. /\ runs'[r].pc = "waiting" /\ runs'[r].plan = runs[r].plan /\ runs'[r].ask = runs[r].ask
        /\ \A s \in Runs \ {r} : runs'[s] = runs[s]
    BY <1>3, RunGoesTo DEF Register
  <2>2. /\ made(r, p) /\ p \in Plans /\ outcome[p] = "open" /\ p <= written
        /\ UNCHANGED <<written, outcome, approved>>
    BY <1>2, <1>3 DEF Register, made, Asking, FreshPlan, PlansInOrder
  <2>3. \A s \in Runs \ {r} : \A q : /\ made(s, q)' <=> made(s, q)
                                     /\ waits(s, q)' <=> waits(s, q)
                                     /\ works(s, q)' <=> works(s, q)
    BY <2>1 DEF made, waits, works
  <2>4. \A q : /\ ~made(r, q)' /\ (made(r, q) <=> q = p)
               /\ waits(r, q)' <=> q = p
               /\ ~waits(r, q) /\ ~works(r, q) /\ ~works(r, q)'
    BY <2>1, <2>2 DEF made, waits, works
  <2>5. \A s \in Runs \ {r} : ~made(s, p)  BY <2>2 DEF OwnPlan, Asking, made
  <2>6. ~(p > written)  BY <2>2 DEF TypeOK, Plans
  <2> HIDE DEF p
  <2>7. unasked' = unasked \ {p}
    <3>1. \A q : q \in unasked' <=> q \in unasked /\ q # p
      BY <2>2, <2>3, <2>4, <2>5, <2>6, Members, NextMembers
    <3> QED  BY <3>1
  <2>8. awaited' = awaited \cup {p}
    <3>1. \A q : q \in awaited' <=> q \in awaited \/ q = p
      BY <2>3, <2>4, Members, NextMembers
    <3> QED  BY <3>1
  <2>9. worked' = worked
    <3>1. \A q : q \in worked' <=> q \in worked  BY <2>3, <2>4, Members, NextMembers
    <3> QED  BY <3>1
  <2>10. p \in unasked  BY <2>2, Members
  <2>11. Abstract!Ask(p)  BY <2>2, <2>7, <2>8, <2>9, <2>10 DEF Abstract!Ask
  <2> QED  BY <2>2, <2>11 DEF Abstract!Next
<1>4. CASE Implement(r) \/ Revise(r) \/ GiveUp(r)
  <2>1. /\ runs'[r].pc = IF Implement(r) THEN "implementing" ELSE runs'[r].pc
        /\ Implement(r) => runs'[r].plan = p /\ runs'[r].ask = runs[r].ask
        /\ ~Implement(r) => runs'[r].pc \in {"planning", "idle"}
        /\ \A s \in Runs \ {r} : runs'[s] = runs[s]
    <3>1. CASE Implement(r)
      <4>1. runs' = [runs EXCEPT ![r].pc = "implementing"]  BY <3>1 DEF Implement
      <4>2. /\ runs'[r].pc = "implementing" /\ runs'[r].plan = p /\ runs'[r].ask = runs[r].ask
            /\ \A s \in Runs \ {r} : runs'[s] = runs[s]
        BY <4>1, RunGoesTo
      <4> QED  BY <3>1, <4>2
    <3>2. CASE Revise(r) /\ ~Implement(r)
      <4>1. runs' = [runs EXCEPT ![r].pc = "planning"]  BY <3>2 DEF Revise
      <4>2. runs'[r].pc = "planning" /\ \A s \in Runs \ {r} : runs'[s] = runs[s]
        BY <4>1, RunGoesTo
      <4> QED  BY <3>2, <4>2
    <3>3. CASE GiveUp(r) /\ ~Implement(r)  BY <3>3, LeavesTyped DEF GiveUp
    <3> QED  BY <1>4, <3>1, <3>2, <3>3
  <2>2. /\ waits(r, p) /\ p \in Plans /\ UNCHANGED <<written, outcome, approved>>
        /\ Implement(r) => outcome[p] = "approve"
        /\ ~Implement(r) => outcome[p] \notin {"open", "approve"}
    BY <1>2, <1>4 DEF Implement, Revise, GiveUp, waits, Verdict, Asking
  <2>3. \A s \in Runs \ {r} : \A q : /\ made(s, q)' <=> made(s, q)
                                     /\ waits(s, q)' <=> waits(s, q)
                                     /\ works(s, q)' <=> works(s, q)
    BY <2>1 DEF made, waits, works
  <2>4. \A q : /\ ~made(r, q) /\ ~made(r, q)' /\ ~waits(r, q)' /\ ~works(r, q)
               /\ waits(r, q) <=> q = p
               /\ works(r, q)' <=> q = p /\ Implement(r)
    BY <1>2, <2>1, <2>2 DEF made, waits, works, Asking
  <2>5. \A s \in Runs \ {r} : ~waits(s, p)  BY <2>2 DEF OwnPlan, Asking, waits
  <2> HIDE DEF p
  <2>6. unasked' = unasked
    <3>1. \A q : q \in unasked' <=> q \in unasked  BY <2>2, <2>3, <2>4, Members, NextMembers
    <3> QED  BY <3>1
  <2>7. awaited' = awaited \ {p}
    <3>1. \A q : q \in awaited' <=> q \in awaited /\ q # p
      BY <2>3, <2>4, <2>5, Members, NextMembers
    <3> QED  BY <3>1
  <2>8. worked' = IF Implement(r) THEN worked \cup {p} ELSE worked
    <3>1. \A q : q \in worked' <=> q \in worked \/ (q = p /\ Implement(r))
      BY <2>3, <2>4, Members, NextMembers
    <3> QED  BY <3>1
  <2>9. p \in awaited  BY <2>2, Members
  <2>10. CASE Implement(r)
    <3>1. Abstract!Proceed(p)  BY <2>2, <2>6, <2>7, <2>8, <2>9, <2>10 DEF Abstract!Proceed
    <3> QED  BY <2>2, <3>1 DEF Abstract!Next
  <2>11. CASE ~Implement(r)
    <3>1. Abstract!TurnAway(p)  BY <2>2, <2>6, <2>7, <2>8, <2>9, <2>11 DEF Abstract!TurnAway
    <3> QED  BY <2>2, <3>1 DEF Abstract!Next
  <2> QED  BY <2>10, <2>11
<1>5. CASE End(r)
  <2>1. /\ runs[r].pc \in {"planning", "implementing"} /\ runs'[r].pc = "idle"
        /\ \A s \in Runs \ {r} : runs'[s] = runs[s]
        /\ UNCHANGED <<written, outcome, approved>>
    BY <1>5, LeavesTyped DEF End
  <2>2. \A s \in Runs \ {r} : \A q : /\ made(s, q)' <=> made(s, q)
                                     /\ waits(s, q)' <=> waits(s, q)
                                     /\ works(s, q)' <=> works(s, q)
    BY <2>1 DEF made, waits, works
  <2>3. \A q : /\ ~made(r, q) /\ ~made(r, q)' /\ ~waits(r, q) /\ ~waits(r, q)'
               /\ ~works(r, q)' /\ (works(r, q) => q = p)
    BY <2>1 DEF made, waits, works
  <2> HIDE DEF p
  <2>4. unasked' = unasked /\ awaited' = awaited
    <3>1. \A q : (q \in unasked' <=> q \in unasked) /\ (q \in awaited' <=> q \in awaited)
      BY <2>1, <2>2, <2>3, Members, NextMembers
    <3> QED  BY <3>1
  <2>5. CASE worked' = worked  BY <2>1, <2>4, <2>5, <1>1
  <2>6. CASE worked' # worked
    <3>1. \A q : q \in worked' => q \in worked  BY <2>2, <2>3, Members, NextMembers
    <3>2. \A q : q \in worked /\ q # p => q \in worked'  BY <2>2, <2>3, Members, NextMembers
    <3>3. p \in worked /\ p \notin worked'  BY <2>6, <3>1, <3>2
    <3>4. worked' = worked \ {p}  BY <3>1, <3>2, <3>3
    <3>5. p \in Plans
      <4>1. works(r, p)  BY <2>2, <3>3, Members, NextMembers
      <4> QED  BY <4>1 DEF works, ApprovedByUser, TypeOK
    <3>6. Abstract!Finish(p)  BY <2>1, <2>4, <3>4 DEF Abstract!Finish
    <3> QED  BY <3>5, <3>6 DEF Abstract!Next
  <2> QED  BY <2>5, <2>6
<1>6. CASE Generate(r)
  <2>1. /\ runs'[r].pc = "generated" /\ runs'[r].plan = written + 1
        /\ \A s \in Runs \ {r} : runs'[s] = runs[s]
    BY <1>6, RunGenerates
  <2>2. /\ runs[r].pc = "planning" /\ written' = written + 1 /\ written + 1 \in Plans
        /\ UNCHANGED <<outcome, approved>>
    BY <1>6 DEF Generate, TypeOK, Plans
  <2>3. \A s \in Runs \ {r} : \A q : /\ made(s, q)' <=> made(s, q)
                                     /\ waits(s, q)' <=> waits(s, q)
                                     /\ works(s, q)' <=> works(s, q)
    BY <2>1 DEF made, waits, works
  <2>4. \A q : /\ ~made(r, q) /\ (made(r, q)' <=> q = written + 1)
               /\ ~waits(r, q) /\ ~waits(r, q)' /\ ~works(r, q) /\ ~works(r, q)'
    BY <2>1, <2>2 DEF made, waits, works
  <2>5. \A q \in Plans : q > written <=> q > written + 1 \/ q = written + 1
    BY DEF TypeOK, Plans
  <2>6. unasked' = unasked
    <3>1. \A q : q \in unasked' <=> q \in unasked
      BY <2>2, <2>3, <2>4, <2>5, Members, NextMembers
    <3> QED  BY <3>1
  <2>7. awaited' = awaited /\ worked' = worked
    <3>1. \A q : (q \in awaited' <=> q \in awaited) /\ (q \in worked' <=> q \in worked)
      BY <2>3, <2>4, Members, NextMembers
    <3> QED  BY <3>1
  <2> QED  BY <2>2, <2>6, <2>7, <1>1
<1>7. CASE Start(r)
  <2>1. PICK plan \in 0..MaxPlans : StartsWith(r, plan)  BY <1>7 DEF Start, TypeOK, SpecRec
  <2>2. UNCHANGED <<written, outcome, approved>>  BY <1>7 DEF Start
  <2> QED  BY <2>1, <2>2, <1>1, StartUnseen
<1> QED  BY <1>3, <1>4, <1>5, <1>6, <1>7 DEF RunStep

\* A decision is made while its agent waits.
LEMMA Decides ==
  ASSUME IInv, Promised, NEW p \in Plans, NEW v \in Verdicts \cup {"timeout", "stopped"},
         outcome' = Settle(p, v), UNCHANGED <<written, approved>>,
         UNCHANGED <<unasked, awaited, worked>>, v = "approve" => p \in approved,
         outcome[p] = "open" => \E r \in Runs : waits(r, p)
  PROVE  [Abstract!Next]_(Abstract!vars)
<1> USE DEF IInv
<1>1. CASE outcome[p] # "open"
  <2>1. outcome' = outcome  BY <1>1 DEF Settle, TypeOK
  <2> QED  BY <2>1 DEF Abstract!vars
<1>2. CASE outcome[p] = "open"
  <2>1. p \in awaited  BY <1>2, Members
  <2>2. outcome' = [outcome EXCEPT ![p] = v]  BY <1>2 DEF Settle
  <2>3. Abstract!Decide(p, v)  BY <1>2, <2>1, <2>2 DEF Abstract!Decide
  <2> QED  BY <2>3 DEF Abstract!Next, Verdicts
<1> QED  BY <1>1, <1>2

\* An answer approves, decides or is not seen.
LEMMA AnswerDecides ==
  ASSUME IInv, Promised, NEW a \in Answers, Answer(a) \/ AnswerUnexpected(a) \/ AnswerStep(a)
  PROVE  [Abstract!Next]_(Abstract!vars)
<1> USE DEF IInv
<1>1. ASSUME NEW p \in Plans, approved' \in {approved, approved \cup {p}},
             UNCHANGED <<runs, written, outcome>>
      PROVE  [Abstract!Next]_(Abstract!vars)
  <2>1. UNCHANGED <<unasked, awaited, worked>>  BY <1>1, RunsKept
  <2>2. CASE approved' = approved  BY <1>1, <2>1, <2>2 DEF Abstract!vars
  <2>3. CASE approved' = approved \cup {p}
    <3>1. Abstract!Approve(p)  BY <1>1, <2>1, <2>3 DEF Abstract!Approve
    <3> QED  BY <3>1 DEF Abstract!Next
  <2> QED  BY <1>1, <2>2, <2>3
<1>2. CASE Answer(a)
  <2>1. pending \in Plans  BY <1>2 DEF Answer, TypeOK, Plans
  <2> QED  BY <1>1, <1>2, <2>1 DEF Answer
<1>3. ASSUME UNCHANGED <<unasked, awaited, worked, outcome, approved>>
      PROVE  [Abstract!Next]_(Abstract!vars)
  BY <1>3 DEF Abstract!vars
<1>4. CASE AnswerUnexpected(a) \/ Recover(a) \/ Write(a)
  BY <1>3, <1>4, RunsKept DEF AnswerUnexpected, Recover, Write
<1>5. CASE LoadForRecovery(a)
  <2>1. UNCHANGED <<runs, written, outcome>>  BY <1>5 DEF LoadForRecovery
  <2>2. CASE approved' = approved  BY <1>3, <2>1, <2>2, RunsKept
  <2>3. CASE approved' # approved
    <3>1. /\ spec.status = "generated" /\ approved' = approved \cup {spec.plan}
      BY <1>5, <2>3 DEF LoadForRecovery
    <3>2. spec.plan \in Plans  BY <3>1 DEF TypeOK, SpecRec, PlansInOrder, SpecInOrder, Plans
    <3> QED  BY <1>1, <2>1, <3>1, <3>2
  <2> QED  BY <2>2, <2>3
<1>6. CASE StartRecovered(a)
  <2>1. UNCHANGED <<written, outcome, approved>>  BY <1>6 DEF StartRecovered
  <2>2. CASE UNCHANGED runs  BY <1>3, <2>1, <2>2, RunsKept
  <2>3. ASSUME NEW r \in Runs, StartsWith(r, answers[a].plan)
        PROVE  [Abstract!Next]_(Abstract!vars)
    <3>1. answers[a].plan \in 0..MaxPlans  BY DEF TypeOK, AnswerRec
    <3> QED  BY <1>3, <2>1, <2>3, <3>1, StartUnseen
  <2> QED  BY <1>6, <2>2, <2>3 DEF StartRecovered
<1>7. CASE Resolve(a)
  <2> DEFINE p == answers[a].plan
  <2>1. /\ p \in Plans /\ answers[a].verdict \in Verdicts /\ Holds(a)
        /\ answers[a].verdict = "approve" => p \in approved
    BY <1>7 DEF Resolve, TypeOK, AnswerRec, ApprovalsMeant, Plans, Holds
  <2>2. /\ outcome' = Settle(p, answers[a].verdict) /\ UNCHANGED <<written, approved>>
        /\ UNCHANGED <<unasked, awaited, worked>>
    BY <1>7, RunsKept DEF Resolve
  <2>3. outcome[p] = "open" => \E r \in Runs : waits(r, p)  BY <2>1 DEF Promised
  <2> QED  BY <2>1, <2>2, <2>3, Decides
<1> QED  BY <1>2, <1>4, <1>5, <1>6, <1>7 DEF AnswerStep

\* So do the timers, stops and restarts.
LEMMA OthersDecide ==
  ASSUME IInv, Promised,
         (\E p \in Plans : TimerFires(p)) \/ Stop \/ Restart \/ UNCHANGED vars
  PROVE  [Abstract!Next]_(Abstract!vars)
<1> USE DEF IInv
<1>1. ASSUME UNCHANGED <<unasked, awaited, worked, outcome, approved>>
      PROVE  [Abstract!Next]_(Abstract!vars)
  BY <1>1 DEF Abstract!vars
<1>2. ASSUME NEW p \in Plans, TimerFires(p)  PROVE [Abstract!Next]_(Abstract!vars)
  <2>1. UNCHANGED <<unasked, awaited, worked, written, approved>>
    BY <1>2, RunsKept DEF TimerFires
  <2>2. CASE pending = 0  BY <1>1, <1>2, <2>1, <2>2 DEF TimerFires
  <2>3. CASE pending # 0
    <3>1. outcome' = Settle(p, "timeout") /\ p \in timers  BY <1>2, <2>3 DEF TimerFires
    <3>2. outcome[p] = "open" => \E r \in Runs : waits(r, p)  BY <3>1 DEF Promised
    <3> QED  BY <2>1, <3>1, <3>2, Decides
  <2> QED  BY <2>2, <2>3
<1>3. CASE Stop
  <2>1. UNCHANGED <<unasked, awaited, worked, written, approved>>
    BY <1>3, StopSeen, Unseen DEF Stop, made, waits, works
  <2>2. CASE pending = 0  BY <1>1, <1>3, <2>1, <2>2 DEF Stop
  <2>3. CASE pending # 0
    <3>1. outcome' = Settle(pending, "stopped") /\ pending \in Plans
      BY <1>3, <2>3 DEF Stop, TypeOK, Plans
    <3>2. \E r \in Runs : waits(r, pending)  BY <2>3 DEF PendingIsAwaited, waits
    <3> QED  BY <2>1, <3>1, <3>2, Decides
  <2> QED  BY <2>2, <2>3
<1>4. CASE Restart
  <2>1. \A r \in Runs : runs'[r].pc = "idle"  BY <1>4 DEF Restart, IdleRun
  <2>2. awaited' = {} /\ worked' = {}  BY <2>1, NextMembers DEF waits, works
  <2>3. unasked' \subseteq unasked
    BY <1>4, <2>1, Members, NextMembers DEF Restart, made
  <2>4. Abstract!Restart  BY <1>4, <2>2, <2>3 DEF Restart, Abstract!Restart
  <2> QED  BY <2>4 DEF Abstract!Next
<1>5. CASE UNCHANGED vars  BY <1>1, <1>5, RunsKept DEF vars
<1> QED  BY <1>2, <1>3, <1>4, <1>5

\* The approval of plans implements PlanDecision, for any number of executions, answers
\* and plans: each plan is decided once, while the agent that asked waits, by an answer
\* that was meant for it, and that agent does what was decided.
THEOREM ApprovalImplementsDecision == Spec => AbstractSpec
<1>1. Init => Promised /\ Abstract!Init  BY InitPromised, InitDecides
<1>2. IInv /\ IInv' /\ Promised /\ [Next]_vars => Promised'  BY PromisedStep
<1>3. IInv /\ Promised /\ [Next]_vars => [Abstract!Next]_(Abstract!vars)
  BY RunDecides, AnswerDecides, OthersDecide DEF Next
<1> QED  BY <1>1, <1>2, <1>3, Invariance, PTL DEF Spec, AbstractSpec, Abstract!Spec
=============================================================================
