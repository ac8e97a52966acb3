---------------------- MODULE FeatureExecutionProofs ----------------------
(***************************************************************************)
(* Proofs about FeatureExecution, for any number of calls and any limits   *)
(* on retries: no call leaves an entry or a timer behind that has no owner. *)
(***************************************************************************)
EXTENDS FeatureExecution, TLAPS

\* What the invariants rest on: a call in flight has no timer of its own but while
\* its finally clause runs.
OwnTimer == \A c \in Calls : calls[c].pc \notin {"idle", "cleanup"} => due[c] = NoTimer

\* ... a wait that only lacks its event has no call.
SettledIsIdle == wait = "settled" => calls[Waiter].pc = "idle"

IInv == TypeOK /\ EntryIsLive /\ HandleIsLive /\ OwnTimer /\ SettledIsIdle

\* The step of WaitOutlastsRun.
WaitStep == wait # "none" /\ wait' = "none" => calls'[Waiter].pc = "idle"

USE ExecutionAssumption

\* A status update keeps the types and touches nothing but the flag of the aborted call.
LEMMA SetStatusSafe ==
  ASSUME NEW s \in Statuses, NEW cs \in [Calls -> CallRec], TypeOK, SetStatus(s, cs)
  PROVE  /\ status' \in Statuses
         /\ stops' \in 0..MaxStops
         /\ calls' \in [Calls -> CallRec]
         /\ \A c \in Calls : calls'[c].pc = cs[c].pc
<1>1. CASE StopsDone(s)
  <2>1. entry \in Calls  BY <1>1 DEF StopsDone, TypeOK
  <2>2. [cs[entry] EXCEPT !.aborted = TRUE] \in CallRec  BY <2>1 DEF CallRec
  <2>3. calls' = [cs EXCEPT ![entry] = [cs[entry] EXCEPT !.aborted = TRUE]]
    BY <1>1, <2>1 DEF SetStatus, Aborted
  <2>4. calls' \in [Calls -> CallRec]  BY <2>1, <2>2, <2>3
  <2>5. \A c \in Calls : calls'[c].pc = cs[c].pc  BY <2>1, <2>3 DEF CallRec
  <2> QED  BY <1>1, <2>4, <2>5 DEF SetStatus, TypeOK
<1>2. CASE ~StopsDone(s)  BY <1>2 DEF SetStatus, TypeOK
<1> QED  BY <1>1, <1>2

\* An ending call keeps its record well typed.
LEMMA EndingTyped ==
  ASSUME NEW c \in Calls, NEW pc \in Phases, calls \in [Calls -> CallRec]
  PROVE  /\ Ending(c, pc) \in [Calls -> CallRec]
         /\ Ending(c, pc)[c].pc = pc
         /\ \A d \in Calls \ {c} : Ending(c, pc)[d] = calls[d]
<1> DEFINE e == [calls[c] EXCEPT !.pc = pc, !.retry = 0, !.cont = FALSE, !.aborted = FALSE]
<1>1. e \in CallRec /\ e.pc = pc  BY DEF CallRec
<1>2. Ending(c, pc) = [calls EXCEPT ![c] = e]  BY DEF Ending, CallRec
<1> QED  BY <1>1, <1>2

\* release() stops at zero.
LEMMA ReleasedTyped == \A n, frames \in Nat : Released(n, frames) \in Nat
BY DEF Released

WaitStates == {"none", "pending", "told", "settled"}

\* Hearing an event leaves a state of the wait.
LEMMA WaitHearsTyped ==
  \A w \in WaitStates :
    /\ WaitHears(w) \in WaitStates
    /\ WaitHears(w) = "settled" => w = "settled"
    /\ WaitHears(w) = "none" => w \in {"none", "settled"}
BY DEF WaitHears, WaitStates

\* So does a status that may be an event.
LEMMA HeardTyped ==
  \A w \in WaitStates, s \in Statuses :
    /\ Heard(w, s) \in WaitStates
    /\ Heard(w, s) = "settled" => w = "settled"
    /\ Heard(w, s) = "none" => w \in {"none", "settled"}
    /\ Heard(w, s) \in {w, WaitHears(w)}
BY WaitHearsTyped DEF Heard

\* So does the end of a call.
LEMMA CallEndsTyped ==
  \A w \in WaitStates, c \in Calls :
    /\ CallEnds(w, c) \in WaitStates
    /\ CallEnds(w, c) \in {"settled", "none"} => w = CallEnds(w, c) \/ c = Waiter
BY DEF CallEnds, WaitStates


-----------------------------------------------------------------------------
(* The invariant is inductive.                                              *)

\* The invariant holds with no call in flight.
THEOREM InitInv == Init => IInv
BY DEF Init, IInv, TypeOK, EntryIsLive, HandleIsLive, OwnTimer, SettledIsIdle, Statuses,
       IdleCall, NewCall, NoTimer, CallRec, DueRec, Phases

\* A step in which one call moves from one part of its body to another keeps what the
\* entry and the timers promise.
LEMMA CallMoves ==
  ASSUME IInv, NEW c \in Calls, NEW cs \in [Calls -> CallRec],
         \A d \in Calls \ {c} : cs[d].pc = calls[d].pc,
         calls' \in [Calls -> CallRec], \A d \in Calls : calls'[d].pc = cs[d].pc,
         entry' \in {entry, NoCall} \cup {d \in Calls : cs[d].pc \in Registered},
         entry = c => entry' # entry \/ cs[c].pc \in Registered,
         UNCHANGED timerVars,
         \/ cs[c].pc \in {"idle", "cleanup"} \/ calls[c].pc \notin {"idle", "cleanup"}
         \/ due[c] = NoTimer,
         wait' \in {"settled", "none"} =>
           \/ wait = "none" /\ wait' = "none"
           \/ wait = "settled" /\ (c # Waiter \/ calls[c].pc # "idle")
           \/ cs[Waiter].pc = "idle"
  PROVE  EntryIsLive' /\ HandleIsLive' /\ OwnTimer' /\ SettledIsIdle' /\ WaitStep
<1>1. EntryIsLive'  BY DEF IInv, TypeOK, EntryIsLive
<1>2. HandleIsLive'  BY DEF IInv, HandleIsLive, timerVars
<1>3. OwnTimer'  BY DEF IInv, OwnTimer, timerVars
<1>4. SettledIsIdle' /\ WaitStep  BY DEF IInv, SettledIsIdle, WaitStep
<1> QED  BY <1>1, <1>2, <1>3, <1>4

\* The same for a step that gives the call a new record.
LEMMA CallMovesTo ==
  ASSUME IInv, NEW c \in Calls, NEW r \in CallRec, calls' = [calls EXCEPT ![c] = r],
         entry' \in {entry, NoCall} \cup {d \in Calls : d = c /\ r.pc \in Registered},
         entry = c => entry' # entry \/ r.pc \in Registered,
         status' \in Statuses, UNCHANGED <<timerVars, stops>>,
         lease' \in Nat, leaked' \in Nat,
         \/ r.pc \in {"idle", "cleanup"} \/ calls[c].pc \notin {"idle", "cleanup"}
         \/ due[c] = NoTimer,
         wait' \in {"none", "pending", "told", "settled"},
         wait' \in {"settled", "none"} =>
           \/ wait = "none" /\ wait' = "none"
           \/ wait = "settled" /\ (c # Waiter \/ calls[c].pc # "idle")
           \/ c = Waiter /\ r.pc = "idle"
  PROVE  IInv' /\ WaitStep
<1>1. calls' \in [Calls -> CallRec] /\ calls'[c] = r
      /\ \A d \in Calls \ {c} : calls'[d].pc = calls[d].pc
  BY DEF IInv, TypeOK
<1>2. TypeOK'  BY <1>1 DEF IInv, TypeOK, timerVars
<1>3. EntryIsLive' /\ HandleIsLive' /\ OwnTimer' /\ SettledIsIdle' /\ WaitStep
  BY <1>1, CallMoves, ZenonT(40)
<1> QED  BY <1>2, <1>3 DEF IInv

\* ... and for one that writes a status as well.
LEMMA CallMovesWithStatus ==
  ASSUME IInv, NEW c \in Calls, NEW r \in CallRec, NEW s \in Statuses,
         SetStatus(s, [calls EXCEPT ![c] = r]),
         entry' \in {entry, NoCall} \cup {d \in Calls : d = c /\ r.pc \in Registered},
         entry = c => entry' # entry \/ r.pc \in Registered,
         UNCHANGED timerVars,
         lease' \in Nat, leaked' \in Nat,
         calls[c].pc \notin {"idle", "cleanup"},
         wait' \in {wait, WaitHears(wait)}
  PROVE  IInv' /\ WaitStep
<1> DEFINE cs == [calls EXCEPT ![c] = r]
<1>1. cs \in [Calls -> CallRec] /\ cs[c] = r
      /\ \A d \in Calls \ {c} : cs[d].pc = calls[d].pc
  BY DEF IInv, TypeOK
<1>2. /\ status' \in Statuses /\ stops' \in 0..MaxStops
      /\ calls' \in [Calls -> CallRec] /\ \A d \in Calls : calls'[d].pc = cs[d].pc
  BY <1>1, SetStatusSafe DEF IInv
<1>3. /\ wait' \in {"none", "pending", "told", "settled"}
      /\ wait' \in {"settled", "none"} => wait = wait' \/ wait = "settled"
  BY WaitHearsTyped DEF IInv, TypeOK, WaitStates
<1>4. TypeOK'  BY <1>1, <1>2, <1>3 DEF IInv, TypeOK, timerVars
<1>5. EntryIsLive' /\ HandleIsLive' /\ OwnTimer' /\ SettledIsIdle' /\ WaitStep
  BY <1>1, <1>2, <1>3, CallMoves
<1> QED  BY <1>4, <1>5 DEF IInv

\* The lease and the leak stay natural numbers.
LEMMA LeaseTyped ==
  ASSUME NEW n \in Nat, NEW lost \in Nat, LeaseBecomes(n, lost)
  PROVE  lease' \in Nat /\ leaked' \in Nat
BY DEF LeaseBecomes

\* A started call is registered, keeps the invariant and ends no wait.
LEMMA ExecuteSafe ==
  ASSUME IInv, NEW c \in Calls, Execute(c) \/ PipelineExecutes(c)
  PROVE  IInv' /\ WaitStep
<1> DEFINE r == NewCall("loading", 0, 1, FALSE)
<1>1. r \in CallRec /\ r.pc = "loading"  BY DEF NewCall, CallRec, Phases
<1>2. /\ lease' \in Nat /\ leaked' \in Nat
      /\ due[c] = NoTimer /\ entry' = c /\ calls' = [calls EXCEPT ![c] = r]
      /\ UNCHANGED <<status, timerVars, stops>>
  BY LeaseTyped DEF Execute, PipelineExecutes, ExecuteFeature, Free, IInv, TypeOK
<1>3. /\ wait' \in {"none", "pending", "told", "settled"}
      /\ wait' \in {"settled", "none"} => wait = wait' /\ (c # Waiter \/ wait = "none")
  BY DEF Execute, PipelineExecutes, ExecuteFeature, Free, IInv, TypeOK
<1> QED  BY <1>1, <1>2, <1>3, CallMovesTo DEF Registered, IInv, TypeOK

\* The steps of a call that change its record, the entry and the lease.
LEMMA RecordStepsSafe ==
  ASSUME IInv, NEW c \in Calls,
         RefuseTerminal(c) \/ AuthorityDenies(c) \/ ContinuePlan(c) \/ Load(c)
         \/ DelegateToResume(c) \/ AgentFails(c) \/ FollowUpFails(c) \/ Cleanup(c)
         \/ ResumeRefused(c) \/ ResumeContinues(c) \/ FollowUpReturns(c)
  PROVE  IInv' /\ WaitStep
<1>1. CASE RefuseTerminal(c)
  <2>1. PICK r \in CallRec : r.pc = "unwinding" /\ calls' = [calls EXCEPT ![c] = r]
    <3> DEFINE r == [calls[c] EXCEPT !.pc = "unwinding", !.retry = 0, !.cont = FALSE, !.aborted = FALSE]
    <3>1. calls[c] \in CallRec /\ calls[c].frames \in Nat /\ calls[c].frames + 1 \in Nat
      BY <1>1 DEF IInv, TypeOK, CallRec
    <3>2. r \in CallRec /\ r.pc = "unwinding"
      BY <1>1, <3>1 DEF CallRec, Phases, NewCall, IdleCall
    <3>3. calls' = [calls EXCEPT ![c] = r]
      BY <1>1, <3>1 DEF RefuseTerminal, Ending, IInv, TypeOK, CallRec
    <3> QED  BY <1>1, <3>2, <3>3
  <2>2. /\ status' \in Statuses /\ UNCHANGED <<timerVars, stops>>
        /\ lease' \in Nat /\ leaked' \in Nat
    BY <1>1, <2>1 DEF RefuseTerminal, IInv, TypeOK, CallRec, Statuses, slotVars
  <2>3. /\ wait' \in {"none", "pending", "told", "settled"}
        /\ wait' \in {"settled", "none"} =>
             wait = wait' \/ wait = "settled" \/ (c = Waiter /\ r.pc = "idle")
    BY <1>1, <2>1 DEF RefuseTerminal, IInv, TypeOK
  <2>4. /\ entry' \in {entry, NoCall} \cup {d \in Calls : d = c /\ r.pc \in Registered}
        /\ entry = c => entry' # entry \/ r.pc \in Registered
        /\ calls[c].pc \notin {"idle", "cleanup"} \/ r.pc \in {"idle", "cleanup"}
        /\ calls[c].pc # "idle"
    BY <1>1, <2>1 DEF RefuseTerminal, Registered, IInv, TypeOK, EntryIsLive
  <2> QED  BY <1>1, <2>1, <2>2, <2>3, <2>4, CallMovesTo
<1>2. CASE AuthorityDenies(c)
  <2>1. PICK r \in CallRec : r.pc = "cleanup" /\ calls' = [calls EXCEPT ![c] = r]
    <3> DEFINE r == [calls[c] EXCEPT !.pc = "cleanup", !.retry = 0, !.cont = FALSE, !.aborted = FALSE]
    <3>1. calls[c] \in CallRec /\ calls[c].frames \in Nat /\ calls[c].frames + 1 \in Nat
      BY <1>2 DEF IInv, TypeOK, CallRec
    <3>2. r \in CallRec /\ r.pc = "cleanup"
      BY <1>2, <3>1 DEF CallRec, Phases, NewCall, IdleCall
    <3>3. calls' = [calls EXCEPT ![c] = r]
      BY <1>2, <3>1 DEF AuthorityDenies, Ending, IInv, TypeOK, CallRec
    <3> QED  BY <1>2, <3>2, <3>3
  <2>2. /\ status' \in Statuses /\ UNCHANGED <<timerVars, stops>>
        /\ lease' \in Nat /\ leaked' \in Nat
    BY <1>2, <2>1 DEF AuthorityDenies, IInv, TypeOK, CallRec, Statuses, slotVars
  <2>3. /\ wait' \in {"none", "pending", "told", "settled"}
        /\ wait' \in {"settled", "none"} =>
             wait = wait' \/ wait = "settled" \/ (c = Waiter /\ r.pc = "idle")
    BY <1>2, <2>1 DEF AuthorityDenies, IInv, TypeOK
  <2>4. /\ entry' \in {entry, NoCall} \cup {d \in Calls : d = c /\ r.pc \in Registered}
        /\ entry = c => entry' # entry \/ r.pc \in Registered
        /\ calls[c].pc \notin {"idle", "cleanup"} \/ r.pc \in {"idle", "cleanup"}
        /\ calls[c].pc # "idle"
    BY <1>2, <2>1 DEF AuthorityDenies, Registered, IInv, TypeOK, EntryIsLive
  <2> QED  BY <1>2, <2>1, <2>2, <2>3, <2>4, CallMovesTo
<1>3. CASE ContinuePlan(c)
  <2>1. PICK r \in CallRec : r.pc = "loading" /\ calls' = [calls EXCEPT ![c] = r]
    <3> DEFINE r == NewCall("loading", 0, calls[c].frames, TRUE)
    <3>1. calls[c] \in CallRec /\ calls[c].frames \in Nat /\ calls[c].frames + 1 \in Nat
      BY <1>3 DEF IInv, TypeOK, CallRec
    <3>2. r \in CallRec /\ r.pc = "loading"
      BY <1>3, <3>1 DEF CallRec, Phases, NewCall, IdleCall
    <3>3. calls' = [calls EXCEPT ![c] = r]
      BY <1>3, <3>1 DEF ContinuePlan, Ending, IInv, TypeOK, CallRec
    <3> QED  BY <1>3, <3>2, <3>3
  <2>2. /\ status' \in Statuses /\ UNCHANGED <<timerVars, stops>>
        /\ lease' \in Nat /\ leaked' \in Nat
    BY <1>3, <2>1 DEF ContinuePlan, IInv, TypeOK, CallRec, Statuses, slotVars
  <2>3. /\ wait' \in {"none", "pending", "told", "settled"}
        /\ wait' \in {"settled", "none"} =>
             wait = wait' \/ wait = "settled" \/ (c = Waiter /\ r.pc = "idle")
    BY <1>3, <2>1 DEF ContinuePlan, IInv, TypeOK
  <2>4. /\ entry' \in {entry, NoCall} \cup {d \in Calls : d = c /\ r.pc \in Registered}
        /\ entry = c => entry' # entry \/ r.pc \in Registered
        /\ calls[c].pc \notin {"idle", "cleanup"} \/ r.pc \in {"idle", "cleanup"}
        /\ calls[c].pc # "idle"
    BY <1>3, <2>1 DEF ContinuePlan, Registered, IInv, TypeOK, EntryIsLive
  <2> QED  BY <1>3, <2>1, <2>2, <2>3, <2>4, CallMovesTo
<1>4. CASE Load(c)
  <2>1. PICK r \in CallRec : r.pc = "preparing" /\ calls' = [calls EXCEPT ![c] = r]
    <3> DEFINE r == [calls[c] EXCEPT !.pc = "preparing"]
    <3>1. calls[c] \in CallRec /\ calls[c].frames \in Nat /\ calls[c].frames + 1 \in Nat
      BY <1>4 DEF IInv, TypeOK, CallRec
    <3>2. r \in CallRec /\ r.pc = "preparing"
      BY <1>4, <3>1 DEF CallRec, Phases, NewCall, IdleCall
    <3>3. calls' = [calls EXCEPT ![c] = r]
      BY <1>4, <3>1 DEF Load, Ending, IInv, TypeOK, CallRec
    <3> QED  BY <1>4, <3>2, <3>3
  <2>2. /\ status' \in Statuses /\ UNCHANGED <<timerVars, stops>>
        /\ lease' \in Nat /\ leaked' \in Nat
    BY <1>4, <2>1 DEF Load, IInv, TypeOK, CallRec, Statuses, slotVars
  <2>3. /\ wait' \in {"none", "pending", "told", "settled"}
        /\ wait' \in {"settled", "none"} =>
             wait = wait' \/ wait = "settled" \/ (c = Waiter /\ r.pc = "idle")
    BY <1>4, <2>1 DEF Load, IInv, TypeOK
  <2>4. /\ entry' \in {entry, NoCall} \cup {d \in Calls : d = c /\ r.pc \in Registered}
        /\ entry = c => entry' # entry \/ r.pc \in Registered
        /\ calls[c].pc \notin {"idle", "cleanup"} \/ r.pc \in {"idle", "cleanup"}
        /\ calls[c].pc # "idle"
    BY <1>4, <2>1 DEF Load, Registered, IInv, TypeOK, EntryIsLive
  <2> QED  BY <1>4, <2>1, <2>2, <2>3, <2>4, CallMovesTo
<1>5. CASE DelegateToResume(c)
  <2>1. PICK r \in CallRec : r.pc = "resuming" /\ calls' = [calls EXCEPT ![c] = r]
    <3> DEFINE r == [calls[c] EXCEPT !.pc = "resuming", !.cont = TRUE, !.aborted = FALSE]
    <3>1. calls[c] \in CallRec /\ calls[c].frames \in Nat /\ calls[c].frames + 1 \in Nat
      BY <1>5 DEF IInv, TypeOK, CallRec
    <3>2. r \in CallRec /\ r.pc = "resuming"
      BY <1>5, <3>1 DEF CallRec, Phases, NewCall, IdleCall
    <3>3. calls' = [calls EXCEPT ![c] = r]
      BY <1>5, <3>1 DEF DelegateToResume, Ending, IInv, TypeOK, CallRec
    <3> QED  BY <1>5, <3>2, <3>3
  <2>2. /\ status' \in Statuses /\ UNCHANGED <<timerVars, stops>>
        /\ lease' \in Nat /\ leaked' \in Nat
    BY <1>5, <2>1 DEF DelegateToResume, IInv, TypeOK, CallRec, Statuses, slotVars
  <2>3. /\ wait' \in {"none", "pending", "told", "settled"}
        /\ wait' \in {"settled", "none"} =>
             wait = wait' \/ wait = "settled" \/ (c = Waiter /\ r.pc = "idle")
    BY <1>5, <2>1 DEF DelegateToResume, IInv, TypeOK
  <2>4. /\ entry' \in {entry, NoCall} \cup {d \in Calls : d = c /\ r.pc \in Registered}
        /\ entry = c => entry' # entry \/ r.pc \in Registered
        /\ calls[c].pc \notin {"idle", "cleanup"} \/ r.pc \in {"idle", "cleanup"}
        /\ calls[c].pc # "idle"
    BY <1>5, <2>1 DEF DelegateToResume, Registered, IInv, TypeOK, EntryIsLive
  <2> QED  BY <1>5, <2>1, <2>2, <2>3, <2>4, CallMovesTo
<1>6. CASE AgentFails(c)
  <2>1. PICK r \in CallRec : r.pc = "failing" /\ calls' = [calls EXCEPT ![c] = r]
    <3> DEFINE r == [calls[c] EXCEPT !.pc = "failing"]
    <3>1. calls[c] \in CallRec /\ calls[c].frames \in Nat /\ calls[c].frames + 1 \in Nat
      BY <1>6 DEF IInv, TypeOK, CallRec
    <3>2. r \in CallRec /\ r.pc = "failing"
      BY <1>6, <3>1 DEF CallRec, Phases, NewCall, IdleCall
    <3>3. calls' = [calls EXCEPT ![c] = r]
      BY <1>6, <3>1 DEF AgentFails, Ending, IInv, TypeOK, CallRec
    <3> QED  BY <1>6, <3>2, <3>3
  <2>2. /\ status' \in Statuses /\ UNCHANGED <<timerVars, stops>>
        /\ lease' \in Nat /\ leaked' \in Nat
    BY <1>6, <2>1 DEF AgentFails, IInv, TypeOK, CallRec, Statuses, slotVars
  <2>3. /\ wait' \in {"none", "pending", "told", "settled"}
        /\ wait' \in {"settled", "none"} =>
             wait = wait' \/ wait = "settled" \/ (c = Waiter /\ r.pc = "idle")
    BY <1>6, <2>1 DEF AgentFails, IInv, TypeOK
  <2>4. /\ entry' \in {entry, NoCall} \cup {d \in Calls : d = c /\ r.pc \in Registered}
        /\ entry = c => entry' # entry \/ r.pc \in Registered
        /\ calls[c].pc \notin {"idle", "cleanup"} \/ r.pc \in {"idle", "cleanup"}
        /\ calls[c].pc # "idle"
    BY <1>6, <2>1 DEF AgentFails, Registered, IInv, TypeOK, EntryIsLive
  <2> QED  BY <1>6, <2>1, <2>2, <2>3, <2>4, CallMovesTo
<1>7. CASE FollowUpFails(c)
  <2>1. PICK r \in CallRec : r.pc = "followed" /\ calls' = [calls EXCEPT ![c] = r]
    <3> DEFINE r == [calls[c] EXCEPT !.pc = "followed"]
    <3>1. calls[c] \in CallRec /\ calls[c].frames \in Nat /\ calls[c].frames + 1 \in Nat
      BY <1>7 DEF IInv, TypeOK, CallRec
    <3>2. r \in CallRec /\ r.pc = "followed"
      BY <1>7, <3>1 DEF CallRec, Phases, NewCall, IdleCall
    <3>3. calls' = [calls EXCEPT ![c] = r]
      BY <1>7, <3>1 DEF FollowUpFails, Ending, IInv, TypeOK, CallRec
    <3> QED  BY <1>7, <3>2, <3>3
  <2>2. /\ status' \in Statuses /\ UNCHANGED <<timerVars, stops>>
        /\ lease' \in Nat /\ leaked' \in Nat
    BY <1>7, <2>1 DEF FollowUpFails, IInv, TypeOK, CallRec, Statuses, slotVars
  <2>3. /\ wait' \in {"none", "pending", "told", "settled"}
        /\ wait' \in {"settled", "none"} =>
             wait = wait' \/ wait = "settled" \/ (c = Waiter /\ r.pc = "idle")
    BY <1>7, <2>1 DEF FollowUpFails, IInv, TypeOK
  <2>4. /\ entry' \in {entry, NoCall} \cup {d \in Calls : d = c /\ r.pc \in Registered}
        /\ entry = c => entry' # entry \/ r.pc \in Registered
        /\ calls[c].pc \notin {"idle", "cleanup"} \/ r.pc \in {"idle", "cleanup"}
        /\ calls[c].pc # "idle"
    BY <1>7, <2>1 DEF FollowUpFails, Registered, IInv, TypeOK, EntryIsLive
  <2> QED  BY <1>7, <2>1, <2>2, <2>3, <2>4, CallMovesTo
<1>8. CASE Cleanup(c)
  <2>1. PICK r \in CallRec : r.pc = "idle" /\ calls' = [calls EXCEPT ![c] = r]
    <3> DEFINE r == IdleCall
    <3>1. calls[c] \in CallRec /\ calls[c].frames \in Nat /\ calls[c].frames + 1 \in Nat
      BY <1>8 DEF IInv, TypeOK, CallRec
    <3>2. r \in CallRec /\ r.pc = "idle"
      BY <1>8, <3>1 DEF CallRec, Phases, NewCall, IdleCall
    <3>3. calls' = [calls EXCEPT ![c] = r]
      BY <1>8, <3>1 DEF Cleanup, Ending, IInv, TypeOK, CallRec
    <3> QED  BY <1>8, <3>2, <3>3
  <2>2. /\ status' \in Statuses /\ UNCHANGED <<timerVars, stops>>
        /\ lease' \in Nat /\ leaked' \in Nat
    BY <1>8, <2>1, LeaseTyped, ReleasedTyped DEF Cleanup, IInv, TypeOK, CallRec, Statuses, slotVars
  <2>3. /\ wait' \in {"none", "pending", "told", "settled"}
        /\ wait' \in {"settled", "none"} =>
             wait = wait' \/ wait = "settled" \/ (c = Waiter /\ r.pc = "idle")
    <3>1. wait \in WaitStates  BY <1>8 DEF IInv, TypeOK, WaitStates
    <3>2. PICK s \in Statuses :
            status' = s /\ wait' = CallEnds(IF s # status THEN Heard(wait, s) ELSE wait, c)
      BY <1>8 DEF Cleanup, IInv, TypeOK, Statuses
    <3>3. PICK w \in WaitStates :
            /\ wait' = CallEnds(w, c)
            /\ w = "settled" => wait = "settled"
            /\ w = "none" => wait \in {"none", "settled"}
      BY <1>8, <3>1, <3>2, HeardTyped
    <3>4. /\ wait' \in WaitStates
          /\ wait' \in {"settled", "none"} => wait \in {wait', "settled"} \/ c = Waiter
      BY <1>8, <3>3, CallEndsTyped
    <3> QED  BY <1>8, <2>1, <3>4 DEF WaitStates
  <2>4. /\ entry' \in {entry, NoCall} \cup {d \in Calls : d = c /\ r.pc \in Registered}
        /\ entry = c => entry' # entry \/ r.pc \in Registered
        /\ calls[c].pc \notin {"idle", "cleanup"} \/ r.pc \in {"idle", "cleanup"}
        /\ calls[c].pc # "idle"
    BY <1>8, <2>1 DEF Cleanup, Registered, IInv, TypeOK, EntryIsLive
  <2> QED  BY <1>8, <2>1, <2>2, <2>3, <2>4, CallMovesTo
<1>9. CASE ResumeRefused(c)
  <2>1. PICK r \in CallRec : r.pc = "idle" /\ calls' = [calls EXCEPT ![c] = r]
    <3> DEFINE r == IdleCall
    <3>1. calls[c] \in CallRec /\ calls[c].frames \in Nat /\ calls[c].frames + 1 \in Nat
      BY <1>9 DEF IInv, TypeOK, CallRec
    <3>2. r \in CallRec /\ r.pc = "idle"
      BY <1>9, <3>1 DEF CallRec, Phases, NewCall, IdleCall
    <3>3. calls' = [calls EXCEPT ![c] = r]
      BY <1>9, <3>1 DEF ResumeRefused, Ending, IInv, TypeOK, CallRec
    <3> QED  BY <1>9, <3>2, <3>3
  <2>2. /\ status' \in Statuses /\ UNCHANGED <<timerVars, stops>>
        /\ lease' \in Nat /\ leaked' \in Nat
    BY <1>9, <2>1, LeaseTyped, ReleasedTyped DEF ResumeRefused, IInv, TypeOK, CallRec, Statuses, slotVars
  <2>3. /\ wait' \in {"none", "pending", "told", "settled"}
        /\ wait' \in {"settled", "none"} =>
             wait = wait' \/ wait = "settled" \/ (c = Waiter /\ r.pc = "idle")
    <3>1. wait \in WaitStates  BY <1>9 DEF IInv, TypeOK, WaitStates
    <3>2. PICK w \in WaitStates :
            /\ wait' = CallEnds(w, c)
            /\ w = "settled" => wait = "settled"
            /\ w = "none" => wait \in {"none", "settled"}
      BY <1>9, <3>1, WaitHearsTyped DEF ResumeRefused
    <3>3. /\ wait' \in WaitStates
          /\ wait' \in {"settled", "none"} => wait \in {wait', "settled"} \/ c = Waiter
      BY <1>9, <3>2, CallEndsTyped
    <3> QED  BY <1>9, <2>1, <3>3 DEF WaitStates
  <2>4. /\ entry' \in {entry, NoCall} \cup {d \in Calls : d = c /\ r.pc \in Registered}
        /\ entry = c => entry' # entry \/ r.pc \in Registered
        /\ calls[c].pc \notin {"idle", "cleanup"} \/ r.pc \in {"idle", "cleanup"}
        /\ calls[c].pc # "idle"
    BY <1>9, <2>1 DEF ResumeRefused, Registered, IInv, TypeOK, EntryIsLive
  <2> QED  BY <1>9, <2>1, <2>2, <2>3, <2>4, CallMovesTo
<1>10. CASE ResumeContinues(c)
  <2>1. PICK r \in CallRec : r.pc = "loading" /\ calls' = [calls EXCEPT ![c] = r]
    <3> DEFINE r == [calls[c] EXCEPT !.pc = "loading", !.retry = 0, !.frames = calls[c].frames + 1]
    <3>1. calls[c] \in CallRec /\ calls[c].frames \in Nat /\ calls[c].frames + 1 \in Nat
      BY <1>10 DEF IInv, TypeOK, CallRec
    <3>2. r \in CallRec /\ r.pc = "loading"
      BY <1>10, <3>1 DEF CallRec, Phases, NewCall, IdleCall
    <3>3. calls' = [calls EXCEPT ![c] = r]
      BY <1>10, <3>1 DEF ResumeContinues, Ending, IInv, TypeOK, CallRec
    <3> QED  BY <1>10, <3>2, <3>3
  <2>2. /\ status' \in Statuses /\ UNCHANGED <<timerVars, stops>>
        /\ lease' \in Nat /\ leaked' \in Nat
    BY <1>10, <2>1, LeaseTyped DEF ResumeContinues, IInv, TypeOK, CallRec, Statuses, slotVars
  <2>3. /\ wait' \in {"none", "pending", "told", "settled"}
        /\ wait' \in {"settled", "none"} =>
             wait = wait' \/ wait = "settled" \/ (c = Waiter /\ r.pc = "idle")
    BY <1>10, <2>1 DEF ResumeContinues, IInv, TypeOK
  <2>4. /\ entry' \in {entry, NoCall} \cup {d \in Calls : d = c /\ r.pc \in Registered}
        /\ entry = c => entry' # entry \/ r.pc \in Registered
        /\ calls[c].pc \notin {"idle", "cleanup"} \/ r.pc \in {"idle", "cleanup"}
        /\ calls[c].pc # "idle"
    BY <1>10, <2>1 DEF ResumeContinues, Registered, IInv, TypeOK, EntryIsLive
  <2> QED  BY <1>10, <2>1, <2>2, <2>3, <2>4, CallMovesTo
<1>11. CASE FollowUpReturns(c)
  <2>1. PICK r \in CallRec : r.pc = "idle" /\ calls' = [calls EXCEPT ![c] = r]
    <3> DEFINE r == IdleCall
    <3>1. calls[c] \in CallRec /\ calls[c].frames \in Nat /\ calls[c].frames + 1 \in Nat
      BY <1>11 DEF IInv, TypeOK, CallRec
    <3>2. r \in CallRec /\ r.pc = "idle"
      BY <1>11, <3>1 DEF CallRec, Phases, NewCall, IdleCall
    <3>3. calls' = [calls EXCEPT ![c] = r]
      BY <1>11, <3>1 DEF FollowUpReturns, Ending, IInv, TypeOK, CallRec
    <3> QED  BY <1>11, <3>2, <3>3
  <2>2. /\ status' \in Statuses /\ UNCHANGED <<timerVars, stops>>
        /\ lease' \in Nat /\ leaked' \in Nat
    <3>1. status' \in Statuses /\ UNCHANGED <<timerVars, stops>>
      BY <1>11 DEF FollowUpReturns, IInv, TypeOK, Statuses
    <3>2. lease \in Nat /\ leaked \in Nat /\ leaked + 1 \in Nat /\ Released(lease, 1) \in Nat
      BY <1>11, ReleasedTyped DEF IInv, TypeOK
    <3>3. LeaseBecomes(Released(lease, 1), leaked) \/ LeaseBecomes(lease, leaked + 1)
      BY <1>11 DEF FollowUpReturns
    <3>4. lease' \in Nat /\ leaked' \in Nat  BY <1>11, <3>2, <3>3, LeaseTyped
    <3> QED  BY <1>11, <3>1, <3>4
  <2>3. /\ wait' \in {"none", "pending", "told", "settled"}
        /\ wait' \in {"settled", "none"} =>
             wait = wait' \/ wait = "settled" \/ (c = Waiter /\ r.pc = "idle")
    <3>1. wait \in WaitStates  BY <1>11 DEF IInv, TypeOK, WaitStates
    <3>2. PICK s \in Statuses :
            status' = s /\ wait' = IF s # status THEN Heard(wait, s) ELSE wait
      BY <1>11 DEF FollowUpReturns, IInv, TypeOK, Statuses
    <3> QED  BY <1>11, <3>1, <3>2, HeardTyped DEF WaitStates
  <2>4. /\ entry' \in {entry, NoCall} \cup {d \in Calls : d = c /\ r.pc \in Registered}
        /\ entry = c => entry' # entry \/ r.pc \in Registered
        /\ calls[c].pc \notin {"idle", "cleanup"} \/ r.pc \in {"idle", "cleanup"}
        /\ calls[c].pc # "idle"
    BY <1>11, <2>1 DEF FollowUpReturns, Registered, IInv, TypeOK, EntryIsLive
  <2> QED  BY <1>11, <2>1, <2>2, <2>3, <2>4, CallMovesTo
<1> QED  BY <1>1, <1>2, <1>3, <1>4, <1>5, <1>6, <1>7, <1>8, <1>9, <1>10, <1>11

\* The steps of a call that write a status.
LEMMA StatusStepsSafe ==
  ASSUME IInv, NEW c \in Calls,
         PrepareFails(c) \/ StartAgent(c) \/ AgentSucceeds(c) \/ AgentAborts(c)
         \/ GiveUp(c) \/ ReturnToBacklog(c) \/ FollowUpBlocked(c)
         \/ FollowUpStarts(c) \/ FollowUpSucceeds(c)
  PROVE  IInv' /\ WaitStep
<1>1. CASE PrepareFails(c)
  <2>1. PICK r \in CallRec, s \in Statuses :
          r.pc = "unwinding" /\ SetStatus(s, [calls EXCEPT ![c] = r]) /\ wait' \in {wait, WaitHears(wait)}
    <3> DEFINE r == [calls[c] EXCEPT !.pc = "unwinding", !.retry = 0, !.cont = FALSE, !.aborted = FALSE]
    <3>1. calls[c] \in CallRec  BY <1>1 DEF IInv, TypeOK, CallRec
    <3>2. r \in CallRec /\ r.pc = "unwinding"
      BY <1>1, <3>1 DEF CallRec, Phases, NewCall, IdleCall
    <3>3. PICK s \in Statuses :
            /\ SetStatus(s, Ending(c, "unwinding"))
            /\ wait' = wait \/ wait' = Heard(wait, s)
      BY <1>1 DEF PrepareFails, Statuses
    <3>4. Ending(c, "unwinding") = [calls EXCEPT ![c] = r]
      BY <1>1, <3>1 DEF Ending, IInv, TypeOK, CallRec
    <3>5. wait' \in {wait, WaitHears(wait)}
      BY <1>1, <3>3, HeardTyped DEF IInv, TypeOK, WaitStates
    <3> QED  BY <1>1, <3>2, <3>3, <3>4, <3>5
  <2>2. lease' \in Nat /\ leaked' \in Nat /\ UNCHANGED timerVars
    BY <1>1 DEF PrepareFails, IInv, TypeOK, slotVars
  <2>3. /\ entry' \in {entry, NoCall} \cup {d \in Calls : d = c /\ r.pc \in Registered}
        /\ entry = c => entry' # entry \/ r.pc \in Registered
        /\ calls[c].pc \notin {"idle", "cleanup"}
    BY <1>1, <2>1 DEF PrepareFails, Registered, IInv, TypeOK, EntryIsLive
  <2> QED  BY <1>1, <2>1, <2>2, <2>3, CallMovesWithStatus
<1>2. CASE StartAgent(c)
  <2>1. PICK r \in CallRec, s \in Statuses :
          r.pc = "agent" /\ SetStatus(s, [calls EXCEPT ![c] = r]) /\ wait' \in {wait, WaitHears(wait)}
    <3> DEFINE r == [calls[c] EXCEPT !.pc = "agent"]
    <3>1. calls[c] \in CallRec  BY <1>2 DEF IInv, TypeOK, CallRec
    <3>2. r \in CallRec /\ r.pc = "agent"
      BY <1>2, <3>1 DEF CallRec, Phases, NewCall, IdleCall
    <3>3. PICK s \in Statuses :
            /\ SetStatus(s, [calls EXCEPT ![c].pc = "agent"])
            /\ wait' = wait \/ wait' = Heard(wait, s)
      BY <1>2 DEF StartAgent, Statuses
    <3>4. [calls EXCEPT ![c].pc = "agent"] = [calls EXCEPT ![c] = r]
      BY <1>2, <3>1 DEF Ending, IInv, TypeOK, CallRec
    <3>5. wait' \in {wait, WaitHears(wait)}
      BY <1>2, <3>3, HeardTyped DEF IInv, TypeOK, WaitStates
    <3> QED  BY <1>2, <3>2, <3>3, <3>4, <3>5
  <2>2. lease' \in Nat /\ leaked' \in Nat /\ UNCHANGED timerVars
    BY <1>2 DEF StartAgent, IInv, TypeOK, slotVars
  <2>3. /\ entry' \in {entry, NoCall} \cup {d \in Calls : d = c /\ r.pc \in Registered}
        /\ entry = c => entry' # entry \/ r.pc \in Registered
        /\ calls[c].pc \notin {"idle", "cleanup"}
    BY <1>2, <2>1 DEF StartAgent, Registered, IInv, TypeOK, EntryIsLive
  <2> QED  BY <1>2, <2>1, <2>2, <2>3, CallMovesWithStatus
<1>3. CASE AgentSucceeds(c)
  <2>1. PICK r \in CallRec, s \in Statuses :
          r.pc = "cleanup" /\ SetStatus(s, [calls EXCEPT ![c] = r]) /\ wait' \in {wait, WaitHears(wait)}
    <3> DEFINE r == [calls[c] EXCEPT !.pc = "cleanup", !.retry = 0, !.cont = FALSE, !.aborted = FALSE]
    <3>1. calls[c] \in CallRec  BY <1>3 DEF IInv, TypeOK, CallRec
    <3>2. r \in CallRec /\ r.pc = "cleanup"
      BY <1>3, <3>1 DEF CallRec, Phases, NewCall, IdleCall
    <3>3. PICK s \in Statuses :
            /\ SetStatus(s, Ending(c, "cleanup"))
            /\ wait' = wait \/ wait' = Heard(wait, s)
      BY <1>3 DEF AgentSucceeds, Statuses
    <3>4. Ending(c, "cleanup") = [calls EXCEPT ![c] = r]
      BY <1>3, <3>1 DEF Ending, IInv, TypeOK, CallRec
    <3>5. wait' \in {wait, WaitHears(wait)}
      BY <1>3, <3>3, HeardTyped DEF IInv, TypeOK, WaitStates
    <3> QED  BY <1>3, <3>2, <3>3, <3>4, <3>5
  <2>2. lease' \in Nat /\ leaked' \in Nat /\ UNCHANGED timerVars
    BY <1>3 DEF AgentSucceeds, IInv, TypeOK, slotVars
  <2>3. /\ entry' \in {entry, NoCall} \cup {d \in Calls : d = c /\ r.pc \in Registered}
        /\ entry = c => entry' # entry \/ r.pc \in Registered
        /\ calls[c].pc \notin {"idle", "cleanup"}
    BY <1>3, <2>1 DEF AgentSucceeds, Registered, IInv, TypeOK, EntryIsLive
  <2> QED  BY <1>3, <2>1, <2>2, <2>3, CallMovesWithStatus
<1>4. CASE AgentAborts(c)
  <2>1. PICK r \in CallRec, s \in Statuses :
          r.pc = "cleanup" /\ SetStatus(s, [calls EXCEPT ![c] = r]) /\ wait' \in {wait, WaitHears(wait)}
    <3> DEFINE r == [calls[c] EXCEPT !.pc = "cleanup", !.retry = 0, !.cont = FALSE, !.aborted = FALSE]
    <3>1. calls[c] \in CallRec  BY <1>4 DEF IInv, TypeOK, CallRec
    <3>2. r \in CallRec /\ r.pc = "cleanup"
      BY <1>4, <3>1 DEF CallRec, Phases, NewCall, IdleCall
    <3>3. PICK s \in Statuses :
            /\ SetStatus(s, Ending(c, "cleanup"))
            /\ wait' = wait \/ wait' = Heard(wait, s)
      BY <1>4 DEF AgentAborts, Statuses
    <3>4. Ending(c, "cleanup") = [calls EXCEPT ![c] = r]
      BY <1>4, <3>1 DEF Ending, IInv, TypeOK, CallRec
    <3>5. wait' \in {wait, WaitHears(wait)}
      BY <1>4, <3>3, HeardTyped DEF IInv, TypeOK, WaitStates
    <3> QED  BY <1>4, <3>2, <3>3, <3>4, <3>5
  <2>2. lease' \in Nat /\ leaked' \in Nat /\ UNCHANGED timerVars
    BY <1>4 DEF AgentAborts, IInv, TypeOK, slotVars
  <2>3. /\ entry' \in {entry, NoCall} \cup {d \in Calls : d = c /\ r.pc \in Registered}
        /\ entry = c => entry' # entry \/ r.pc \in Registered
        /\ calls[c].pc \notin {"idle", "cleanup"}
    BY <1>4, <2>1 DEF AgentAborts, Registered, IInv, TypeOK, EntryIsLive
  <2> QED  BY <1>4, <2>1, <2>2, <2>3, CallMovesWithStatus
<1>5. CASE GiveUp(c)
  <2>1. PICK r \in CallRec, s \in Statuses :
          r.pc = "cleanup" /\ SetStatus(s, [calls EXCEPT ![c] = r]) /\ wait' \in {wait, WaitHears(wait)}
    <3> DEFINE r == [calls[c] EXCEPT !.pc = "cleanup", !.retry = 0, !.cont = FALSE, !.aborted = FALSE]
    <3>1. calls[c] \in CallRec  BY <1>5 DEF IInv, TypeOK, CallRec
    <3>2. r \in CallRec /\ r.pc = "cleanup"
      BY <1>5, <3>1 DEF CallRec, Phases, NewCall, IdleCall
    <3>3. PICK s \in Statuses :
            /\ SetStatus(s, Ending(c, "cleanup"))
            /\ wait' = wait \/ wait' = Heard(wait, s)
      BY <1>5 DEF GiveUp, Statuses
    <3>4. Ending(c, "cleanup") = [calls EXCEPT ![c] = r]
      BY <1>5, <3>1 DEF Ending, IInv, TypeOK, CallRec
    <3>5. wait' \in {wait, WaitHears(wait)}
      BY <1>5, <3>3, HeardTyped DEF IInv, TypeOK, WaitStates
    <3> QED  BY <1>5, <3>2, <3>3, <3>4, <3>5
  <2>2. lease' \in Nat /\ leaked' \in Nat /\ UNCHANGED timerVars
    BY <1>5 DEF GiveUp, IInv, TypeOK, slotVars
  <2>3. /\ entry' \in {entry, NoCall} \cup {d \in Calls : d = c /\ r.pc \in Registered}
        /\ entry = c => entry' # entry \/ r.pc \in Registered
        /\ calls[c].pc \notin {"idle", "cleanup"}
    BY <1>5, <2>1 DEF GiveUp, Registered, IInv, TypeOK, EntryIsLive
  <2> QED  BY <1>5, <2>1, <2>2, <2>3, CallMovesWithStatus
<1>6. CASE ReturnToBacklog(c)
  <2>1. PICK r \in CallRec, s \in Statuses :
          r.pc = "cleanup" /\ SetStatus(s, [calls EXCEPT ![c] = r]) /\ wait' \in {wait, WaitHears(wait)}
    <3> DEFINE r == [calls[c] EXCEPT !.pc = "cleanup", !.retry = 0, !.cont = FALSE, !.aborted = FALSE]
    <3>1. calls[c] \in CallRec  BY <1>6 DEF IInv, TypeOK, CallRec
    <3>2. r \in CallRec /\ r.pc = "cleanup"
      BY <1>6, <3>1 DEF CallRec, Phases, NewCall, IdleCall
    <3>3. PICK s \in Statuses :
            /\ SetStatus(s, Ending(c, "cleanup"))
            /\ wait' = wait \/ wait' = Heard(wait, s)
      BY <1>6 DEF ReturnToBacklog, Statuses
    <3>4. Ending(c, "cleanup") = [calls EXCEPT ![c] = r]
      BY <1>6, <3>1 DEF Ending, IInv, TypeOK, CallRec
    <3>5. wait' \in {wait, WaitHears(wait)}
      BY <1>6, <3>3, HeardTyped DEF IInv, TypeOK, WaitStates
    <3> QED  BY <1>6, <3>2, <3>3, <3>4, <3>5
  <2>2. lease' \in Nat /\ leaked' \in Nat /\ UNCHANGED timerVars
    BY <1>6 DEF ReturnToBacklog, IInv, TypeOK, slotVars
  <2>3. /\ entry' \in {entry, NoCall} \cup {d \in Calls : d = c /\ r.pc \in Registered}
        /\ entry = c => entry' # entry \/ r.pc \in Registered
        /\ calls[c].pc \notin {"idle", "cleanup"}
    BY <1>6, <2>1 DEF ReturnToBacklog, Registered, IInv, TypeOK, EntryIsLive
  <2> QED  BY <1>6, <2>1, <2>2, <2>3, CallMovesWithStatus
<1>7. CASE FollowUpBlocked(c)
  <2>1. PICK r \in CallRec, s \in Statuses :
          r.pc = "idle" /\ SetStatus(s, [calls EXCEPT ![c] = r]) /\ wait' \in {wait, WaitHears(wait)}
    <3> DEFINE r == IdleCall
    <3>1. calls[c] \in CallRec  BY <1>7 DEF IInv, TypeOK, CallRec
    <3>2. r \in CallRec /\ r.pc = "idle"
      BY <1>7, <3>1 DEF CallRec, Phases, NewCall, IdleCall
    <3>3. PICK s \in Statuses :
            /\ SetStatus(s, [calls EXCEPT ![c] = r])
            /\ wait' = wait \/ wait' = Heard(wait, s)
      BY <1>7 DEF FollowUpBlocked, Statuses
    <3>4. [calls EXCEPT ![c] = r] = [calls EXCEPT ![c] = r]
      BY <1>7, <3>1 DEF Ending, IInv, TypeOK, CallRec
    <3>5. wait' \in {wait, WaitHears(wait)}
      BY <1>7, <3>3, HeardTyped DEF IInv, TypeOK, WaitStates
    <3> QED  BY <1>7, <3>2, <3>3, <3>4, <3>5
  <2>2. lease' \in Nat /\ leaked' \in Nat /\ UNCHANGED timerVars
    BY <1>7 DEF FollowUpBlocked, IInv, TypeOK, slotVars
  <2>3. /\ entry' \in {entry, NoCall} \cup {d \in Calls : d = c /\ r.pc \in Registered}
        /\ entry = c => entry' # entry \/ r.pc \in Registered
        /\ calls[c].pc \notin {"idle", "cleanup"}
    BY <1>7, <2>1 DEF FollowUpBlocked, Registered, IInv, TypeOK, EntryIsLive
  <2> QED  BY <1>7, <2>1, <2>2, <2>3, CallMovesWithStatus
<1>8. CASE FollowUpStarts(c)
  <2>1. PICK r \in CallRec, s \in Statuses :
          r.pc = "following" /\ SetStatus(s, [calls EXCEPT ![c] = r]) /\ wait' \in {wait, WaitHears(wait)}
    <3> DEFINE r == NewCall("following", 0, 1, TRUE)
    <3>1. calls[c] \in CallRec  BY <1>8 DEF IInv, TypeOK, CallRec
    <3>2. r \in CallRec /\ r.pc = "following"
      BY <1>8, <3>1 DEF CallRec, Phases, NewCall, IdleCall
    <3>3. PICK s \in Statuses :
            /\ SetStatus(s, [calls EXCEPT ![c] = r])
            /\ wait' = wait \/ wait' = Heard(wait, s)
      BY <1>8 DEF FollowUpStarts, Statuses
    <3>4. [calls EXCEPT ![c] = r] = [calls EXCEPT ![c] = r]
      BY <1>8, <3>1 DEF Ending, IInv, TypeOK, CallRec
    <3>5. wait' \in {wait, WaitHears(wait)}
      BY <1>8, <3>3, HeardTyped DEF IInv, TypeOK, WaitStates
    <3> QED  BY <1>8, <3>2, <3>3, <3>4, <3>5
  <2>2. lease' \in Nat /\ leaked' \in Nat /\ UNCHANGED timerVars
    BY <1>8, LeaseTyped DEF FollowUpStarts, IInv, TypeOK, slotVars
  <2>3. /\ entry' \in {entry, NoCall} \cup {d \in Calls : d = c /\ r.pc \in Registered}
        /\ entry = c => entry' # entry \/ r.pc \in Registered
        /\ calls[c].pc \notin {"idle", "cleanup"}
    BY <1>8, <2>1 DEF FollowUpStarts, Registered, IInv, TypeOK, EntryIsLive
  <2> QED  BY <1>8, <2>1, <2>2, <2>3, CallMovesWithStatus
<1>9. CASE FollowUpSucceeds(c)
  <2>1. PICK r \in CallRec, s \in Statuses :
          r.pc = "followed" /\ SetStatus(s, [calls EXCEPT ![c] = r]) /\ wait' \in {wait, WaitHears(wait)}
    <3> DEFINE r == [calls[c] EXCEPT !.pc = "followed"]
    <3>1. calls[c] \in CallRec  BY <1>9 DEF IInv, TypeOK, CallRec
    <3>2. r \in CallRec /\ r.pc = "followed"
      BY <1>9, <3>1 DEF CallRec, Phases, NewCall, IdleCall
    <3>3. PICK s \in Statuses :
            /\ SetStatus(s, [calls EXCEPT ![c].pc = "followed"])
            /\ wait' = wait \/ wait' = Heard(wait, s)
      BY <1>9 DEF FollowUpSucceeds, Statuses
    <3>4. [calls EXCEPT ![c].pc = "followed"] = [calls EXCEPT ![c] = r]
      BY <1>9, <3>1 DEF Ending, IInv, TypeOK, CallRec
    <3>5. wait' \in {wait, WaitHears(wait)}
      BY <1>9, <3>3, HeardTyped DEF IInv, TypeOK, WaitStates
    <3> QED  BY <1>9, <3>2, <3>3, <3>4, <3>5
  <2>2. lease' \in Nat /\ leaked' \in Nat /\ UNCHANGED timerVars
    BY <1>9 DEF FollowUpSucceeds, IInv, TypeOK, slotVars
  <2>3. /\ entry' \in {entry, NoCall} \cup {d \in Calls : d = c /\ r.pc \in Registered}
        /\ entry = c => entry' # entry \/ r.pc \in Registered
        /\ calls[c].pc \notin {"idle", "cleanup"}
    BY <1>9, <2>1 DEF FollowUpSucceeds, Registered, IInv, TypeOK, EntryIsLive
  <2> QED  BY <1>9, <2>1, <2>2, <2>3, CallMovesWithStatus
<1> QED  BY <1>1, <1>2, <1>3, <1>4, <1>5, <1>6, <1>7, <1>8, <1>9

\* The starts of a call: an execution, a resume and a follow-up.
LEMMA StartsSafe ==
  ASSUME IInv, NEW c \in Calls, Starts(c)
  PROVE  IInv' /\ WaitStep
<1>1. CASE Execute(c) \/ PipelineExecutes(c)  BY <1>1, ExecuteSafe
<1>2. CASE ResumeFeature(c) \/ FollowUp(c)
  <2>1. PICK r \in CallRec : calls' = [calls EXCEPT ![c] = r] /\ r.pc \in {"resuming", "checking"}
    <3>1. CASE ResumeFeature(c)
      <4>1. PICK cont \in BOOLEAN :
              calls' = [calls EXCEPT ![c] = NewCall("resuming", 0, 0, cont)]
        BY <3>1 DEF ResumeFeature
      <4>2. NewCall("resuming", 0, 0, cont) \in CallRec
            /\ NewCall("resuming", 0, 0, cont).pc = "resuming"
        BY DEF NewCall, CallRec, Phases
      <4> QED  BY <4>1, <4>2
    <3>2. CASE FollowUp(c)
      <4>1. NewCall("checking", 0, 0, FALSE) \in CallRec
            /\ NewCall("checking", 0, 0, FALSE).pc = "checking"
        BY DEF NewCall, CallRec, Phases
      <4> QED  BY <3>2, <4>1 DEF FollowUp
    <3> QED  BY <1>2, <3>1, <3>2
  <2>2. /\ due[c] = NoTimer /\ calls[c].pc = "idle" /\ (c = Waiter => wait = "none")
        /\ entry = NoCall
        /\ UNCHANGED <<status, lease, leaked, entry, timerVars, stops, wait>>
    BY <1>2 DEF ResumeFeature, FollowUp, Free, slotVars
  <2>3. lease' \in Nat /\ leaked' \in Nat /\ status' \in Statuses /\ c # NoCall
    BY <2>2 DEF IInv, TypeOK
  <2> QED  BY <2>1, <2>2, <2>3, CallMovesTo DEF IInv, TypeOK
<1> QED  BY <1>1, <1>2 DEF Starts

\* A retry: the call that schedules it and the timer that fires.
LEMMA TimersSafe ==
  ASSUME IInv, NEW c \in Calls, ScheduleRetry(c) \/ BackOff(c) \/ TimerFires(c)
  PROVE  IInv' /\ WaitStep
<1>1. calls \in [Calls -> CallRec] /\ due \in [Calls -> DueRec] /\ NoTimer \in DueRec
  BY DEF IInv, TypeOK, NoTimer, DueRec
<1>2. CASE ScheduleRetry(c) \/ BackOff(c)
  <2> DEFINE cs == Ending(c, "cleanup")
  <2>1. /\ cs \in [Calls -> CallRec] /\ cs[c].pc = "cleanup"
        /\ \A d \in Calls \ {c} : cs[d] = calls[d]
    BY <1>1, EndingTyped DEF Phases
  <2>2. calls' = cs /\ calls[c].pc = "failing"  BY <1>2 DEF ScheduleRetry, BackOff
  <2> HIDE DEF cs
  <2>3. PICK t \in DueRec : /\ due' = [due EXCEPT ![c] = t]
                            /\ \/ handle' \in {c} /\ t.kind \in {"timer", "backlog"}
                               \/ handle' = handle
    <3>1. CASE BackOff(c)
      <4> DEFINE t == [kind |-> "backlog", retry |-> 0]
      <4>1. t \in DueRec /\ t.kind = "backlog"  BY DEF DueRec
      <4>2. due' = [due EXCEPT ![c] = t] /\ handle' = c  BY <3>1 DEF BackOff
      <4> QED  BY <4>1, <4>2
    <3>2. CASE ScheduleRetry(c)
      <4>1. PICK failure \in {"loop", "turns", "transient"} :
              /\ due' = [due EXCEPT ![c] =
                   [kind |-> IF failure = "transient" THEN "now" ELSE "timer",
                    retry |-> calls[c].retry + 1]]
              /\ handle' = IF failure = "transient" THEN handle ELSE c
        BY <3>2 DEF ScheduleRetry
      <4>2. calls[c].retry + 1 \in Nat  BY <1>1 DEF CallRec
      <4>3. CASE failure = "transient"
        <5>1. [kind |-> "now", retry |-> calls[c].retry + 1] \in DueRec
          BY <4>2 DEF DueRec
        <5> QED  BY <4>1, <4>3, <5>1
      <4>4. CASE failure # "transient"
        <5> DEFINE t == [kind |-> "timer", retry |-> calls[c].retry + 1]
        <5>1. t \in DueRec /\ t.kind = "timer"
          BY <4>2 DEF DueRec
        <5>2. due' = [due EXCEPT ![c] = t] /\ handle' = c  BY <4>1, <4>4
        <5> QED  BY <5>1, <5>2
      <4> QED  BY <4>3, <4>4
    <3> QED  BY <1>2, <3>1, <3>2
  <2>4. due[c] = NoTimer  BY <2>2 DEF IInv, OwnTimer
  <2>5. TypeOK'
    BY <1>2, <2>1, <2>2, <2>3 DEF ScheduleRetry, BackOff, IInv, TypeOK, slotVars
  <2>6. EntryIsLive'
    BY <1>2, <2>1, <2>2 DEF ScheduleRetry, BackOff, IInv, TypeOK, EntryIsLive, Registered
  <2>7. HandleIsLive'
    BY <1>1, <2>3, <2>4 DEF IInv, TypeOK, HandleIsLive, NoTimer
  <2>8. OwnTimer'  BY <1>1, <2>1, <2>2, <2>3 DEF IInv, OwnTimer
  <2>9. SettledIsIdle' /\ WaitStep
    BY <1>2, <2>1, <2>2 DEF ScheduleRetry, BackOff, IInv, SettledIsIdle, WaitStep
  <2> QED  BY <2>5, <2>6, <2>7, <2>8, <2>9 DEF IInv
<1>3. CASE RetryRefused(c)
  <2>1. TypeOK'  BY <1>1, <1>3 DEF RetryRefused, IInv, TypeOK, slotVars
  <2>2. HandleIsLive'
    BY <1>1, <1>3 DEF RetryRefused, IInv, TypeOK, HandleIsLive
  <2>3. EntryIsLive' /\ OwnTimer' /\ SettledIsIdle' /\ WaitStep
    BY <1>1, <1>3 DEF RetryRefused, IInv, EntryIsLive, OwnTimer, SettledIsIdle, WaitStep
  <2> QED  BY <2>1, <2>2, <2>3 DEF IInv
<1>4. ASSUME NEW d \in Calls, RetryStarts(c, d)
      PROVE  IInv' /\ WaitStep
  <2> DEFINE r == NewCall("loading", due[c].retry, 0, FALSE)
  <2>1. r \in CallRec /\ r.pc = "loading"
    <3>1. due[c].retry \in Nat  BY <1>1 DEF DueRec
    <3> QED  BY <3>1 DEF NewCall, CallRec, Phases
  <2>2. /\ calls' = [calls EXCEPT ![d] = r] /\ entry' = d
        /\ due' = [due EXCEPT ![c] = NoTimer]
        /\ handle' = IF due[c].kind = "timer" THEN NoCall ELSE handle
        /\ due[c].kind \in {"now", "timer"}
        /\ d = c \/ due[d] = NoTimer
        /\ d = Waiter => wait = "none"
        /\ UNCHANGED <<status, lease, leaked, stops, wait>>
    BY <1>4 DEF RetryStarts, slotVars
  <2> HIDE DEF r
  <2>3. calls' \in [Calls -> CallRec] /\ calls'[d].pc = "loading"
        /\ \A x \in Calls \ {d} : calls'[x] = calls[x]
    BY <1>1, <2>1, <2>2
  <2>4. TypeOK'  BY <1>1, <2>2, <2>3 DEF IInv, TypeOK
  <2>5. EntryIsLive'  BY <2>2, <2>3 DEF EntryIsLive, Registered
  <2>6. HandleIsLive'  BY <1>1, <2>2 DEF IInv, TypeOK, HandleIsLive
  <2>7. OwnTimer'  BY <1>1, <2>2, <2>3 DEF IInv, OwnTimer
  <2>8. SettledIsIdle' /\ WaitStep  BY <2>2, <2>3 DEF IInv, SettledIsIdle, WaitStep
  <2> QED  BY <2>4, <2>5, <2>6, <2>7, <2>8 DEF IInv
<1>5. CASE BackoffEnds(c)
  <2>1. /\ status' \in Statuses /\ stops' \in 0..MaxStops
        /\ calls' \in [Calls -> CallRec] /\ \A d \in Calls : calls'[d].pc = calls[d].pc
    BY <1>1, <1>5, SetStatusSafe DEF BackoffEnds, IInv, Statuses
  <2>2. TypeOK'  BY <1>1, <1>5, <2>1 DEF BackoffEnds, IInv, TypeOK, slotVars
  <2>3. EntryIsLive'  BY <1>5, <2>1 DEF BackoffEnds, IInv, TypeOK, EntryIsLive
  <2>4. HandleIsLive'  BY <1>5 DEF BackoffEnds, HandleIsLive
  <2>5. OwnTimer'  BY <1>1, <1>5, <2>1 DEF BackoffEnds, IInv, OwnTimer
  <2>6. SettledIsIdle' /\ WaitStep  BY <1>5, <2>1 DEF BackoffEnds, IInv, SettledIsIdle, WaitStep
  <2> QED  BY <2>2, <2>3, <2>4, <2>5, <2>6 DEF IInv
<1> QED  BY <1>2, <1>3, <1>4, <1>5 DEF TimerFires

\* Stops, the sweep, the board and the server.
LEMMA EnvironmentSafe ==
  ASSUME IInv, \/ StopFeature \/ StopFinishes \/ ClearRetryTimers \/ WaitTimesOut \/ RepairStale
               \/ ReleaseStaleLease \/ BoardMoves \/ Restart
  PROVE  IInv' /\ WaitStep
<1>1. calls \in [Calls -> CallRec] /\ due \in [Calls -> DueRec] /\ NoTimer \in DueRec
  BY DEF IInv, TypeOK, NoTimer, DueRec
<1>2. CASE StopFeature
  <2>1. entry \in Calls /\ calls' = [calls EXCEPT ![entry] = [calls[entry] EXCEPT !.aborted = TRUE]]
    BY <1>2 DEF StopFeature, Aborted, IInv, TypeOK
  <2>2. [calls[entry] EXCEPT !.aborted = TRUE] \in CallRec  BY <1>1, <2>1 DEF CallRec
  <2>3. calls' \in [Calls -> CallRec]  BY <1>1, <2>1, <2>2
  <2>4. \A c \in Calls : calls'[c].pc = calls[c].pc  BY <1>1, <2>1 DEF CallRec
  <2>5. stops' \in 0..MaxStops  BY <1>2 DEF StopFeature, IInv, TypeOK
  <2>6. TypeOK'  BY <1>2, <2>3, <2>5 DEF StopFeature, IInv, TypeOK, slotVars, timerVars
  <2>7. EntryIsLive' /\ HandleIsLive' /\ OwnTimer' /\ SettledIsIdle' /\ WaitStep
    BY <1>2, <2>4 DEF StopFeature, IInv, TypeOK, EntryIsLive, HandleIsLive, OwnTimer,
                      SettledIsIdle, WaitStep, timerVars
  <2> QED  BY <2>6, <2>7 DEF IInv
<1>3. CASE StopFinishes
  <2>1. lease' \in Nat /\ leaked' \in Nat
    BY <1>3, LeaseTyped, ReleasedTyped DEF StopFinishes, IInv, TypeOK
  <2>2. due' \in [Calls -> DueRec]
        /\ \A c \in Calls : due'[c] = NoTimer \/ due'[c] = due[c]
    BY <1>1, <1>3 DEF StopFinishes
  <2>3. TypeOK'  BY <1>3, <2>1, <2>2 DEF StopFinishes, IInv, TypeOK, Statuses
  <2>4. EntryIsLive' /\ HandleIsLive' /\ OwnTimer' /\ SettledIsIdle' /\ WaitStep
    BY <1>3, <2>2 DEF StopFinishes, IInv, EntryIsLive, HandleIsLive, OwnTimer, SettledIsIdle, WaitStep
  <2> QED  BY <2>3, <2>4 DEF IInv
<1>4. CASE WaitTimesOut \/ RepairStale \/ ReleaseStaleLease
  <2>1. wait' \in WaitStates /\ (wait' \in {"settled", "none"} => wait \in {wait', "settled"})
    BY <1>4, WaitHearsTyped
    DEF WaitTimesOut, RepairStale, ReleaseStaleLease, IInv, TypeOK, WaitStates
  <2>2. lease' \in Nat /\ leaked' \in Nat
    BY <1>4, LeaseTyped
    DEF WaitTimesOut, RepairStale, ReleaseStaleLease, IInv, TypeOK, slotVars
  <2>3. UNCHANGED <<entry, calls, timerVars, stops>> /\ status' \in Statuses
    BY <1>4
    DEF WaitTimesOut, RepairStale, ReleaseStaleLease, IInv, TypeOK, Statuses
  <2>4. TypeOK'
    BY <2>1, <2>2, <2>3 DEF IInv, TypeOK, WaitStates, timerVars
  <2>5. EntryIsLive' /\ HandleIsLive' /\ OwnTimer' /\ SettledIsIdle' /\ WaitStep
    BY <2>1, <2>3 DEF IInv, EntryIsLive, HandleIsLive, OwnTimer, SettledIsIdle, WaitStep, timerVars
  <2> QED  BY <2>4, <2>5 DEF IInv
<1>5. CASE BoardMoves
  <2>1. PICK s \in Statuses : SetStatus(s, calls) /\ wait' = Heard(wait, s)
    BY <1>5 DEF BoardMoves, Statuses
  <2>2. /\ status' \in Statuses /\ stops' \in 0..MaxStops
        /\ calls' \in [Calls -> CallRec] /\ \A d \in Calls : calls'[d].pc = calls[d].pc
    BY <1>1, <2>1, SetStatusSafe DEF IInv
  <2>3. wait' \in WaitStates /\ (wait' \in {"settled", "none"} => wait \in {wait', "settled"})
    BY <2>1, HeardTyped DEF IInv, TypeOK, WaitStates
  <2>4. TypeOK'
    BY <1>5, <2>2, <2>3 DEF BoardMoves, IInv, TypeOK, WaitStates, timerVars, slotVars
  <2>5. EntryIsLive' /\ HandleIsLive' /\ OwnTimer' /\ SettledIsIdle' /\ WaitStep
    BY <1>5, <2>2, <2>3
    DEF BoardMoves, IInv, TypeOK, EntryIsLive, HandleIsLive, OwnTimer, SettledIsIdle, WaitStep, timerVars
  <2> QED  BY <2>4, <2>5 DEF IInv
<1>6. CASE Restart
  <2>1. status' \in Statuses  BY <1>6 DEF Restart, IInv, TypeOK, Statuses
  <2>2. IdleCall \in CallRec /\ IdleCall.pc = "idle"
    BY DEF IdleCall, NewCall, CallRec, Phases
  <2>3. calls' \in [Calls -> CallRec] /\ \A c \in Calls : calls'[c].pc = "idle"
    BY <1>6, <2>2 DEF Restart
  <2>4. TypeOK'  BY <1>1, <1>6, <2>1, <2>3 DEF Restart, TypeOK
  <2>5. EntryIsLive' /\ HandleIsLive' /\ OwnTimer' /\ SettledIsIdle' /\ WaitStep
    BY <1>6, <2>3 DEF Restart, EntryIsLive, HandleIsLive, OwnTimer, SettledIsIdle, WaitStep
  <2> QED  BY <2>4, <2>5 DEF IInv
<1>7. CASE ClearRetryTimers
  <2>1. due' \in [Calls -> DueRec]
        /\ \A c \in Calls : due'[c] = NoTimer \/ due'[c] = due[c]
    BY <1>1, <1>7 DEF ClearRetryTimers
  <2>2. TypeOK'  BY <1>7, <2>1 DEF ClearRetryTimers, IInv, TypeOK, slotVars
  <2>3. EntryIsLive' /\ HandleIsLive' /\ OwnTimer' /\ SettledIsIdle' /\ WaitStep
    BY <1>7, <2>1 DEF ClearRetryTimers, IInv, EntryIsLive, HandleIsLive, OwnTimer, SettledIsIdle,
                      WaitStep
  <2> QED  BY <2>2, <2>3 DEF IInv
<1> QED  BY <1>2, <1>3, <1>4, <1>5, <1>6, <1>7

\* Every step keeps the invariant, and ends a wait only with the run it was for.
THEOREM NextInv == IInv /\ [Next]_vars => IInv' /\ WaitStep
<1> SUFFICES ASSUME IInv, [Next]_vars PROVE IInv' /\ WaitStep
  OBVIOUS
<1>1. ASSUME NEW c \in Calls, Starts(c) PROVE IInv' /\ WaitStep  BY <1>1, StartsSafe
<1>2. ASSUME NEW c \in Calls, CallGoesOn(c) PROVE IInv' /\ WaitStep
  BY <1>2, RecordStepsSafe, StatusStepsSafe, TimersSafe DEF CallGoesOn, Agent
<1>3. ASSUME NEW c \in Calls, TimerFires(c) PROVE IInv' /\ WaitStep  BY <1>3, TimersSafe
<1>4. CASE UNCHANGED vars
  BY <1>4 DEF vars, slotVars, timerVars, IInv, TypeOK, EntryIsLive, HandleIsLive, OwnTimer,
              SettledIsIdle, WaitStep
<1> QED  BY <1>1, <1>2, <1>3, <1>4, EnvironmentSafe DEF Next

\* The invariant holds in every behaviour of the executions.
THEOREM Invariance == Spec => []IInv
BY InitInv, NextInv, PTL DEF Spec

\* The types hold for any number of calls and any limits.
THEOREM TypeCorrect == Spec => []TypeOK
<1>1. IInv => TypeOK  BY DEF IInv
<1> QED  BY <1>1, Invariance, PTL

\* The runningFeatures entry is always the entry of a run that will remove it.
THEOREM EntriesAreLive == Spec => []EntryIsLive
<1>1. IInv => EntryIsLive  BY DEF IInv
<1> QED  BY <1>1, Invariance, PTL

\* A timer in retryTimers is always one that will fire.
THEOREM HandlesAreLive == Spec => []HandleIsLive
<1>1. IInv => HandleIsLive  BY DEF IInv
<1> QED  BY <1>1, Invariance, PTL

\* waitForCompletion() never returns before the run it waits for has released its lease.
THEOREM WaitsOutlastRuns == Spec => WaitOutlastsRun
<1>1. IInv /\ [Next]_vars => [wait # "none" /\ wait' = "none" => calls'[Waiter].pc = "idle"]_vars
  BY NextInv DEF WaitStep
<1> QED  BY <1>1, Invariance, PTL DEF Spec, WaitOutlastsRun

-----------------------------------------------------------------------------
(* Every call comes to its end.                                             *)

\* A status update leaves every call where it is, but for its own step.
LEMMA SetStatusKeepsPlace ==
  ASSUME NEW s \in Statuses, NEW cs \in [Calls -> CallRec], TypeOK, SetStatus(s, cs)
  PROVE  \A c \in Calls : toGo(calls'[c]) = toGo(cs[c])
<1>1. CASE StopsDone(s)
  <2>1. entry \in Calls  BY <1>1 DEF StopsDone, TypeOK
  <2>2. calls' = [cs EXCEPT ![entry] = [cs[entry] EXCEPT !.aborted = TRUE]]
    BY <1>1, <2>1 DEF SetStatus, Aborted
  <2>3. \A c \in Calls : calls'[c].pc = cs[c].pc /\ calls'[c].cont = cs[c].cont
    BY <2>1, <2>2 DEF CallRec
  <2> QED  BY <2>3 DEF toGo
<1>2. CASE ~StopsDone(s)  BY <1>2 DEF SetStatus
<1> QED  BY <1>1, <1>2

\* A call that ends has one place left, and what it ended from had more.
LEMMA EndingIsNear ==
  ASSUME TypeOK, NEW c \in Calls, NEW pc \in {"cleanup", "unwinding"},
         calls[c].pc \in {"loading", "preparing", "agent", "failing"}
  PROVE  /\ Ending(c, pc) \in [Calls -> CallRec]
         /\ toGo(Ending(c, pc)[c]) < toGo(calls[c])
         /\ \A d \in Calls \ {c} : Ending(c, pc)[d] = calls[d]
<1>1. pc \in Phases /\ calls[c] \in CallRec  BY DEF TypeOK, Phases
<1>2. /\ Ending(c, pc) \in [Calls -> CallRec] /\ Ending(c, pc)[c].pc = pc
      /\ \A d \in Calls \ {c} : Ending(c, pc)[d] = calls[d]
  BY <1>1, EndingTyped DEF TypeOK
<1>3. toGo(Ending(c, pc)[c]) = 1  BY <1>1, <1>2 DEF toGo, place, Phases
<1>4. toGo(calls[c]) > 1  BY <1>1 DEF toGo, place, Phases
<1> QED  BY <1>2, <1>3, <1>4

\* The way of a call is a number of places, and a call in flight has some of it left.
LEMMA WayOfRecord ==
  ASSUME NEW r \in CallRec
  PROVE  toGo(r) \in Nat /\ (r.pc # "idle" => toGo(r) > 0)
<1>1. place[r.pc] \in Nat /\ (r.pc # "idle" => place[r.pc] > 0)
  <2>1. r.pc \in Phases  BY DEF CallRec
  <2>2. CASE r.pc \in {"idle", "cleanup", "unwinding", "followed"}  BY <2>1, <2>2 DEF place, Phases
  <2>3. CASE r.pc \in {"failing", "following", "agent", "checking"}  BY <2>1, <2>3 DEF place, Phases
  <2>4. CASE r.pc \in {"preparing", "loading", "resuming"}  BY <2>1, <2>4 DEF place, Phases
  <2> QED  BY <2>1, <2>2, <2>3, <2>4 DEF Phases
<1> QED  BY <1>1 DEF toGo

\* So for the calls of a state.
LEMMA ToGoTyped ==
  ASSUME TypeOK, NEW c \in Calls
  PROVE  toGo(calls[c]) \in Nat /\ (calls[c].pc # "idle" => toGo(calls[c]) > 0)
<1>1. calls[c] \in CallRec  BY DEF TypeOK
<1> QED  BY <1>1, WayOfRecord

\* Where the steps of a call lead: c becomes r, which is nearer to the end.
LEMMA PlacesOfSteps ==
  ASSUME TypeOK, NEW c \in Calls, CallGoesOn(c)
  PROVE  /\ toGo(calls'[c]) < toGo(calls[c])
         /\ \A d \in Calls \ {c} : toGo(calls'[d]) = toGo(calls[d])
<1> USE DEF TypeOK
<1>1. calls[c] \in CallRec  OBVIOUS
<1>2. CASE RefuseTerminal(c) \/ AuthorityDenies(c) \/ ScheduleRetry(c) \/ BackOff(c)
  BY <1>2, EndingIsNear DEF RefuseTerminal, AuthorityDenies, ScheduleRetry, BackOff
<1>3. CASE PrepareFails(c) \/ AgentSucceeds(c) \/ AgentAborts(c) \/ GiveUp(c)
           \/ ReturnToBacklog(c)
  <2>1. PICK s \in Statuses, pc \in {"cleanup", "unwinding"} :
          /\ SetStatus(s, Ending(c, pc))
          /\ calls[c].pc \in {"loading", "preparing", "agent", "failing"}
    BY <1>3 DEF PrepareFails, AgentSucceeds, AgentAborts, GiveUp, ReturnToBacklog, Statuses
  <2>2. \A d \in Calls : toGo(calls'[d]) = toGo(Ending(c, pc)[d])
    BY <2>1, EndingIsNear, SetStatusKeepsPlace
  <2> QED  BY <2>1, <2>2, EndingIsNear
<1>4. CASE ContinuePlan(c) \/ Load(c) \/ DelegateToResume(c) \/ AgentFails(c) \/ Cleanup(c)
           \/ ResumeRefused(c) \/ ResumeContinues(c) \/ FollowUpFails(c) \/ FollowUpReturns(c)
  <2>1. \A d \in Calls \ {c} : calls'[d] = calls[d]
    BY <1>4 DEF ContinuePlan, Load, DelegateToResume, AgentFails, Cleanup, ResumeRefused,
                ResumeContinues, FollowUpFails, FollowUpReturns
  <2>2. CASE ContinuePlan(c)
    BY <2>2, <1>1 DEF ContinuePlan, NewCall, CallRec, toGo, place, Phases
  <2>3. CASE Load(c)
    BY <2>3, <1>1 DEF Load, CallRec, toGo, place, Phases
  <2>4. CASE DelegateToResume(c)
    BY <2>4, <1>1 DEF DelegateToResume, CallRec, toGo, place, Phases
  <2>5. CASE AgentFails(c) \/ FollowUpFails(c)
    BY <2>5, <1>1 DEF AgentFails, FollowUpFails, CallRec, toGo, place, Phases
  <2>6. CASE Cleanup(c) \/ ResumeRefused(c) \/ FollowUpReturns(c)
    <3>1. calls'[c] = IdleCall
      BY <2>6 DEF Cleanup, ResumeRefused, FollowUpReturns
    <3>2. toGo(IdleCall) = 0  BY DEF IdleCall, NewCall, toGo, place, Phases
    <3>3. calls[c].pc # "idle"
      BY <2>6 DEF Cleanup, ResumeRefused, FollowUpReturns
    <3>4. toGo(calls[c]) > 0  BY <3>3, ToGoTyped
    <3> QED  BY <2>1, <3>1, <3>2, <3>4
  <2>7. CASE ResumeContinues(c)
    BY <2>7, <1>1 DEF ResumeContinues, CallRec, toGo, place, Phases
  <2> QED  BY <1>4, <2>1, <2>2, <2>3, <2>4, <2>5, <2>6, <2>7
<1>5. CASE StartAgent(c) \/ FollowUpBlocked(c) \/ FollowUpStarts(c) \/ FollowUpSucceeds(c)
  <2>1. PICK s \in Statuses, r \in CallRec :
          /\ SetStatus(s, [calls EXCEPT ![c] = r])
          /\ toGo(r) < toGo(calls[c])
    <3>1. CASE StartAgent(c)
      <4> DEFINE r == [calls[c] EXCEPT !.pc = "agent"]
      <4>1. r \in CallRec /\ [calls EXCEPT ![c].pc = "agent"] = [calls EXCEPT ![c] = r]
        BY <1>1 DEF CallRec, Phases
      <4>2. toGo(r) < toGo(calls[c])
        BY <3>1, <1>1 DEF StartAgent, CallRec, toGo, place, Phases
      <4> QED  BY <3>1, <4>1, <4>2 DEF StartAgent, Statuses
    <3>2. CASE FollowUpSucceeds(c)
      <4> DEFINE r == [calls[c] EXCEPT !.pc = "followed"]
      <4>1. r \in CallRec /\ [calls EXCEPT ![c].pc = "followed"] = [calls EXCEPT ![c] = r]
        BY <1>1 DEF CallRec, Phases
      <4>2. toGo(r) < toGo(calls[c])
        BY <3>2, <1>1 DEF FollowUpSucceeds, CallRec, toGo, place, Phases
      <4> QED  BY <3>2, <4>1, <4>2 DEF FollowUpSucceeds, Statuses
    <3>3. CASE FollowUpBlocked(c)
      <4>1. IdleCall \in CallRec  BY DEF IdleCall, NewCall, CallRec, Phases
      <4>2. toGo(IdleCall) < toGo(calls[c])
        BY <3>3, <1>1 DEF FollowUpBlocked, IdleCall, NewCall, toGo, place, Phases
      <4> QED  BY <3>3, <4>1, <4>2 DEF FollowUpBlocked, Statuses
    <3>4. CASE FollowUpStarts(c)
      <4> DEFINE r == NewCall("following", 0, 1, TRUE)
      <4>1. r \in CallRec  BY DEF NewCall, CallRec, Phases
      <4>2. toGo(r) < toGo(calls[c])
        BY <3>4, <1>1 DEF FollowUpStarts, NewCall, toGo, place, Phases
      <4> QED  BY <3>4, <4>1, <4>2 DEF FollowUpStarts, Statuses
    <3> QED  BY <1>5, <3>1, <3>2, <3>3, <3>4
  <2> DEFINE cs == [calls EXCEPT ![c] = r]
  <2>2. cs \in [Calls -> CallRec] /\ cs[c] = r /\ \A d \in Calls \ {c} : cs[d] = calls[d]
    OBVIOUS
  <2>3. \A d \in Calls : toGo(calls'[d]) = toGo(cs[d])
    BY <2>1, <2>2, SetStatusKeepsPlace
  <2> QED  BY <2>1, <2>2, <2>3
<1> QED  BY <1>2, <1>3, <1>4, <1>5 DEF CallGoesOn, Agent

\* What others do leaves a call that is in flight where it is, or ends it.
LEMMA OthersKeepPlace ==
  ASSUME TypeOK, NEW c \in Calls, calls[c].pc # "idle",
         \/ \E d \in Calls : Starts(d) \/ TimerFires(d)
         \/ StopFeature \/ StopFinishes \/ ClearRetryTimers \/ WaitTimesOut \/ RepairStale
         \/ ReleaseStaleLease \/ BoardMoves \/ Restart
  PROVE  toGo(calls'[c]) <= toGo(calls[c])
<1> USE DEF TypeOK
<1>1. toGo(calls[c]) \in Nat  BY ToGoTyped
<1>2. CASE calls'[c] = calls[c]  BY <1>1, <1>2
<1>3. CASE \E d \in Calls : Starts(d)
  <2>1. calls'[c] = calls[c]
    BY <1>3 DEF Starts, Execute, PipelineExecutes, ExecuteFeature, ResumeFeature, FollowUp, Free
  <2> QED  BY <2>1, <1>2
<1>4. ASSUME NEW d \in Calls, TimerFires(d)
      PROVE  toGo(calls'[c]) <= toGo(calls[c])
  <2>1. CASE BackoffEnds(d)
    <3>1. toGo(calls'[c]) = toGo(calls[c])
      BY <2>1, SetStatusKeepsPlace DEF BackoffEnds, Statuses
    <3> QED  BY <1>1, <3>1
  <2>2. CASE RetryRefused(d) \/ \E e \in Calls : RetryStarts(d, e)
    <3>1. calls'[c] = calls[c]  BY <2>2 DEF RetryRefused, RetryStarts
    <3> QED  BY <3>1, <1>2
  <2> QED  BY <1>4, <2>1, <2>2 DEF TimerFires
<1>5. CASE StopFeature
  <2>1. calls'[c].pc = calls[c].pc /\ calls'[c].cont = calls[c].cont
    BY <1>5 DEF StopFeature, Aborted, CallRec
  <2>2. toGo(calls'[c]) = toGo(calls[c])  BY <2>1 DEF toGo
  <2> QED  BY <1>1, <2>2
<1>6. CASE BoardMoves
  <2>1. toGo(calls'[c]) = toGo(calls[c])
    BY <1>6, SetStatusKeepsPlace DEF BoardMoves, Statuses
  <2> QED  BY <1>1, <2>1
<1>7. CASE Restart
  <2>1. toGo(calls'[c]) = 0  BY <1>7 DEF Restart, IdleCall, NewCall, toGo, place, Phases
  <2> QED  BY <1>1, <2>1
<1>8. CASE StopFinishes \/ ClearRetryTimers \/ WaitTimesOut \/ RepairStale \/ ReleaseStaleLease
  <2>1. calls'[c] = calls[c]
    BY <1>8 DEF StopFinishes, ClearRetryTimers, WaitTimesOut, RepairStale, ReleaseStaleLease
  <2> QED  BY <2>1, <1>2
<1> QED  BY <1>3, <1>4, <1>5, <1>6, <1>7, <1>8

\* Every call winds down: no step, its own or another's, sends it round again.
THEOREM CallsEnd == Spec => CallNearsItsEnd
<1> DEFINE Way == \A c \in Calls :
             /\ CallGoesOn(c) => toGo(calls'[c]) < toGo(calls[c])
             /\ calls[c].pc # "idle" => toGo(calls'[c]) <= toGo(calls[c])
<1>1. TypeOK /\ TypeOK' /\ [Next]_vars => Way
  <2> SUFFICES ASSUME TypeOK, TypeOK', [Next]_vars, NEW c \in Calls
               PROVE  /\ CallGoesOn(c) => toGo(calls'[c]) < toGo(calls[c])
                      /\ calls[c].pc # "idle" => toGo(calls'[c]) <= toGo(calls[c])
    OBVIOUS
  <2>1. CallGoesOn(c) => toGo(calls'[c]) < toGo(calls[c])  BY PlacesOfSteps
  <2>2. ASSUME calls[c].pc # "idle"  PROVE toGo(calls'[c]) <= toGo(calls[c])
    <3>1. toGo(calls[c]) \in Nat /\ toGo(calls'[c]) \in Nat
      BY WayOfRecord DEF TypeOK
    <3>2. ASSUME NEW d \in Calls, CallGoesOn(d)  PROVE toGo(calls'[c]) <= toGo(calls[c])
      BY <3>1, <3>2, PlacesOfSteps
    <3>3. CASE UNCHANGED vars  BY <3>1, <3>3 DEF vars
    <3> QED  BY <2>2, <3>2, <3>3, OthersKeepPlace DEF Next
  <2> QED  BY <2>1, <2>2
<1>2. Spec => [][Way]_vars  BY <1>1, TypeCorrect, PTL DEF Spec
<1> QED  BY <1>2 DEF CallNearsItsEnd
=============================================================================
