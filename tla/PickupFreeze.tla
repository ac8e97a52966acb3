--------------------------- MODULE PickupFreeze ---------------------------
(***************************************************************************)
(* The freeze of feature pickup: the merge records of ErrorBudgetService,  *)
(* its exhausted and recovered events, the handlers AutoModeCoordinator    *)
(* has for them and the check the auto loops make before they pick up a    *)
(* feature.  The handler of an exhausted budget awaits the settings, that  *)
(* of a recovered one does not.                                            *)
(***************************************************************************)
EXTENDS Naturals, Sequences, FiniteSets

CONSTANTS
  Features,
  Loops,        \* the auto loops that share the freeze
  MaxRecords,   \* bound: merge records in the window
  MaxHandlers   \* bound: exhausted events being handled

ASSUME FreezeAssumption == MaxRecords \in Nat /\ MaxHandlers \in Nat

VARIABLES
  records,     \* the records of error-budget.json that are in the window, by age
  exhausted,   \* _isExhaustedState
  reading,     \* exhausted handlers that read the settings
  freezing,    \* exhausted handlers that found the freeze enabled
  frozen,      \* _pickupFrozen
  autoFreeze,  \* the setting errorBudgetAutoFreeze
  chosen,      \* loops past their check, about to start a feature
  open,        \* features an agent works on or a pull request is open for
  optedOut,    \* history: since the latest exhaustion a handler read a setting that
               \* disables the freeze
  overtaken,   \* history: the latest recovery found handlers of an exhaustion at work
  late         \* history: features each loop started since the freeze

handlerVars == <<reading, freezing, optedOut>>
freezeVars  == <<frozen, overtaken, late>>
loopVars    == <<chosen, open>>
vars == <<records, exhausted, handlerVars, freezeVars, autoFreeze, loopVars>>

Record == [feature : Features, failedCi : BOOLEAN]
NotLate == [l \in Loops |-> 0]

TypeOK ==
  /\ records \in Seq(Record) /\ Len(records) <= MaxRecords
  /\ exhausted \in BOOLEAN
  /\ reading \in Nat /\ freezing \in Nat /\ reading + freezing <= MaxHandlers
  /\ frozen \in BOOLEAN
  /\ autoFreeze \in BOOLEAN
  /\ chosen \subseteq Loops
  /\ open \subseteq Features
  /\ optedOut \in BOOLEAN
  /\ overtaken \in BOOLEAN
  /\ late \in [Loops -> Nat]

Init ==
  /\ records = <<>>
  /\ exhausted = FALSE
  /\ reading = 0 /\ freezing = 0 /\ optedOut = FALSE
  /\ frozen = FALSE /\ overtaken = FALSE /\ late = NotLate
  /\ autoFreeze \in BOOLEAN
  /\ chosen = {} /\ open = {}

-----------------------------------------------------------------------------
(* ErrorBudgetService.                                                      *)

Failed(r) == Cardinality({i \in DOMAIN r : r[i].failedCi})

\* failRate >= EXHAUSTION_BURN_RATE and failRate < RECOVERY_BURN_RATE; it is 0 without
\* records.
AllFailed(r) == r # <<>> /\ Failed(r) = Len(r)
Healthy(r)   == r = <<>> \/ 5 * Failed(r) < 4 * Len(r)

\* Faulty EmitExhausted: the coordinator has subscribed twice.
EmitToTwoListeners ==
  /\ reading + freezing < MaxHandlers
  /\ exhausted' = TRUE
  /\ reading' = reading + 2 /\ optedOut' = FALSE
  /\ UNCHANGED <<freezing, freezeVars>>

\* _handleExhausted() starts, up to the settings it awaits.
EmitExhausted ==
  /\ reading + freezing < MaxHandlers
  /\ exhausted' = TRUE
  /\ reading' = reading + 1 /\ optedOut' = FALSE
  /\ UNCHANGED <<freezing, freezeVars>>

\* Faulty EmitRecovered: the recovered handler ignores the event, as the exhausted one
\* does, while the setting disables the freeze.
EmitRecoveredIfEnabled ==
  /\ exhausted' = FALSE
  /\ frozen' = (frozen /\ ~autoFreeze)
  /\ late' = IF frozen' THEN late ELSE NotLate
  /\ overtaken' = (reading + freezing > 0)
  /\ UNCHANGED handlerVars

\* _handleRecovered() awaits nothing: it is over when emit() returns.
EmitRecovered ==
  /\ exhausted' = FALSE
  /\ frozen' = FALSE /\ late' = NotLate
  /\ overtaken' = (reading + freezing > 0)
  /\ UNCHANGED handlerVars

\* _checkAndEmitBudgetEvents(), on what the file holds now.
CheckBudget(r) ==
  IF ~exhausted /\ AllFailed(r) THEN EmitExhausted
  ELSE IF exhausted /\ Healthy(r) THEN EmitRecovered
  ELSE UNCHANGED <<exhausted, handlerVars, freezeVars>>

\* writeDocument() may fail, which is logged and no more.
Write(r) == Len(r) <= MaxRecords /\ records' \in {records, r} /\ CheckBudget(records')

Recorded(f) == \E i \in DOMAIN records : records[i].feature = f

\* recordMerge(), on feature:pr-merged, which more than one service may emit.
RecordMerge(f) ==
  /\ f \in open \/ Recorded(f)
  /\ Write(Append(records, [feature |-> f, failedCi |-> FALSE]))
  /\ open' = open \ {f}
  /\ UNCHANGED <<autoFreeze, chosen>>

Newest(f) == CHOOSE i \in DOMAIN records :
  /\ records[i].feature = f
  /\ \A j \in DOMAIN records : records[j].feature = f => j <= i

\* markCiFailure(), on pr:ci-failure and pr:remediation-started, before and after the
\* merge: the newest record fails, or a failed one is added when there is none.
MarkCiFailure(f) ==
  /\ f \in open \/ Recorded(f)
  /\ IF ~Recorded(f) THEN Write(Append(records, [feature |-> f, failedCi |-> TRUE]))
     ELSE /\ ~records[Newest(f)].failedCi
          /\ Write([records EXCEPT ![Newest(f)].failedCi = TRUE])
  /\ UNCHANGED <<autoFreeze, loopVars>>

\* The window moves on, which nobody looks at before the next merge.
AgeOut ==
  /\ records # <<>>
  /\ records' = Tail(records)
  /\ UNCHANGED <<exhausted, handlerVars, freezeVars, autoFreeze, loopVars>>

-----------------------------------------------------------------------------
(* AutoModeCoordinator.                                                     *)

\* Faulty ReadSettings: settings that cannot be read count as disabled.
ReadSettingsStrictly ==
  /\ reading > 0
  /\ reading' = reading - 1
  /\ \E readable \in BOOLEAN :
       /\ freezing' = IF readable /\ autoFreeze THEN freezing + 1 ELSE freezing
       /\ optedOut' = (optedOut \/ (readable /\ ~autoFreeze))
  /\ UNCHANGED <<records, exhausted, freezeVars, autoFreeze, loopVars>>

\* _isAutoFreezeEnabled(): without a project or when it throws, the freeze is enabled.
ReadSettings ==
  /\ reading > 0
  /\ reading' = reading - 1
  /\ \E readable \in BOOLEAN :
       /\ freezing' = IF readable => autoFreeze THEN freezing + 1 ELSE freezing
       /\ optedOut' = (optedOut \/ (readable /\ ~autoFreeze))
  /\ UNCHANGED <<records, exhausted, freezeVars, autoFreeze, loopVars>>

Freeze ==
  /\ freezing > 0
  /\ freezing' = freezing - 1
  /\ frozen' = TRUE
  /\ late' = IF frozen THEN late ELSE NotLate
  /\ UNCHANGED <<records, exhausted, reading, optedOut, overtaken, autoFreeze, loopVars>>

ToggleSetting ==
  /\ autoFreeze' = ~autoFreeze
  /\ UNCHANGED <<records, exhausted, handlerVars, freezeVars, loopVars>>

-----------------------------------------------------------------------------
(* The auto loops and the features they pick up.                            *)

\* Faulty CheckFreeze: only an idle loop looks at the freeze.
CheckFreezeWhenIdle(l) ==
  /\ frozen => open # {}
  /\ chosen' = chosen \cup {l}
  /\ UNCHANGED <<records, exhausted, handlerVars, freezeVars, autoFreeze, open>>

\* The check of isPickupFrozen(), which three awaits separate from the start.
CheckFreeze(l) ==
  /\ ~frozen
  /\ chosen' = chosen \cup {l}
  /\ UNCHANGED <<records, exhausted, handlerVars, freezeVars, autoFreeze, open>>

Pickup(l, f) ==
  /\ l \in chosen /\ f \notin open
  /\ chosen' = chosen \ {l}
  /\ open' = open \cup {f}
  /\ late' = IF frozen THEN [late EXCEPT ![l] = @ + 1] ELSE late
  /\ UNCHANGED <<records, exhausted, handlerVars, frozen, overtaken, autoFreeze>>

\* A loop turns back at the review limit or its capacity; a feature is given up.
TurnBack(l) ==
  /\ l \in chosen
  /\ chosen' = chosen \ {l}
  /\ UNCHANGED <<records, exhausted, handlerVars, freezeVars, autoFreeze, open>>

Abandon(f) ==
  /\ f \in open
  /\ open' = open \ {f}
  /\ UNCHANGED <<records, exhausted, handlerVars, freezeVars, autoFreeze, chosen>>

\* The records are all that survives, and nobody looks at them.
Restart ==
  /\ exhausted' = FALSE
  /\ reading' = 0 /\ freezing' = 0 /\ optedOut' = FALSE
  /\ frozen' = FALSE /\ overtaken' = FALSE /\ late' = NotLate
  /\ chosen' = {}
  /\ UNCHANGED <<records, autoFreeze, open>>

-----------------------------------------------------------------------------
Next ==
  \/ \E f \in Features : RecordMerge(f) \/ MarkCiFailure(f) \/ Abandon(f)
  \/ \E l \in Loops : CheckFreeze(l) \/ TurnBack(l)
  \/ \E l \in Loops, f \in Features : Pickup(l, f)
  \/ AgeOut \/ ReadSettings \/ Freeze \/ ToggleSetting \/ Restart

Spec == Init /\ [][Next]_vars

-----------------------------------------------------------------------------
(* Properties.                                                              *)

\* An exhausted budget whose handlers are done has frozen pickup, unless a handler read
\* since then that the setting disables the freeze: no recovery, late handler or
\* unreadable setting loses it.
ExhaustionIsSeen ==
  exhausted /\ reading = 0 /\ freezing = 0 => frozen \/ optedOut

\* Pickup is frozen without an exhausted budget only after a recovery that overtook a
\* handler of the exhaustion before it, whatever became of the setting.  That case is a
\* fault of the code: isPickupFrozen() promises FALSE for a healthy budget.
StaleFreezeExplained == frozen => exhausted \/ overtaken

\* A freeze stops each loop after the feature it was about to start.
FreezeHolds == \A l \in Loops : late[l] <= 1
=============================================================================
