------------------------ MODULE PickupFreezeProofs ------------------------
(***************************************************************************)
(* Proofs about PickupFreeze, for any number of loops, features, records   *)
(* and handlers.                                                           *)
(***************************************************************************)
EXTENDS PickupFreeze, SequenceTheorems, TLAPS

\* A handler that outlives its exhaustion was overtaken by a recovery.
HandlersExplained == ~exhausted /\ reading + freezing > 0 => overtaken

\* A loop that started a feature since the freeze is not about to start another.
LateIsLast ==
  /\ ~frozen => late = NotLate
  /\ \A l \in Loops : late[l] = 0 \/ (late[l] = 1 /\ l \notin chosen)

IInv ==
  /\ TypeOK /\ ExhaustionIsSeen /\ StaleFreezeExplained
  /\ HandlersExplained /\ LateIsLast

USE FreezeAssumption

\* No loop is late at first.
LEMMA NotLateTyped == NotLate \in [Loops -> Nat] /\ \A l \in Loops : NotLate[l] = 0
BY DEF NotLate

\* The invariant holds at startup, whatever the setting.
THEOREM InitInv == Init => IInv
<1> SUFFICES ASSUME Init  PROVE IInv  OBVIOUS
<1>1. records \in Seq(Record) /\ Len(records) <= MaxRecords  BY DEF Init
<1>2. TypeOK
  <2>1. reading + freezing <= MaxHandlers  BY DEF Init
  <2> QED  BY <1>1, <2>1, NotLateTyped DEF Init, TypeOK
<1>3. ExhaustionIsSeen /\ StaleFreezeExplained /\ LateIsLast
  BY NotLateTyped DEF Init, ExhaustionIsSeen, StaleFreezeExplained, LateIsLast
<1>4. HandlersExplained  BY DEF Init, HandlersExplained
<1> QED  BY <1>2, <1>3, <1>4 DEF IInv

\* An event, or none, whatever the records say.
LEMMA CheckBudgetInv ==
  ASSUME IInv, NEW r, CheckBudget(r), records' \in Seq(Record), Len(records') <= MaxRecords,
         autoFreeze' = autoFreeze, chosen' = chosen, open' \subseteq Features
  PROVE  IInv'
<1>1. CASE EmitExhausted
  <2>1. /\ exhausted' = TRUE /\ optedOut' = FALSE /\ reading' = reading + 1
        /\ reading + freezing < MaxHandlers
        /\ UNCHANGED <<freezing, frozen, overtaken, late>>
    BY <1>1 DEF EmitExhausted, freezeVars
  <2>2. reading' \in Nat /\ freezing' \in Nat /\ reading' # 0
        /\ reading' + freezing' <= MaxHandlers
    BY <2>1 DEF IInv, TypeOK
  <2>3. TypeOK'  BY <2>1, <2>2 DEF IInv, TypeOK
  <2> QED
    BY <2>1, <2>2, <2>3
    DEF IInv, ExhaustionIsSeen, StaleFreezeExplained, HandlersExplained, LateIsLast
<1>2. CASE EmitRecovered
  <2>1. /\ exhausted' = FALSE /\ frozen' = FALSE /\ late' = NotLate
        /\ overtaken' \in BOOLEAN /\ (reading + freezing > 0 => overtaken')
        /\ UNCHANGED <<reading, freezing, optedOut>>
    <3>1. CASE reading + freezing > 0  BY <1>2, <3>1 DEF EmitRecovered, handlerVars
    <3>2. CASE ~(reading + freezing > 0)  BY <1>2, <3>2 DEF EmitRecovered, handlerVars
    <3> QED  BY <3>1, <3>2
  <2>2. TypeOK'  BY <2>1, NotLateTyped DEF IInv, TypeOK
  <2>3. HandlersExplained'  BY <2>1 DEF HandlersExplained
  <2> QED
    BY <2>1, <2>2, <2>3, NotLateTyped
    DEF IInv, ExhaustionIsSeen, StaleFreezeExplained, LateIsLast
<1>3. CASE UNCHANGED <<exhausted, handlerVars, freezeVars>>
  BY <1>3
  DEF handlerVars, freezeVars, IInv, TypeOK, ExhaustionIsSeen, StaleFreezeExplained,
      HandlersExplained, LateIsLast
<1> QED  BY <1>1, <1>2, <1>3 DEF CheckBudget

\* A write that fails leaves the records as they are.
LEMMA WriteInv ==
  ASSUME IInv, NEW r \in Seq(Record), Write(r),
         autoFreeze' = autoFreeze, chosen' = chosen, open' \subseteq Features
  PROVE  IInv'
<1>1. records' \in Seq(Record) /\ Len(records') <= MaxRecords  BY DEF Write, IInv, TypeOK
<1> QED  BY <1>1, CheckBudgetInv DEF Write

\* A merge is recorded.
LEMMA MergeInv ==
  ASSUME NEW f \in Features, IInv, RecordMerge(f)  PROVE IInv'
<1>1. [feature |-> f, failedCi |-> FALSE] \in Record  BY DEF Record
<1>2. Append(records, [feature |-> f, failedCi |-> FALSE]) \in Seq(Record)
  BY <1>1 DEF IInv, TypeOK
<1>3. open' \subseteq Features /\ UNCHANGED <<autoFreeze, chosen>>
  BY DEF RecordMerge, IInv, TypeOK
<1> QED  BY <1>2, <1>3, WriteInv DEF RecordMerge

\* The newest record of a recorded feature is one of the records.
LEMMA NewestTyped ==
  ASSUME NEW f \in Features, TypeOK
  PROVE  [records EXCEPT ![Newest(f)].failedCi = TRUE] \in Seq(Record)
<1> DEFINE r == [records EXCEPT ![Newest(f)].failedCi = TRUE]
<1>1. records \in [1..Len(records) -> Record] /\ Len(records) \in Nat  BY DEF TypeOK
<1>2. r = [i \in 1..Len(records) |->
             IF i = Newest(f) THEN [records[i] EXCEPT !.failedCi = TRUE] ELSE records[i]]
  BY <1>1
<1>3. \A i \in 1..Len(records) : r[i] \in Record
  <2> SUFFICES ASSUME NEW i \in 1..Len(records)  PROVE r[i] \in Record  OBVIOUS
  <2>1. PICK x \in Record : x = records[i]  BY <1>1
  <2>2. [x EXCEPT !.failedCi = TRUE] \in Record  BY DEF Record
  <2> QED  BY <1>2, <2>1, <2>2
<1>4. r \in [1..Len(records) -> Record]  BY <1>2, <1>3
<1> QED  BY <1>1, <1>4, SeqDef

\* A CI failure is recorded.
LEMMA CiFailureInv ==
  ASSUME NEW f \in Features, IInv, MarkCiFailure(f)  PROVE IInv'
<1>1. [feature |-> f, failedCi |-> TRUE] \in Record  BY DEF Record
<1>2. Append(records, [feature |-> f, failedCi |-> TRUE]) \in Seq(Record)
  BY <1>1 DEF IInv, TypeOK
<1>3. open' \subseteq Features /\ UNCHANGED <<autoFreeze, chosen>>
  BY DEF MarkCiFailure, loopVars, IInv, TypeOK
<1>4. [records EXCEPT ![Newest(f)].failedCi = TRUE] \in Seq(Record)  BY NewestTyped DEF IInv
<1> QED  BY <1>2, <1>3, <1>4, WriteInv DEF MarkCiFailure

\* A handler freezes pickup.
LEMMA FreezeInv ==
  ASSUME IInv, ReadSettings \/ Freeze  PROVE IInv'
<1>1. CASE ReadSettings
  BY <1>1
  DEF ReadSettings, freezeVars, loopVars, IInv, TypeOK, ExhaustionIsSeen, StaleFreezeExplained,
      HandlersExplained, LateIsLast
<1>2. CASE Freeze
  BY <1>2, NotLateTyped
  DEF Freeze, loopVars, IInv, TypeOK, ExhaustionIsSeen, StaleFreezeExplained,
      HandlersExplained, LateIsLast
<1> QED  BY <1>1, <1>2

\* A loop picks up a feature.
LEMMA PickupInv ==
  ASSUME NEW l \in Loops, NEW f \in Features, IInv, Pickup(l, f)  PROVE IInv'
<1>1. CASE frozen
  <2>1. /\ late' = [late EXCEPT ![l] = late[l] + 1] /\ late[l] = 0
        /\ chosen' = chosen \ {l}
    BY <1>1 DEF Pickup, IInv, LateIsLast
  <2>2. /\ late' \in [Loops -> Nat] /\ late'[l] = 1
        /\ \A m \in Loops \ {l} : late'[m] = late[m]
    BY <2>1 DEF IInv, TypeOK
  <2>3. LateIsLast'  BY <1>1, <2>1, <2>2 DEF Pickup, IInv, LateIsLast
  <2> QED
    BY <2>1, <2>2, <2>3
    DEF Pickup, handlerVars, IInv, TypeOK, ExhaustionIsSeen, StaleFreezeExplained,
        HandlersExplained
<1>2. CASE ~frozen
  BY <1>2
  DEF Pickup, handlerVars, IInv, TypeOK, ExhaustionIsSeen, StaleFreezeExplained,
      HandlersExplained, LateIsLast
<1> QED  BY <1>1, <1>2

\* The steps of people, loops and time that no handler takes part in.
LEMMA OtherInv ==
  ASSUME IInv,
         AgeOut \/ ToggleSetting \/ (\E l \in Loops : CheckFreeze(l) \/ TurnBack(l))
           \/ (\E f \in Features : Abandon(f)) \/ UNCHANGED vars
  PROVE  IInv'
<1>1. UNCHANGED <<exhausted, reading, freezing, optedOut, frozen, overtaken, late>>
  BY DEF AgeOut, ToggleSetting, CheckFreeze, TurnBack, Abandon, vars, handlerVars, freezeVars
<1>2. records' \in Seq(Record) /\ Len(records') <= MaxRecords
  <2>1. CASE AgeOut  BY <2>1 DEF AgeOut, IInv, TypeOK
  <2>2. CASE UNCHANGED records  BY <2>2 DEF IInv, TypeOK
  <2> QED  BY <2>1, <2>2 DEF ToggleSetting, CheckFreeze, TurnBack, Abandon, vars
<1>3. autoFreeze' \in BOOLEAN /\ open' \subseteq Features /\ chosen' \subseteq Loops
  BY DEF AgeOut, ToggleSetting, CheckFreeze, TurnBack, Abandon, vars, loopVars, IInv, TypeOK
<1>4. LateIsLast'
  <2>1. chosen' \subseteq chosen \/ ~frozen
    BY DEF AgeOut, ToggleSetting, CheckFreeze, TurnBack, Abandon, vars, loopVars
  <2> QED  BY <1>1, <2>1, NotLateTyped DEF IInv, LateIsLast, TypeOK
<1> QED
  BY <1>1, <1>2, <1>3, <1>4
  DEF IInv, TypeOK, ExhaustionIsSeen, StaleFreezeExplained, HandlersExplained

\* The invariant is inductive.
THEOREM NextInv == IInv /\ [Next]_vars => IInv'
<1> SUFFICES ASSUME IInv, [Next]_vars  PROVE IInv'  OBVIOUS
<1>1. CASE Restart
  <2>1. TypeOK'
    <3>1. reading' + freezing' <= MaxHandlers  BY <1>1 DEF Restart
    <3> QED  BY <1>1, <3>1, NotLateTyped DEF Restart, IInv, TypeOK
  <2>2. HandlersExplained'  BY <1>1 DEF Restart, HandlersExplained
  <2> QED
    BY <1>1, <2>1, <2>2, NotLateTyped
    DEF Restart, IInv, ExhaustionIsSeen, StaleFreezeExplained, LateIsLast
<1> QED
  BY <1>1, MergeInv, CiFailureInv, FreezeInv, PickupInv, OtherInv DEF Next

\* The invariant holds in every behaviour of the freeze.
THEOREM Invariance == Spec => []IInv
BY InitInv, NextInv, PTL DEF Spec

\* Every variable keeps its type.
THEOREM TypeCorrect == Spec => []TypeOK
<1>1. IInv => TypeOK  BY DEF IInv
<1> QED  BY <1>1, Invariance, PTL

\* No exhaustion is lost.
THEOREM ExhaustionSeen == Spec => []ExhaustionIsSeen
<1>1. IInv => ExhaustionIsSeen  BY DEF IInv
<1> QED  BY <1>1, Invariance, PTL

\* A freeze that outlives the exhaustion comes from an overtaken handler.
THEOREM FreezeExplained == Spec => []StaleFreezeExplained
<1>1. IInv => StaleFreezeExplained  BY DEF IInv
<1> QED  BY <1>1, Invariance, PTL

\* After a freeze every loop starts one feature at most.
THEOREM FreezeEffective == Spec => []FreezeHolds
<1>1. IInv => FreezeHolds  BY DEF IInv, LateIsLast, FreezeHolds
<1> QED  BY <1>1, Invariance, PTL
=============================================================================
