------------------------ MODULE FeatureLeaseProofs ------------------------
(***************************************************************************)
(* The proof of LeaseExplained: each acquisition of the lease has a ticket *)
(* as long as the call that will release it is in flight.  A call holds at *)
(* most two, its own and the one of the resume it delegates to.            *)
(***************************************************************************)
EXTENDS FeatureExecutionProofs, FiniteSetTheorems

\* Only a call with a continuation, or the end of one, holds a second acquisition.
Deep(r) ==
  /\ r.frames \in 0..2
  /\ r.pc = "resuming" => r.frames = 0 \/ (r.frames = 1 /\ r.cont)
  /\ r.frames = 2 => r.cont \/ r.pc \in {"cleanup", "unwinding"}
  /\ r.pc \in {"idle", "checking"} => r.frames = 0
  /\ r.pc \in {"following", "followed"} => r.frames = 1

LInv == LeaseExplained /\ \A c \in Calls : Deep(calls[c])

-----------------------------------------------------------------------------
(* Counting tickets.                                                        *)

\* The tickets can be counted.
LEMMA TicketsFinite == IsFiniteSet(Tickets) /\ Cardinality(Tickets) \in Nat
<1>1. IsFiniteSet(1..2)
  <2>1. 1 \in Int /\ 2 \in Int  OBVIOUS
  <2> QED  BY <2>1, FS_Interval, Zenon
<1>2. IsFiniteSet(Calls \X (1..2))  BY <1>1, ExecutionAssumption, FS_Product, Zenon
<1>3. Tickets \subseteq Calls \X (1..2)  BY DEF Tickets
<1> QED  BY <1>2, <1>3, FS_Subset, FS_CardinalityType

\* So can they after a step.
LEMMA TicketsFiniteNext == IsFiniteSet(Tickets') /\ Cardinality(Tickets') \in Nat
<1>1. IsFiniteSet(1..2)
  <2>1. 1 \in Int /\ 2 \in Int  OBVIOUS
  <2> QED  BY <2>1, FS_Interval, Zenon
<1>2. IsFiniteSet(Calls \X (1..2))  BY <1>1, ExecutionAssumption, FS_Product, Zenon
<1>3. Tickets' \subseteq Calls \X (1..2)  BY DEF Tickets
<1> QED  BY <1>2, <1>3, FS_Subset, FS_CardinalityType

\* Fewer tickets, smaller count.
LEMMA SmallerCount ==
  ASSUME NEW A, NEW B, IsFiniteSet(B), A \subseteq B
  PROVE  Cardinality(A) <= Cardinality(B) /\ Cardinality(A) \in Nat /\ Cardinality(B) \in Nat
BY FS_Subset, FS_CardinalityType

\* One ticket more, one more in the count.
LEMMA OneMore ==
  ASSUME NEW A, NEW x, IsFiniteSet(A)
  PROVE  /\ IsFiniteSet(A \cup {x}) /\ Cardinality(A) \in Nat
         /\ Cardinality(A \cup {x}) \in Nat
         /\ Cardinality(A \cup {x}) <= Cardinality(A) + 1
         /\ x \notin A => Cardinality(A \cup {x}) = Cardinality(A) + 1
<1>1. /\ IsFiniteSet(A \cup {x})
      /\ Cardinality(A \cup {x}) = IF x \in A THEN Cardinality(A) ELSE Cardinality(A) + 1
  BY FS_AddElement, Zenon
<1>2. Cardinality(A) \in Nat  BY FS_CardinalityType, Zenon
<1> QED  BY <1>1, <1>2

\* The leak may be cut to the count without losing the bound.
LEMMA Bounded ==
  ASSUME NEW n \in Nat, NEW lost \in Nat, NEW k \in Nat, LeaseBecomes(n, lost), n <= k + lost
  PROVE  lease' <= k + leaked'
BY DEF LeaseBecomes

\* The call keeps or gains acquisitions.
LEMMA KeepsTickets ==
  ASSUME \A c \in Calls : calls'[c].frames \in Nat /\ calls[c].frames \in Nat
                            /\ calls[c].frames <= calls'[c].frames
  PROVE  Cardinality(Tickets) <= Cardinality(Tickets')
<1>1. Tickets \subseteq Tickets'  BY DEF Tickets
<1> QED  BY <1>1, TicketsFiniteNext, SmallerCount

\* An acquisition comes with a ticket.
LEMMA GainsTicket ==
  ASSUME NEW c \in Calls, calls[c].frames \in 0..1, calls'[c].frames = calls[c].frames + 1,
         \A d \in Calls \ {c} : calls'[d].frames = calls[d].frames
  PROVE  Cardinality(Tickets) + 1 <= Cardinality(Tickets')
<1> DEFINE t == <<c, calls[c].frames + 1>>
<1>1. t \in Tickets' /\ t \notin Tickets  BY DEF Tickets
<1>2. Tickets \cup {t} \subseteq Tickets'
  <2>1. ASSUME NEW x \in Tickets  PROVE x \in Tickets'
    <3>1. x \in Calls \X (1..2) /\ x[2] <= calls[x[1]].frames  BY DEF Tickets
    <3>2. x[2] <= calls'[x[1]].frames
      <4>1. CASE x[1] = c  BY <3>1, <4>1
      <4>2. CASE x[1] # c  BY <3>1, <4>2
      <4> QED  BY <4>1, <4>2
    <3> QED  BY <3>1, <3>2 DEF Tickets
  <2> QED  BY <1>1, <2>1
<1> HIDE DEF t
<1>3. Cardinality(Tickets \cup {t}) = Cardinality(Tickets) + 1
  BY <1>1, TicketsFinite, OneMore
<1> QED  BY <1>2, <1>3, TicketsFiniteNext, SmallerCount

\* A release gives the call's tickets back.
LEMMA LosesTickets ==
  ASSUME NEW c \in Calls, calls[c].frames \in 0..2, calls'[c].frames \in Nat,
         \A d \in Calls \ {c} : calls'[d].frames = calls[d].frames
  PROVE  Cardinality(Tickets) <= Cardinality(Tickets') + calls[c].frames
<1> DEFINE A == Tickets'
           B == A \cup {<<c, 1>>}
           D == B \cup {<<c, 2>>}
<1>1. ASSUME NEW x \in Tickets, x[1] # c  PROVE x \in A  BY <1>1 DEF Tickets
<1>2. ASSUME NEW x \in Tickets, x[1] = c
      PROVE  /\ x \in {<<c, 1>>, <<c, 2>>} /\ calls[c].frames # 0
             /\ calls[c].frames = 1 => x = <<c, 1>>
  <2>1. x \in Calls \X (1..2) /\ x[2] <= calls[c].frames /\ x = <<c, x[2]>>
    BY <1>2 DEF Tickets
  <2>2. x[2] = 1 \/ x[2] = 2  BY <2>1
  <2> QED  BY <2>1, <2>2
<1>0. B = A \cup {<<c, 1>>} /\ D = B \cup {<<c, 2>>} /\ A = Tickets'  OBVIOUS
<1> HIDE DEF A, B, D
<1>3. /\ IsFiniteSet(A) /\ Cardinality(A) \in Nat
      /\ IsFiniteSet(B) /\ Cardinality(B) \in Nat /\ Cardinality(B) <= Cardinality(A) + 1
      /\ IsFiniteSet(D) /\ Cardinality(D) \in Nat /\ Cardinality(D) <= Cardinality(B) + 1
  <2>1. IsFiniteSet(A) /\ Cardinality(A) \in Nat  BY <1>0, TicketsFiniteNext
  <2>2. IsFiniteSet(B) /\ Cardinality(B) \in Nat /\ Cardinality(B) <= Cardinality(A) + 1
    BY <1>0, <2>1, OneMore
  <2>3. IsFiniteSet(D) /\ Cardinality(D) \in Nat /\ Cardinality(D) <= Cardinality(B) + 1
    BY <1>0, <2>2, OneMore
  <2> QED  BY <2>1, <2>2, <2>3
<1>4. CASE calls[c].frames = 0
  <2>1. Tickets \subseteq A  BY <1>0, <1>1, <1>2, <1>4
  <2> QED  BY <1>0, <1>3, <1>4, <2>1, TicketsFinite, SmallerCount
<1>5. CASE calls[c].frames = 1
  <2>1. Tickets \subseteq B  BY <1>0, <1>1, <1>2, <1>5
  <2> QED  BY <1>0, <1>3, <1>5, <2>1, TicketsFinite, SmallerCount
<1>6. CASE calls[c].frames = 2
  <2>1. Tickets \subseteq D  BY <1>0, <1>1, <1>2, <1>6
  <2> QED  BY <1>0, <1>3, <1>6, <2>1, TicketsFinite, SmallerCount
<1> QED  BY <1>4, <1>5, <1>6

-----------------------------------------------------------------------------
(* Steps.                                                                   *)

\* What is left of calls as far as the lease is concerned.
Same(d) == /\ calls'[d].pc = calls[d].pc /\ calls'[d].frames = calls[d].frames
           /\ calls'[d].cont = calls[d].cont

\* A step of one call, which keeps or gains acquisitions, or ends with all of them.
Keeps(c)  == calls'[c].frames = calls[c].frames /\ UNCHANGED slotVars
Gains(c)  == calls'[c].frames = calls[c].frames + 1 /\ LeaseBecomes(lease + 1, leaked)
Returns(c) ==
  /\ calls'[c].frames = 0
  /\ \/ LeaseBecomes(Released(lease, calls[c].frames), leaked)
     \/ calls[c].frames = 1 /\ LeaseBecomes(lease, leaked + 1)

\* A step of one call that keeps, gains or returns its acquisitions keeps the invariant.
LEMMA CallStep ==
  ASSUME TypeOK, LInv, NEW c \in Calls, Deep(calls'[c]), Keeps(c) \/ Gains(c) \/ Returns(c),
         \A d \in Calls \ {c} : Same(d)
  PROVE  LInv'
<1>1. \A d \in Calls : Deep(calls'[d])  BY DEF LInv, Deep, Same
<1>2. \A d \in Calls : calls[d].frames \in 0..2 /\ calls'[d].frames \in 0..2
  BY <1>1 DEF LInv, Deep
<1>3. \A d \in Calls \ {c} : calls'[d].frames = calls[d].frames  BY DEF Same
<1>4. /\ lease \in Nat /\ leaked \in Nat
      /\ Cardinality(Tickets) \in Nat /\ Cardinality(Tickets') \in Nat
      /\ lease <= Cardinality(Tickets) + leaked
  BY TicketsFinite, TicketsFiniteNext DEF TypeOK, LInv, LeaseExplained
<1>5. LeaseExplained'
  <2>1. CASE Keeps(c)
    <3>1. \A d \in Calls : calls'[d].frames \in Nat /\ calls[d].frames \in Nat
                              /\ calls[d].frames <= calls'[d].frames
      BY <1>2, <1>3, <2>1 DEF Keeps
    <3>2. Cardinality(Tickets) <= Cardinality(Tickets')  BY <3>1, KeepsTickets
    <3> QED  BY <1>4, <2>1, <3>2 DEF Keeps, slotVars, LeaseExplained
  <2>2. CASE Gains(c)
    <3>1. calls[c].frames \in 0..1  BY <1>2, <2>2 DEF Gains
    <3>2. Cardinality(Tickets) + 1 <= Cardinality(Tickets')
      BY <1>3, <2>2, <3>1, GainsTicket DEF Gains
    <3>3. lease + 1 \in Nat /\ lease + 1 <= Cardinality(Tickets') + leaked  BY <1>4, <3>2
    <3> QED  BY <1>4, <2>2, <3>3, Bounded DEF Gains, LeaseExplained
  <2>3. CASE Returns(c)
    <3> DEFINE k == calls[c].frames
    <3>1. k \in 0..2 /\ calls'[c].frames \in Nat  BY <1>2
    <3>2. Cardinality(Tickets) <= Cardinality(Tickets') + k
      BY <1>3, <3>1, LosesTickets
    <3> HIDE DEF k
    <3>3. CASE LeaseBecomes(Released(lease, k), leaked)
      <4>1. Released(lease, k) \in Nat /\ Released(lease, k) <= Cardinality(Tickets') + leaked
        BY <1>4, <3>1, <3>2 DEF Released
      <4> QED  BY <1>4, <3>3, <4>1, Bounded DEF LeaseExplained
    <3>4. CASE k = 1 /\ LeaseBecomes(lease, leaked + 1)
      <4>1. leaked + 1 \in Nat /\ lease <= Cardinality(Tickets') + (leaked + 1)
        BY <1>4, <3>2, <3>4
      <4> QED  BY <1>4, <3>4, <4>1, Bounded DEF LeaseExplained
    <3> QED  BY <2>3, <3>3, <3>4 DEF Returns, k
  <2> QED  BY <2>1, <2>2, <2>3
<1> QED  BY <1>1, <1>5 DEF LInv

\* A step of nobody: the lease may shrink.
LEMMA NobodysStep ==
  ASSUME TypeOK, LInv, \A d \in Calls : Same(d),
         UNCHANGED slotVars \/ (\E k \in Nat : LeaseBecomes(Released(lease, k), leaked))
  PROVE  LInv'
<1>1. \A d \in Calls : Deep(calls'[d])  BY DEF LInv, Deep, Same
<1>2. \A d \in Calls : calls'[d].frames \in Nat /\ calls[d].frames \in Nat
                         /\ calls[d].frames <= calls'[d].frames
  BY DEF LInv, Deep, Same
<1>3. /\ lease \in Nat /\ leaked \in Nat
      /\ Cardinality(Tickets) \in Nat /\ Cardinality(Tickets') \in Nat
      /\ lease <= Cardinality(Tickets') + leaked
  BY <1>2, TicketsFinite, TicketsFiniteNext, KeepsTickets DEF TypeOK, LInv, LeaseExplained
<1>4. CASE UNCHANGED slotVars  BY <1>1, <1>3, <1>4 DEF slotVars, LInv, LeaseExplained
<1>5. ASSUME NEW k \in Nat, LeaseBecomes(Released(lease, k), leaked)  PROVE LInv'
  <2>1. Released(lease, k) \in Nat /\ Released(lease, k) <= Cardinality(Tickets') + leaked
    BY <1>3 DEF Released
  <2>2. LeaseExplained'  BY <1>3, <1>5, <2>1, Bounded DEF LeaseExplained
  <2> QED  BY <1>1, <2>2 DEF LInv
<1> QED  BY <1>4, <1>5

\* A call whose step makes its record r, whatever a status update marks besides.
Becomes(c, r) ==
  /\ calls'[c].pc = r.pc /\ calls'[c].frames = r.frames /\ calls'[c].cont = r.cont
  /\ \A d \in Calls \ {c} : Same(d)

\* The call whose record is written becomes it, whatever status is written with it.
LEMMA RecordBecomes ==
  ASSUME TypeOK, NEW c \in Calls, NEW r \in CallRec, NEW cs, cs = [calls EXCEPT ![c] = r],
         calls' = cs \/ (\E s \in Statuses : SetStatus(s, cs))
  PROVE  Becomes(c, r)
<1>1. cs \in [Calls -> CallRec] /\ cs[c] = r /\ \A d \in Calls \ {c} : cs[d] = calls[d]
  BY DEF TypeOK
<1>2. \A d \in Calls : /\ calls'[d].pc = cs[d].pc /\ calls'[d].frames = cs[d].frames
                        /\ calls'[d].cont = cs[d].cont
  <2>1. CASE calls' = cs  BY <2>1
  <2>2. ASSUME NEW s \in Statuses, SetStatus(s, cs), StopsDone(s)
        PROVE  calls' = [cs EXCEPT ![entry] = [cs[entry] EXCEPT !.aborted = TRUE]] /\ entry \in Calls
    BY <2>2 DEF SetStatus, Aborted, StopsDone, TypeOK
  <2>3. ASSUME NEW s \in Statuses, SetStatus(s, cs), ~StopsDone(s)  PROVE calls' = cs
    BY <2>3 DEF SetStatus
  <2>4. ASSUME NEW e \in Calls, calls' = [cs EXCEPT ![e] = [cs[e] EXCEPT !.aborted = TRUE]],
               NEW d \in Calls
        PROVE  /\ calls'[d].pc = cs[d].pc /\ calls'[d].frames = cs[d].frames
               /\ calls'[d].cont = cs[d].cont
    <3>1. PICK x \in CallRec : x = cs[e]  BY <1>1
    <3>2. calls' = [cs EXCEPT ![e] = [x EXCEPT !.aborted = TRUE]]  BY <2>4, <3>1
    <3> QED  BY <1>1, <3>1, <3>2 DEF CallRec
  <2> QED  BY <2>1, <2>2, <2>3, <2>4
<1> QED  BY <1>1, <1>2 DEF Becomes, Same

\* An ending call keeps its frames, which the release still needs.
LEMMA EndingBecomes ==
  ASSUME TypeOK, NEW c \in Calls, NEW pc \in Phases,
         calls' = Ending(c, pc) \/ (\E s \in Statuses : SetStatus(s, Ending(c, pc)))
  PROVE  \E r \in CallRec : /\ Becomes(c, r)
                            /\ r.pc = pc /\ r.frames = calls[c].frames
<1>1. PICK x \in CallRec : x = calls[c]  BY DEF TypeOK
<1> DEFINE r == [x EXCEPT !.pc = pc, !.retry = 0, !.cont = FALSE, !.aborted = FALSE]
<1>2. r \in CallRec /\ r.pc = pc /\ r.frames = x.frames  BY DEF CallRec
<1>3. Ending(c, pc) = [calls EXCEPT ![c] = r]  BY <1>1 DEF Ending, TypeOK
<1> HIDE DEF r
<1>4. Becomes(c, r)  BY <1>2, <1>3, RecordBecomes
<1> QED  BY <1>1, <1>2, <1>4

\* So does a change of phase.
LEMMA PhaseBecomes ==
  ASSUME TypeOK
  PROVE  \A c \in Calls, pc \in Phases :
           (\/ calls' = [calls EXCEPT ![c].pc = pc]
            \/ \E s \in Statuses : SetStatus(s, [calls EXCEPT ![c].pc = pc]))
           => \E r \in CallRec : /\ Becomes(c, r) /\ r.pc = pc
                                 /\ r.frames = calls[c].frames /\ r.cont = calls[c].cont
<1> TAKE c \in Calls, pc \in Phases
<1> HAVE \/ calls' = [calls EXCEPT ![c].pc = pc]
         \/ \E s \in Statuses : SetStatus(s, [calls EXCEPT ![c].pc = pc])
<1>1. PICK x \in CallRec : x = calls[c]  BY DEF TypeOK
<1> DEFINE r == [x EXCEPT !.pc = pc]
<1>2. r \in CallRec /\ r.pc = pc /\ r.frames = x.frames /\ r.cont = x.cont  BY DEF CallRec
<1>3. [calls EXCEPT ![c].pc = pc] = [calls EXCEPT ![c] = r]  BY <1>1 DEF TypeOK
<1> HIDE DEF r
<1>4. Becomes(c, r)  BY <1>2, <1>3, RecordBecomes
<1> QED  BY <1>1, <1>2, <1>4

\* What the calls are built from.
LEMMA CallParts ==
  /\ 0 \in Nat /\ 1 \in Nat /\ TRUE \in BOOLEAN /\ FALSE \in BOOLEAN
  /\ "idle" \in Phases /\ "loading" \in Phases /\ "preparing" \in Phases
  /\ "resuming" \in Phases /\ "agent" \in Phases /\ "failing" \in Phases
  /\ "cleanup" \in Phases /\ "unwinding" \in Phases /\ "checking" \in Phases
  /\ "following" \in Phases /\ "followed" \in Phases
BY DEF Phases

\* CallStep in terms of the record.
LEMMA BecomesStep ==
  ASSUME TypeOK, LInv, NEW c \in Calls, NEW r \in CallRec, Becomes(c, r), Deep(r),
         Keeps(c) \/ Gains(c) \/ Returns(c)
  PROVE  LInv'
<1>1. Deep(calls'[c])  BY DEF Becomes, Deep
<1> QED  BY <1>1, CallStep DEF Becomes

-----------------------------------------------------------------------------
(* Actions.                                                                 *)

\* The calls that start.
LEMMA StartsLease ==
  ASSUME TypeOK, LInv, NEW c \in Calls, Starts(c)  PROVE LInv'
<1>1. calls[c].pc = "idle" /\ calls[c].frames = 0
  BY DEF Starts, Execute, PipelineExecutes, ExecuteFeature, ResumeFeature, FollowUp, Free,
         LInv, Deep
<1>2. CASE ExecuteFeature(c)
  <2>1. PICK r \in CallRec : Becomes(c, r) /\ r.pc = "loading" /\ r.frames = 1
    <3>1. NewCall("loading", 0, 1, FALSE) \in CallRec
      BY DEF NewCall, CallRec, Phases
    <3>2. Becomes(c, NewCall("loading", 0, 1, FALSE))
      BY <1>2, <3>1, RecordBecomes DEF ExecuteFeature
    <3> QED  BY <3>1, <3>2 DEF NewCall
  <2>2. Gains(c)
    <3>1. LeaseBecomes(1, leaked) /\ lease + 1 = 1  BY <1>2 DEF ExecuteFeature
    <3>2. calls'[c].frames = calls[c].frames + 1  BY <1>1, <2>1 DEF Becomes
    <3> QED  BY <3>1, <3>2 DEF Gains
  <2> QED  BY <2>1, <2>2, BecomesStep DEF Deep
<1>3. CASE ResumeFeature(c)
  <2>1. PICK b \in BOOLEAN : calls' = [calls EXCEPT ![c] = NewCall("resuming", 0, 0, b)]
    BY <1>3 DEF ResumeFeature
  <2>2. PICK r \in CallRec : Becomes(c, r) /\ r.pc = "resuming" /\ r.frames = 0
    <3>1. NewCall("resuming", 0, 0, b) \in CallRec
      BY DEF NewCall, CallRec, Phases
    <3>2. Becomes(c, NewCall("resuming", 0, 0, b))
      BY <2>1, <3>1, RecordBecomes
    <3> QED  BY <3>1, <3>2 DEF NewCall
  <2>3. Keeps(c)  BY <1>1, <1>3, <2>2 DEF ResumeFeature, Becomes, Keeps
  <2> QED  BY <2>2, <2>3, BecomesStep DEF Deep
<1>4. CASE FollowUp(c)
  <2>1. PICK r \in CallRec : Becomes(c, r) /\ r.pc = "checking" /\ r.frames = 0
    <3>1. NewCall("checking", 0, 0, FALSE) \in CallRec
      BY DEF NewCall, CallRec, Phases
    <3>2. Becomes(c, NewCall("checking", 0, 0, FALSE))
      BY <1>4, <3>1, RecordBecomes DEF FollowUp
    <3> QED  BY <3>1, <3>2 DEF NewCall
  <2>2. Keeps(c)  BY <1>1, <1>4, <2>1 DEF FollowUp, Becomes, Keeps
  <2> QED  BY <2>1, <2>2, BecomesStep DEF Deep
<1> QED  BY <1>2, <1>3, <1>4 DEF Starts, Execute, PipelineExecutes

\* The call is over but for its finally clause.
LEMMA EndsLease ==
  ASSUME TypeOK, LInv, NEW c \in Calls,
         RefuseTerminal(c) \/ AuthorityDenies(c) \/ ScheduleRetry(c) \/ BackOff(c)
         \/ PrepareFails(c) \/ AgentSucceeds(c) \/ AgentAborts(c) \/ GiveUp(c)
         \/ ReturnToBacklog(c)
  PROVE  LInv'
<1>1. PICK pc \in {"cleanup", "unwinding"} :
        calls' = Ending(c, pc) \/ (\E s \in Statuses : SetStatus(s, Ending(c, pc)))
  BY DEF RefuseTerminal, AuthorityDenies, ScheduleRetry, BackOff, PrepareFails, AgentSucceeds,
         AgentAborts, GiveUp, ReturnToBacklog, Statuses
<1>2. PICK r \in CallRec : Becomes(c, r) /\ r.pc = pc /\ r.frames = calls[c].frames
  BY <1>1, EndingBecomes, CallParts
<1>3. UNCHANGED slotVars
  BY DEF RefuseTerminal, AuthorityDenies, ScheduleRetry, BackOff, PrepareFails, AgentSucceeds,
         AgentAborts, GiveUp, ReturnToBacklog, slotVars
<1>4. Keeps(c)  BY <1>2, <1>3 DEF Becomes, Keeps
<1>5. Deep(r)  BY <1>2 DEF LInv, Deep
<1> QED  BY <1>2, <1>4, <1>5, BecomesStep

\* The phases that leave the lease alone.
LEMMA PhasesLease ==
  ASSUME TypeOK, LInv, NEW c \in Calls,
         Load(c) \/ AgentFails(c) \/ StartAgent(c) \/ FollowUpFails(c) \/ FollowUpSucceeds(c)
  PROVE  LInv'
<1>1. UNCHANGED slotVars
  BY DEF Load, AgentFails, StartAgent, FollowUpFails, FollowUpSucceeds, slotVars
<1>2. ASSUME NEW pc \in {"preparing", "failing", "agent"},
             calls[c].pc \in {"loading", "preparing", "agent"},
             \/ calls' = [calls EXCEPT ![c].pc = pc]
             \/ \E s \in Statuses : SetStatus(s, [calls EXCEPT ![c].pc = pc])
      PROVE  LInv'
  <2>1. PICK r \in CallRec : /\ Becomes(c, r) /\ r.pc = pc
                             /\ r.frames = calls[c].frames /\ r.cont = calls[c].cont
    <3>1. pc \in Phases  BY CallParts
    <3> QED  BY <1>2, <3>1, PhaseBecomes
  <2>2. Keeps(c)  BY <1>1, <2>1 DEF Becomes, Keeps
  <2>3. Deep(r)  BY <1>2, <2>1 DEF LInv, Deep
  <2> QED  BY <2>1, <2>2, <2>3, BecomesStep
<1>3. ASSUME FollowUpFails(c) \/ FollowUpSucceeds(c)  PROVE LInv'
  <2>1. \/ calls' = [calls EXCEPT ![c].pc = "followed"]
        \/ \E s \in Statuses : SetStatus(s, [calls EXCEPT ![c].pc = "followed"])
    BY <1>3 DEF FollowUpFails, FollowUpSucceeds, Statuses
  <2>2. PICK r \in CallRec : Becomes(c, r) /\ r.pc = "followed" /\ r.frames = calls[c].frames
    <3> DEFINE pc == "followed"
    <3>1. pc \in Phases  BY CallParts
    <3>2. \/ calls' = [calls EXCEPT ![c].pc = pc]
          \/ \E s \in Statuses : SetStatus(s, [calls EXCEPT ![c].pc = pc])
      BY <2>1
    <3> HIDE DEF pc
    <3>3. \E r \in CallRec : Becomes(c, r) /\ r.pc = pc /\ r.frames = calls[c].frames
      BY <3>1, <3>2, PhaseBecomes
    <3> QED  BY <3>3 DEF pc
  <2>3. Keeps(c)  BY <1>1, <2>2 DEF Becomes, Keeps
  <2>4. calls[c].frames = 1  BY <1>3 DEF FollowUpFails, FollowUpSucceeds, LInv, Deep
  <2>5. Deep(r)  BY <2>2, <2>4 DEF Deep
  <2> QED  BY <2>2, <2>3, <2>5, BecomesStep
<1>4. ASSUME Load(c) \/ AgentFails(c) \/ StartAgent(c)
      PROVE  /\ calls[c].pc \in {"loading", "preparing", "agent"}
             /\ \E pc \in {"preparing", "failing", "agent"} :
                  \/ calls' = [calls EXCEPT ![c].pc = pc]
                  \/ \E s \in Statuses : SetStatus(s, [calls EXCEPT ![c].pc = pc])
  BY <1>4 DEF Load, AgentFails, StartAgent, Statuses
<1> QED  BY <1>2, <1>3, <1>4

\* A call that resumes its own context.
LEMMA DelegationLease ==
  ASSUME TypeOK, LInv, NEW c \in Calls, ContinuePlan(c) \/ DelegateToResume(c) \/ ResumeContinues(c)
  PROVE  LInv'
<1>1. PICK x \in CallRec : x = calls[c]  BY DEF TypeOK
<1>2. Deep(x)  BY <1>1 DEF LInv
<1>3. CASE ContinuePlan(c)
  <2>1. x.frames \in Nat  BY DEF CallRec
  <2>2. PICK r \in CallRec : Becomes(c, r) /\ r.pc = "loading" /\ r.frames = x.frames /\ r.cont = TRUE
    <3>1. NewCall("loading", 0, x.frames, TRUE) \in CallRec
      BY <2>1 DEF NewCall, CallRec, Phases
    <3>2. Becomes(c, NewCall("loading", 0, x.frames, TRUE))
      BY <1>1, <1>3, <2>1, <3>1, RecordBecomes DEF ContinuePlan
    <3> QED  BY <3>1, <3>2 DEF NewCall
  <2>3. Keeps(c)  BY <1>1, <1>3, <2>2 DEF ContinuePlan, Becomes, Keeps
  <2>4. Deep(r)  BY <1>2, <2>2 DEF Deep
  <2> QED  BY <2>2, <2>3, <2>4, BecomesStep
<1>4. CASE DelegateToResume(c)
  <2> DEFINE r == [x EXCEPT !.pc = "resuming", !.cont = TRUE, !.aborted = FALSE]
  <2>1. r \in CallRec /\ r.pc = "resuming" /\ r.frames = x.frames /\ r.cont = TRUE
    BY DEF CallRec, Phases
  <2>2. calls' = [calls EXCEPT ![c] = r]  BY <1>1, <1>4 DEF DelegateToResume, TypeOK
  <2>3. x.pc = "preparing" /\ ~x.cont  BY <1>1, <1>4 DEF DelegateToResume
  <2> HIDE DEF r
  <2>4. Becomes(c, r)  BY <2>1, <2>2, RecordBecomes
  <2>5. Keeps(c)  BY <1>1, <1>4, <2>1, <2>4 DEF DelegateToResume, Becomes, Keeps
  <2>6. Deep(r)  BY <1>2, <2>1, <2>3 DEF Deep
  <2> QED  BY <2>1, <2>4, <2>5, <2>6, BecomesStep
<1>5. CASE ResumeContinues(c)
  <2> DEFINE r == [x EXCEPT !.pc = "loading", !.retry = 0, !.frames = x.frames + 1]
  <2>1. r \in CallRec /\ r.pc = "loading" /\ r.frames = x.frames + 1 /\ r.cont = x.cont
    <3>1. x.frames + 1 \in Nat  BY DEF CallRec
    <3> QED  BY <3>1, CallParts DEF CallRec
  <2>2. calls' = [calls EXCEPT ![c] = r]  BY <1>1, <1>5 DEF ResumeContinues, TypeOK
  <2>3. x.pc = "resuming" /\ LeaseBecomes(lease + 1, leaked)
    BY <1>1, <1>5 DEF ResumeContinues
  <2> HIDE DEF r
  <2>4. Becomes(c, r)  BY <2>1, <2>2, RecordBecomes
  <2>5. Gains(c)  BY <1>1, <2>1, <2>3, <2>4 DEF Becomes, Gains
  <2>6. Deep(r)  BY <1>2, <2>1, <2>3 DEF Deep
  <2> QED  BY <2>1, <2>4, <2>5, <2>6, BecomesStep
<1> QED  BY <1>3, <1>4, <1>5

\* A call that returns gives back what it acquired.
LEMMA ReturnsLease ==
  ASSUME TypeOK, LInv, NEW c \in Calls, Cleanup(c) \/ ResumeRefused(c) \/ FollowUpReturns(c)
  PROVE  LInv'
<1>1. calls' = [calls EXCEPT ![c] = NewCall("idle", 0, 0, FALSE)]
  BY DEF Cleanup, ResumeRefused, FollowUpReturns, IdleCall
<1>2. PICK r \in CallRec : Becomes(c, r) /\ r.pc = "idle" /\ r.frames = 0
  <2>1. NewCall("idle", 0, 0, FALSE) \in CallRec
    BY DEF NewCall, CallRec, Phases
  <2>2. Becomes(c, NewCall("idle", 0, 0, FALSE))
    BY <1>1, <2>1, RecordBecomes
  <2> QED  BY <2>1, <2>2 DEF NewCall
<1>3. Returns(c)
  <2>1. CASE Cleanup(c) \/ ResumeRefused(c)
    BY <1>2, <2>1 DEF Cleanup, ResumeRefused, Becomes, Returns
  <2>2. CASE FollowUpReturns(c)
    <3>1. calls[c].frames = 1  BY <2>2 DEF FollowUpReturns, LInv, Deep
    <3> QED  BY <1>2, <2>2, <3>1 DEF FollowUpReturns, Becomes, Returns
  <2> QED  BY <2>1, <2>2
<1> QED  BY <1>2, <1>3, BecomesStep DEF Deep

\* Follow-ups, which acquire without looking.
LEMMA FollowUpLease ==
  ASSUME TypeOK, LInv, NEW c \in Calls, FollowUpBlocked(c) \/ FollowUpStarts(c)
  PROVE  LInv'
<1>1. calls[c].frames = 0  BY DEF FollowUpBlocked, FollowUpStarts, LInv, Deep
<1>2. CASE FollowUpBlocked(c)
  <2>1. \E s \in Statuses : SetStatus(s, [calls EXCEPT ![c] = NewCall("idle", 0, 0, FALSE)])
    BY <1>2 DEF FollowUpBlocked, IdleCall, Statuses
  <2>2. PICK r \in CallRec : Becomes(c, r) /\ r.pc = "idle" /\ r.frames = 0
    <3>1. NewCall("idle", 0, 0, FALSE) \in CallRec
      BY DEF NewCall, CallRec, Phases
    <3>2. Becomes(c, NewCall("idle", 0, 0, FALSE))
      BY <2>1, <3>1, RecordBecomes
    <3> QED  BY <3>1, <3>2 DEF NewCall
  <2>3. Keeps(c)  BY <1>1, <1>2, <2>2 DEF FollowUpBlocked, Becomes, Keeps
  <2> QED  BY <2>2, <2>3, BecomesStep DEF Deep
<1>3. CASE FollowUpStarts(c)
  <2>1. \E s \in Statuses : SetStatus(s, [calls EXCEPT ![c] = NewCall("following", 0, 1, TRUE)])
    BY <1>3 DEF FollowUpStarts, Statuses
  <2>2. PICK r \in CallRec : Becomes(c, r) /\ r.pc = "following" /\ r.frames = 1
    <3>1. NewCall("following", 0, 1, TRUE) \in CallRec
      BY DEF NewCall, CallRec, Phases
    <3>2. Becomes(c, NewCall("following", 0, 1, TRUE))
      BY <2>1, <3>1, RecordBecomes
    <3> QED  BY <3>1, <3>2 DEF NewCall
  <2>3. Gains(c)  BY <1>1, <1>3, <2>2 DEF FollowUpStarts, Becomes, Gains
  <2> QED  BY <2>2, <2>3, BecomesStep DEF Deep
<1> QED  BY <1>2, <1>3

\* Retries, which run without a lease.
LEMMA TimersLease ==
  ASSUME TypeOK, LInv, NEW c \in Calls, TimerFires(c)  PROVE LInv'
<1>1. CASE RetryRefused(c)  BY <1>1, NobodysStep DEF RetryRefused, Same
<1>2. CASE BackoffEnds(c)
  <2>1. UNCHANGED slotVars /\ SetStatus("backlog", calls)  BY <1>2 DEF BackoffEnds
  <2>2. PICK x \in CallRec : x = calls[c]  BY DEF TypeOK
  <2>3. calls = [calls EXCEPT ![c] = x]  BY <2>2 DEF TypeOK
  <2>4. Becomes(c, x)  BY <2>1, <2>2, <2>3, RecordBecomes DEF Statuses
  <2>5. \A d \in Calls : Same(d)  BY <2>2, <2>4 DEF Becomes, Same
  <2> QED  BY <2>1, <2>5, NobodysStep
<1>3. ASSUME NEW d \in Calls, RetryStarts(c, d)  PROVE LInv'
  <2>1. calls[d].frames = 0  BY <1>3 DEF RetryStarts, LInv, Deep
  <2>2. due[c].retry \in Nat  BY DEF TypeOK, DueRec
  <2>3. PICK r \in CallRec : Becomes(d, r) /\ r.pc = "loading" /\ r.frames = 0
    <3>1. NewCall("loading", due[c].retry, 0, FALSE) \in CallRec
      BY <2>2 DEF NewCall, CallRec, Phases
    <3>2. Becomes(d, NewCall("loading", due[c].retry, 0, FALSE))
      BY <1>3, <2>2, <3>1, RecordBecomes DEF RetryStarts
    <3> QED  BY <3>1, <3>2 DEF NewCall
  <2>4. Keeps(d)  BY <1>3, <2>1, <2>3 DEF RetryStarts, Becomes, Keeps
  <2> QED  BY <2>3, <2>4, BecomesStep DEF Deep
<1> QED  BY <1>1, <1>2, <1>3 DEF TimerFires

\* Stops, sweeps, the board and restarts.
LEMMA EnvironmentLease ==
  ASSUME TypeOK, LInv, StopFeature \/ StopFinishes \/ ClearRetryTimers \/ WaitTimesOut \/ RepairStale
                       \/ ReleaseStaleLease \/ BoardMoves \/ Restart
  PROVE  LInv'
<1>1. CASE StopFeature
  <2>1. PICK e \in Calls : e = entry  BY <1>1 DEF StopFeature, TypeOK
  <2>2. PICK x \in CallRec : x = calls[e]  BY DEF TypeOK
  <2>3. calls' = [calls EXCEPT ![e] = [x EXCEPT !.aborted = TRUE]]
    BY <1>1, <2>1, <2>2 DEF StopFeature, Aborted, TypeOK
  <2>4. \A d \in Calls : Same(d)  BY <2>2, <2>3 DEF Same, TypeOK, CallRec
  <2> QED  BY <1>1, <2>4, NobodysStep DEF StopFeature
<1>2. CASE StopFinishes  BY <1>2, NobodysStep DEF StopFinishes, Same
<1>3. CASE ClearRetryTimers \/ WaitTimesOut \/ RepairStale
  BY <1>3, NobodysStep DEF ClearRetryTimers, WaitTimesOut, RepairStale, Same
<1>4. CASE ReleaseStaleLease
  <2>1. lease \in Nat /\ Released(lease, lease) = 0  BY DEF TypeOK, Released
  <2>2. LeaseBecomes(Released(lease, lease), leaked) /\ \A d \in Calls : Same(d)
    BY <1>4, <2>1 DEF ReleaseStaleLease, Same
  <2> QED  BY <2>1, <2>2, NobodysStep
<1>5. CASE BoardMoves
  <2>1. UNCHANGED slotVars /\ \E s \in Statuses : SetStatus(s, calls)
    BY <1>5 DEF BoardMoves, Statuses
  <2>2. ASSUME NEW c \in Calls  PROVE Same(c)
    <3>1. PICK x \in CallRec : x = calls[c]  BY DEF TypeOK
    <3>2. calls = [calls EXCEPT ![c] = x]  BY <3>1 DEF TypeOK
    <3>3. Becomes(c, x)  BY <2>1, <3>1, <3>2, RecordBecomes
    <3> QED  BY <3>1, <3>3 DEF Becomes, Same
  <2> QED  BY <2>1, <2>2, NobodysStep
<1>6. CASE Restart
  <2>1. \A c \in Calls : Deep(calls'[c])
    BY <1>6 DEF Restart, IdleCall, NewCall, Deep
  <2>2. LeaseExplained'  BY <1>6, TicketsFiniteNext DEF Restart, LeaseExplained
  <2> QED  BY <2>1, <2>2 DEF LInv
<1> QED  BY <1>1, <1>2, <1>3, <1>4, <1>5, <1>6

-----------------------------------------------------------------------------
(* The theorem.                                                             *)

\* Without a call in flight there is no lease and no ticket.
THEOREM LeaseInit == Init => LInv
<1> SUFFICES ASSUME Init  PROVE LInv  OBVIOUS
<1>1. \A c \in Calls : Deep(calls[c])  BY DEF Init, IdleCall, NewCall, Deep
<1>2. LeaseExplained  BY TicketsFinite DEF Init, LeaseExplained
<1> QED  BY <1>1, <1>2 DEF LInv

\* Every step that changes the lease changes the tickets or the leak with it.
THEOREM LeaseNext == TypeOK /\ LInv /\ [Next]_vars => LInv'
<1> SUFFICES ASSUME TypeOK, LInv, [Next]_vars  PROVE LInv'  OBVIOUS
<1>1. ASSUME NEW c \in Calls, CallGoesOn(c)  PROVE LInv'
  BY <1>1, EndsLease, PhasesLease, DelegationLease, ReturnsLease, FollowUpLease
  DEF CallGoesOn, Agent
<1>2. CASE UNCHANGED vars  BY <1>2, NobodysStep DEF vars, Same
<1> QED  BY <1>1, <1>2, StartsLease, TimersLease, EnvironmentLease DEF Next

\* The lease is explained by the calls in flight, for any number of calls and any bounds.
THEOREM LeasesExplained == Spec => []LeaseExplained
<1>1. LInv => LeaseExplained  BY DEF LInv
<1> QED  BY <1>1, LeaseInit, LeaseNext, TypeCorrect, PTL DEF Spec
=============================================================================
