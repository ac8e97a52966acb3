---------------------------- MODULE LoopControl ----------------------------
(***************************************************************************)
(* What the auto-mode loop of one key promises: at most one loop is live,  *)
(* a loop that ended never runs again, and each loop object, live or not,  *)
(* takes a slot only while it has fewer than MaxConcurrency, those that it *)
(* has lost sight of aside.                                                *)
(***************************************************************************)
EXTENDS Naturals, FiniteSets

CONSTANTS Loops, Features, MaxConcurrency, None

VARIABLES live,   \* the loop that runs, or None
          fresh,  \* loops that were never started
          slots,  \* the features each loop has in hand
          extra   \* those of them that it has lost sight of

vars == <<live, fresh, slots, extra>>

Init ==
  /\ live = None
  /\ fresh = Loops
  /\ slots = [l \in Loops |-> {}]
  /\ extra = [l \in Loops |-> {}]

Begin(l) ==
  /\ live = None
  /\ l \in fresh
  /\ live' = l
  /\ fresh' = fresh \ {l}
  /\ UNCHANGED <<slots, extra>>

\* A loop ends with its slots or gives them all up.
End ==
  /\ live # None
  /\ live' = None
  /\ \/ UNCHANGED <<slots, extra>>
     \/ /\ slots' = [slots EXCEPT ![live] = {}]
        /\ extra' = [extra EXCEPT ![live] = {}]
  /\ UNCHANGED fresh

Take(l, f) ==
  /\ l \notin fresh
  /\ Cardinality(slots[l] \ extra[l]) < MaxConcurrency
  /\ slots' = [slots EXCEPT ![l] = @ \cup {f}]
  /\ extra' \in {extra, [extra EXCEPT ![l] = @ \cup {f}]}
  /\ UNCHANGED <<live, fresh>>

Free(l, F) ==
  /\ slots' = [slots EXCEPT ![l] = @ \ F]
  /\ extra' = [extra EXCEPT ![l] = @ \ F]
  /\ UNCHANGED <<live, fresh>>

\* Some loops lose sight of a feature.
Overlook(f, L) ==
  /\ extra' = [l \in Loops |-> IF l \in L THEN extra[l] \cup {f} ELSE extra[l]]
  /\ \A l \in L : f \in slots[l]
  /\ UNCHANGED <<live, fresh, slots>>

Next ==
  \/ \E l \in Loops, F \in SUBSET Features : Free(l, F)
  \/ \E l \in Loops, f \in Features : Take(l, f)
  \/ \E f \in Features, L \in SUBSET Loops : Overlook(f, L)
  \/ \E l \in Loops : Begin(l)
  \/ End

Spec == Init /\ [][Next]_vars
=============================================================================
