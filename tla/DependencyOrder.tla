--------------------------- MODULE DependencyOrder ---------------------------
(***************************************************************************)
(* What resolveDependencies() promises, without its counters: as long as   *)
(* it can, it takes one of the most urgent features whose needs are all in *)
(* the order; what can never be freed follows in the order of the array,   *)
(* and a cycle is reported before the result is returned.                  *)
(***************************************************************************)
EXTENDS Naturals, Sequences

CONSTANTS Features, Priorities

VARIABLES
  needs,     \* per feature: the features it depends on
  priority,  \* per feature; lower is more urgent
  order,     \* the result so far
  phase,     \* "free" while features can be freed, then "rest", then "done"
  circular   \* a cycle was reported

vars == <<needs, priority, order, phase, circular>>

Init ==
  /\ needs \in [Features -> SUBSET Features]
  /\ priority \in [Features -> Priorities]
  /\ order = <<>>
  /\ phase = "free"
  /\ circular = FALSE

placed == {order[i] : i \in DOMAIN order}
free   == {f \in Features \ placed : needs[f] \subseteq placed}

Take ==
  /\ phase = "free"
  /\ \E f \in free : /\ \A g \in free : priority[f] <= priority[g]
                     /\ order' = Append(order, f)
  /\ UNCHANGED <<needs, priority, phase, circular>>

Stuck ==
  /\ phase = "free"
  /\ free = {}
  /\ phase' = IF placed = Features THEN "done" ELSE "rest"
  /\ UNCHANGED <<needs, priority, order, circular>>

Report ==
  /\ phase = "rest"
  /\ circular' = TRUE
  /\ UNCHANGED <<needs, priority, order, phase>>

AddRest ==
  /\ phase = "rest"
  /\ \E f \in Features \ placed : /\ \A g \in Features \ placed : f <= g
                                  /\ order' = Append(order, f)
  /\ UNCHANGED <<needs, priority, phase, circular>>

Return ==
  /\ phase = "rest"
  /\ placed = Features
  /\ circular
  /\ phase' = "done"
  /\ UNCHANGED <<needs, priority, order, circular>>

Next == Take \/ Stuck \/ Report \/ AddRest \/ Return

Spec == Init /\ [][Next]_vars
=============================================================================
