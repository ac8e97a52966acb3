------------------------- MODULE DependencyResolver -------------------------
(***************************************************************************)
(* resolveDependencies(): the order in which the scheduler and the board   *)
(* go through features that depend on one another.  Kahn's algorithm takes *)
(* the features whose dependencies are all ordered, most urgent first;     *)
(* what is left hangs on a cycle, which a depth-first search looks for.    *)
(* Features are numbered as in the array.  A dependency may be unknown     *)
(* (deleted, or not among the features passed), the feature itself, or     *)
(* listed twice: nothing on the server rejects such lists.                 *)
(***************************************************************************)
EXTENDS Naturals, Sequences, FiniteSets

CONSTANTS
  N,            \* length of the array
  MaxDeps,      \* bound on the length of a dependency list
  Priorities    \* lower is more urgent

ASSUME ResolverAssumption == N \in Nat /\ MaxDeps \in Nat /\ Priorities \subseteq Nat

Features == 1..N
Unknown  == 0   \* an id that no feature of the array has

VARIABLES
  dependencies,    \* per feature: the list of ids
  priority,        \* per feature
  pc,              \* where the function is
  inDegree,        \* per feature: dependencies that are not ordered yet
  queue,           \* features that can be ordered; the sort picks among them
  orderedFeatures, \* the result
  remaining,       \* features on or behind a cycle
  visited, recursionStack, currentPath, \* of detectCycles
  calls,           \* the dfs() calls in progress: feature and loop position
  cycles           \* circularDependencies

inputs == <<dependencies, priority>>
kahn   == <<inDegree, queue, orderedFeatures, remaining>>
search == <<visited, recursionStack, currentPath, calls, cycles>>
vars   == <<inputs, pc, kahn, search>>

Ids == Features \cup {Unknown}
Lists == UNION {[1..n -> Ids] : n \in 0..MaxDeps}

\* The dependencies of an id; an unknown one has none.
depsOf(id) == IF id \in Features THEN dependencies[id] ELSE <<>>

\* The members of a sequence.
elems(s) == {s[i] : i \in DOMAIN s}

\* The positions in f's list that name a feature of S.
edges(f, S) == {i \in DOMAIN dependencies[f] : dependencies[f][i] \in S}

TypeOK ==
  /\ dependencies \in [Features -> Lists]
  /\ priority \in [Features -> Priorities]
  /\ pc \in {"order", "search", "done"}
  /\ inDegree \in [Features -> Nat]
  /\ queue \subseteq Features
  /\ orderedFeatures \in Seq(Features)
  /\ remaining \subseteq Features
  /\ visited \subseteq Ids
  /\ recursionStack \subseteq Ids
  /\ currentPath \in Seq(Ids)
  /\ calls \in Seq([id : Ids, at : Nat \ {0}])
  /\ cycles \in Seq(Seq(Ids))

\* Faulty Init: a dependency that is listed twice is one edge.
InitDistinct ==
  /\ dependencies \in [Features -> Lists]
  /\ priority \in [Features -> Priorities]
  /\ pc = "order"
  /\ inDegree = [f \in Features |-> Cardinality(elems(dependencies[f]) \cap Features)]
  /\ queue = {f \in Features : inDegree[f] = 0}
  /\ orderedFeatures = <<>>
  /\ remaining = {}
  /\ visited = {} /\ recursionStack = {} /\ currentPath = <<>>
  /\ calls = <<>> /\ cycles = <<>>

\* The graph is built: an edge for every dependency that is in the array.
Init ==
  /\ dependencies \in [Features -> Lists]
  /\ priority \in [Features -> Priorities]
  /\ pc = "order"
  /\ inDegree = [f \in Features |-> Cardinality(edges(f, Features))]
  /\ queue = {f \in Features : inDegree[f] = 0}
  /\ orderedFeatures = <<>>
  /\ remaining = {}
  /\ visited = {} /\ recursionStack = {} /\ currentPath = <<>>
  /\ calls = <<>> /\ cycles = <<>>

-----------------------------------------------------------------------------
(* Kahn's algorithm.                                                        *)

\* The head of the sorted queue; the model leaves open which of equals it is.
urgent(f) == f \in queue /\ \A g \in queue : priority[f] <= priority[g]

\* Faulty lowered: a feature that lists the current one twice loses one edge.
loweredOnce(current) ==
  [f \in Features |-> IF edges(f, {current}) = {} THEN inDegree[f] ELSE inDegree[f] - 1]

\* Faulty lowered: a dependent is free when one of its dependencies is ordered.
loweredToZero(current) ==
  [f \in Features |-> IF edges(f, {current}) = {} THEN inDegree[f] ELSE 0]

\* One edge less for every time a feature lists the current one.
lowered(current) ==
  [f \in Features |-> inDegree[f] - Cardinality(edges(f, {current}))]

takes(current) ==
  /\ orderedFeatures' = Append(orderedFeatures, current)
  /\ inDegree' = lowered(current)
  /\ queue' = (queue \ {current})
                \cup {f \in Features : inDegree[f] # 0 /\ inDegree'[f] = 0}
  /\ UNCHANGED <<inputs, pc, remaining, search>>

\* Faulty Order: the queue is not sorted.
OrderUnsorted ==
  /\ pc = "order"
  /\ \E current \in queue : takes(current)

Order ==
  /\ pc = "order"
  /\ \E current \in Features : urgent(current) /\ takes(current)

\* The queue is empty: what is left is searched for cycles.
Leftover ==
  /\ pc = "order"
  /\ queue = {}
  /\ remaining' = Features \ elems(orderedFeatures)
  /\ pc' = IF remaining' = {} THEN "done" ELSE "search"
  /\ UNCHANGED <<inputs, inDegree, queue, orderedFeatures, search>>

-----------------------------------------------------------------------------
(* detectCycles(): depth-first search.                                      *)

\* dfs(id) begins, called from the loops of the calls in `callers`.
begins(id, callers) ==
  /\ visited' = visited \cup {id}
  /\ recursionStack' = recursionStack \cup {id}
  /\ currentPath' = Append(currentPath, id)
  /\ calls' = Append(callers, [id |-> id, at |-> 1])

\* The first of a set in the array's order.
first(f, S) == f \in S /\ \A g \in S : f <= g

\* The next feature of `remaining` that was not visited.
SearchFrom ==
  /\ pc = "search"
  /\ calls = <<>>
  /\ \E f \in Features : first(f, remaining \ visited) /\ begins(f, <<>>)
  /\ UNCHANGED <<inputs, pc, kahn, cycles>>

\* The innermost call, the call with its loop one further on, and the next id.
top     == calls[Len(calls)]
goneOn  == [calls EXCEPT ![Len(calls)].at = @ + 1]
looking == pc = "search" /\ calls # <<>> /\ top.at <= Len(depsOf(top.id))
next    == depsOf(top.id)[top.at]

Descend ==
  /\ looking
  /\ next \notin visited
  /\ begins(next, goneOn)
  /\ UNCHANGED <<inputs, pc, kahn, cycles>>

SkipVisited ==
  /\ looking
  /\ next \in visited
  /\ next \notin recursionStack
  /\ calls' = goneOn
  /\ UNCHANGED <<inputs, pc, kahn, visited, recursionStack, currentPath, cycles>>

\* Array.indexOf; no id is on the path twice.
indexOf(id) == CHOOSE i \in DOMAIN currentPath : currentPath[i] = id

\* A cycle: every call returns true at once, and none of them takes its feature off
\* the path and the recursion stack.
CycleFound ==
  /\ looking
  /\ next \in visited
  /\ next \in recursionStack
  /\ cycles' = Append(cycles, SubSeq(currentPath, indexOf(next), Len(currentPath)))
  /\ calls' = <<>>
  /\ UNCHANGED <<inputs, pc, kahn, visited, recursionStack, currentPath>>

\* Faulty Backtrack: a feature that was left stays on the path.
BacktrackKeepsPath ==
  /\ pc = "search"
  /\ calls # <<>>
  /\ ~looking
  /\ recursionStack' = recursionStack \ {top.id}
  /\ calls' = SubSeq(calls, 1, Len(calls) - 1)
  /\ UNCHANGED <<inputs, pc, kahn, visited, currentPath, cycles>>

Backtrack ==
  /\ pc = "search"
  /\ calls # <<>>
  /\ ~looking
  /\ currentPath' = SubSeq(currentPath, 1, Len(currentPath) - 1)
  /\ recursionStack' = recursionStack \ {top.id}
  /\ calls' = SubSeq(calls, 1, Len(calls) - 1)
  /\ UNCHANGED <<inputs, pc, kahn, visited, cycles>>

\* The features that are left are added at the end, in the array's order.
AddLeftover ==
  /\ pc = "search"
  /\ calls = <<>>
  /\ remaining \subseteq visited
  /\ \E f \in Features : /\ first(f, remaining \ elems(orderedFeatures))
                         /\ orderedFeatures' = Append(orderedFeatures, f)
  /\ UNCHANGED <<inputs, pc, inDegree, queue, remaining, search>>

\* Faulty Finish: the features on cycles are left out.
FinishEarly ==
  /\ pc = "search"
  /\ calls = <<>>
  /\ remaining \subseteq visited
  /\ pc' = "done"
  /\ UNCHANGED <<inputs, kahn, search>>

Finish ==
  /\ pc = "search"
  /\ calls = <<>>
  /\ remaining \subseteq visited \cap elems(orderedFeatures)
  /\ pc' = "done"
  /\ UNCHANGED <<inputs, kahn, search>>

-----------------------------------------------------------------------------
Search == SearchFrom \/ Descend \/ SkipVisited \/ CycleFound \/ Backtrack
Next == Order \/ Leftover \/ Search \/ AddLeftover \/ Finish

Spec == Init /\ [][Next]_vars

-----------------------------------------------------------------------------
(* Properties.                                                              *)

\* The features Kahn's algorithm has ordered.
sorted == {i \in DOMAIN orderedFeatures : orderedFeatures[i] \notin remaining}

\* "Features in dependency-aware order" (resolver.ts:11): a feature on no cycle and
\* behind none comes after every feature it lists, however often and with whatever
\* unknown ids.
TopologicalOrder ==
  \A i \in sorted : \A k \in DOMAIN dependencies[orderedFeatures[i]] :
    LET d == dependencies[orderedFeatures[i]][k]
    IN d \in Features => \E j \in 1..(i - 1) : orderedFeatures[j] = d

\* "modified Kahn's algorithm that respects both dependencies and priorities": a
\* feature is never placed before a more urgent one that could have come as early.
PriorityRespected ==
  \A i \in sorted : \A g \in Features :
    LET before == {orderedFeatures[j] : j \in 1..(i - 1)}
    IN g \notin before /\ edges(g, Features \ before) = {}
         => priority[orderedFeatures[i]] <= priority[g]

\* Every feature comes out exactly once, cycles or not: none is lost or started twice.
EveryFeatureOnce ==
  /\ pc = "done" => elems(orderedFeatures) = Features
  /\ \A i, j \in DOMAIN orderedFeatures :
       orderedFeatures[i] = orderedFeatures[j] => i = j

\* A set of features of which each lists another member can never be ordered.
knot(S) == S \subseteq Features /\ \A f \in S : edges(f, S) # {}

\* Exactly the features on or behind a cycle are left over.
OnlyCyclesRemain ==
  pc # "order" => remaining = UNION {S \in SUBSET Features : knot(S)}

\* A closed walk along the dependencies.
closed(c) ==
  c # <<>> /\ \A i \in DOMAIN c :
    c[IF i = Len(c) THEN 1 ELSE i + 1] \in elems(depsOf(c[i]))

\* The search finds a cycle whenever there is one, and the first one it reports is
\* one.  (Later ones need not be: CycleFound leaves path and stack behind.)
CycleReported ==
  /\ cycles # <<>> => closed(cycles[1])
  /\ pc = "done" => (cycles = <<>> <=> remaining = {})

\* Seen from outside: the known dependencies, each once, and how far the result is.
knownNeeds == [f \in Features |-> elems(dependencies[f]) \cap Features]
phase == IF pc = "order" THEN "free" ELSE IF pc = "search" THEN "rest" ELSE "done"

Abstract == INSTANCE DependencyOrder WITH
  needs <- knownNeeds, order <- orderedFeatures, circular <- cycles # <<>>

\* Counting edges down orders the features as looking at their dependencies each time
\* would, whatever ids are unknown, repeated or circular: the resolver implements
\* DependencyOrder.
AbstractSpec == Abstract!Spec

\* The function ends: every step goes on to a later phase, or orders one more feature,
\* or, in the search, visits one more id, or leaves a call, or moves its loop on.
StepsForward ==
  \/ pc = "order" /\ pc' # "order"
  \/ pc = "search" /\ pc' = "done"
  \/ pc' = pc /\ visited' = visited /\ calls' = calls
       /\ Len(orderedFeatures') = Len(orderedFeatures) + 1 /\ Len(orderedFeatures) < N
  \/ pc' = pc /\ visited \subseteq visited' /\ visited' # visited
  \/ pc' = pc /\ visited' = visited /\ Len(calls') < Len(calls)
  \/ /\ pc' = pc /\ visited' = visited /\ Len(calls') = Len(calls)
     /\ calls'[Len(calls')].at = top.at + 1 /\ top.at <= Len(depsOf(top.id))
EndsAtLast == [][StepsForward]_vars
=============================================================================
