---------------------- MODULE DependencyResolverProofs ----------------------
(***************************************************************************)
(* Proofs about DependencyResolver, for arrays, dependency lists and       *)
(* priorities of any size: what Kahn's algorithm orders and leaves over,   *)
(* and what the search for cycles reports.                                 *)
(***************************************************************************)
EXTENDS DependencyResolver, SequenceTheorems, FiniteSetTheorems, TLAPS

USE ResolverAssumption

-----------------------------------------------------------------------------
(* Sequences and edges.                                                     *)

\* What Append does to positions and members.
LEMMA Appended ==
  ASSUME NEW S, NEW s \in Seq(S), NEW e \in S
  PROVE  /\ Append(s, e) \in Seq(S)
         /\ Len(Append(s, e)) = Len(s) + 1
         /\ DOMAIN Append(s, e) = 1..(Len(s) + 1)
         /\ \A i \in 1..Len(s) : Append(s, e)[i] = s[i]
         /\ Append(s, e)[Len(s) + 1] = e
         /\ elems(Append(s, e)) = elems(s) \cup {e}
         /\ Len(s) \in Nat /\ DOMAIN s = 1..Len(s)
<1>1. /\ Append(s, e) \in Seq(S)
      /\ Len(Append(s, e)) = Len(s) + 1
      /\ \A i \in 1..Len(s) : Append(s, e)[i] = s[i]
      /\ Append(s, e)[Len(s) + 1] = e
      /\ Len(s) \in Nat /\ DOMAIN s = 1..Len(s)
  OBVIOUS
<1>2. DOMAIN Append(s, e) = 1..(Len(s) + 1)  BY <1>1
<1>3. elems(Append(s, e)) = elems(s) \cup {e}  BY <1>1, <1>2 DEF elems
<1> QED  BY <1>1, <1>2, <1>3

\* The dependency lists are sequences of ids.
LEMMA ListsAreSequences ==
  ASSUME dependencies \in [Features -> Lists], NEW id
  PROVE  /\ depsOf(id) \in Seq(Ids)
         /\ DOMAIN depsOf(id) = 1..Len(depsOf(id))
         /\ Len(depsOf(id)) \in Nat
         /\ id \in Features => depsOf(id) = dependencies[id]
<1>1. CASE id \in Features
  <2>1. PICK n \in 0..MaxDeps : dependencies[id] \in [1..n -> Ids]  BY <1>1 DEF Lists
  <2>2. dependencies[id] \in Seq(Ids)  BY <2>1
  <2> QED  BY <1>1, <2>2 DEF depsOf
<1>2. CASE id \notin Features  BY <1>2 DEF depsOf
<1> QED  BY <1>1, <1>2

\* Edges are finitely many, and their number is zero when there is none.
LEMMA EdgesFinite ==
  ASSUME dependencies \in [Features -> Lists], NEW f \in Features, NEW S
  PROVE  /\ IsFiniteSet(edges(f, S))
         /\ Cardinality(edges(f, S)) \in Nat
         /\ Cardinality(edges(f, S)) = 0 <=> edges(f, S) = {}
<1>1. DOMAIN dependencies[f] = 1..Len(dependencies[f]) /\ Len(dependencies[f]) \in Nat
  BY ListsAreSequences
<1>2. IsFiniteSet(1..Len(dependencies[f]))  BY <1>1, FS_Interval
<1>3. edges(f, S) \in SUBSET (1..Len(dependencies[f]))  BY <1>1 DEF edges
<1>4. IsFiniteSet(edges(f, S))  BY <1>2, <1>3, FS_Subset
<1> QED  BY <1>4, FS_CardinalityType, FS_EmptySet

\* Taking a feature out of the set takes its edges out of the count.
LEMMA EdgesWithout ==
  ASSUME dependencies \in [Features -> Lists], NEW f \in Features, NEW S, NEW c \in S
  PROVE  Cardinality(edges(f, S \ {c}))
           = Cardinality(edges(f, S)) - Cardinality(edges(f, {c}))
<1>1. edges(f, S) = edges(f, S \ {c}) \cup edges(f, {c})  BY DEF edges
<1>2. edges(f, S \ {c}) \cap edges(f, {c}) = {}  BY DEF edges
<1>3. /\ IsFiniteSet(edges(f, S \ {c})) /\ Cardinality(edges(f, S \ {c})) \in Nat
      /\ IsFiniteSet(edges(f, {c})) /\ Cardinality(edges(f, {c})) \in Nat
  BY EdgesFinite
<1>4. Cardinality(edges(f, S \ {c}) \cup edges(f, {c}))
        = Cardinality(edges(f, S \ {c})) + Cardinality(edges(f, {c}))
            - Cardinality(edges(f, S \ {c}) \cap edges(f, {c}))
  BY <1>3, FS_Union
<1>5. Cardinality(edges(f, S \ {c}) \cap edges(f, {c})) = 0  BY <1>2, FS_EmptySet
<1>6. Cardinality(edges(f, S))
        = Cardinality(edges(f, S \ {c})) + Cardinality(edges(f, {c})) - 0
  BY <1>1, <1>4, <1>5
<1> QED  BY <1>3, <1>6

-----------------------------------------------------------------------------
(* Kahn's algorithm.                                                        *)

KahnTypes ==
  /\ dependencies \in [Features -> Lists]
  /\ priority \in [Features -> Priorities]
  /\ pc \in {"order", "search", "done"}
  /\ inDegree \in [Features -> Nat]
  /\ queue \subseteq Features
  /\ orderedFeatures \in Seq(Features)
  /\ remaining \subseteq Features

\* While it orders, inDegree counts what is not ordered, and the queue holds what
\* has nothing left to wait for.
Counted ==
  pc = "order" =>
    /\ remaining = {}
    /\ \A f \in Features :
         /\ inDegree[f] = Cardinality(edges(f, Features \ elems(orderedFeatures)))
         /\ f \in queue <=> inDegree[f] = 0 /\ f \notin elems(orderedFeatures)
         /\ f \in elems(orderedFeatures) => inDegree[f] = 0

\* No feature comes out twice.
Distinct ==
  \A i, j \in DOMAIN orderedFeatures : orderedFeatures[i] = orderedFeatures[j] => i = j

\* What is left hangs together, and nothing else is missing.
Left ==
  pc # "order" =>
    /\ knot(remaining)
    /\ Features \ elems(orderedFeatures) \subseteq remaining
    /\ pc = "done" => remaining \subseteq elems(orderedFeatures)
    /\ pc = "search" => remaining # {}

\* No member of a knot is ordered.
Unknotted ==
  \A S \in SUBSET Features : knot(S) => \A i \in sorted : orderedFeatures[i] \notin S

KInv == /\ KahnTypes /\ Counted /\ Distinct /\ Left
        /\ TopologicalOrder /\ PriorityRespected /\ Unknotted

\* The invariant holds when the graph is built.
LEMMA KahnInit == Init => KInv
<1> SUFFICES ASSUME Init  PROVE KInv  OBVIOUS
<1>1. orderedFeatures = <<>> /\ elems(orderedFeatures) = {} /\ sorted = {}
  BY DEF Init, elems, sorted
<1>2. dependencies \in [Features -> Lists]  BY DEF Init
<1>3. \A f \in Features : inDegree[f] = Cardinality(edges(f, Features)) /\ inDegree[f] \in Nat
  BY <1>2, EdgesFinite DEF Init
<1>4. KahnTypes  BY <1>1, <1>3 DEF Init, KahnTypes
<1>5. Counted
  <2>1. Features \ elems(orderedFeatures) = Features  BY <1>1
  <2> QED  BY <2>1, <1>1, <1>3 DEF Init, Counted
<1>6. Distinct /\ Left  BY <1>1 DEF Init, Distinct, Left
<1>7. TopologicalOrder /\ PriorityRespected /\ Unknotted
  BY <1>1 DEF TopologicalOrder, PriorityRespected, Unknotted
<1> QED  BY <1>4, <1>5, <1>6, <1>7 DEF KInv

\* A feature without open edges has all its dependencies in the order.
LEMMA NothingOpen ==
  ASSUME KInv, pc = "order", NEW f \in Features
  PROVE  inDegree[f] = 0 <=> edges(f, Features \ elems(orderedFeatures)) = {}
BY EdgesFinite DEF KInv, KahnTypes, Counted

\* The counts after a feature is taken.
LEMMA TakesCounts ==
  ASSUME KInv, pc = "order", NEW c \in Features, c \in queue, takes(c)
  PROVE  /\ elems(orderedFeatures') = elems(orderedFeatures) \cup {c}
         /\ orderedFeatures' \in Seq(Features)
         /\ \A f \in Features :
              /\ inDegree'[f] \in Nat
              /\ inDegree'[f] = Cardinality(edges(f, Features \ elems(orderedFeatures')))
              /\ inDegree[f] = 0 => inDegree'[f] = 0
<1>1. /\ orderedFeatures' \in Seq(Features)
      /\ elems(orderedFeatures') = elems(orderedFeatures) \cup {c}
  BY Appended DEF takes, KInv, KahnTypes
<1>2. dependencies \in [Features -> Lists]  BY DEF KInv, KahnTypes
<1>3. c \in Features \ elems(orderedFeatures)  BY DEF KInv, Counted
<1>4. ASSUME NEW f \in Features
      PROVE  /\ inDegree'[f] \in Nat
             /\ inDegree'[f] = Cardinality(edges(f, Features \ elems(orderedFeatures')))
             /\ inDegree[f] = 0 => inDegree'[f] = 0
  <2>1. inDegree'[f] = inDegree[f] - Cardinality(edges(f, {c}))  BY DEF takes, lowered
  <2>2. inDegree[f] = Cardinality(edges(f, Features \ elems(orderedFeatures)))
    BY DEF KInv, Counted
  <2>3. Features \ elems(orderedFeatures') = (Features \ elems(orderedFeatures)) \ {c}
    BY <1>1
  <2>4. inDegree'[f] = Cardinality(edges(f, Features \ elems(orderedFeatures')))
    BY <2>1, <2>2, <2>3, <1>2, <1>3, EdgesWithout
  <2>5. inDegree'[f] \in Nat  BY <2>4, <1>2, EdgesFinite
  <2>6. Cardinality(edges(f, {c})) \in Nat  BY <1>2, EdgesFinite
  <2>7. inDegree[f] \in Nat  BY DEF KInv, KahnTypes
  <2> QED  BY <2>1, <2>4, <2>5, <2>6, <2>7
<1> QED  BY <1>1, <1>4

\* A feature is taken from the queue.
LEMMA OrderInv == KInv /\ Order => KInv'
<1> SUFFICES ASSUME KInv, pc = "order", NEW c \in Features, urgent(c), takes(c)
             PROVE  KInv'
  BY DEF Order
<1> DEFINE n == Len(orderedFeatures) + 1
<1>1. c \in queue /\ c \notin elems(orderedFeatures) /\ inDegree[c] = 0
  BY DEF urgent, KInv, KahnTypes, Counted
<1>2. /\ orderedFeatures' \in Seq(Features)
      /\ DOMAIN orderedFeatures = 1..(n - 1) /\ DOMAIN orderedFeatures' = 1..n /\ n \in Nat \ {0}
      /\ \A i \in 1..(n - 1) : orderedFeatures'[i] = orderedFeatures[i]
      /\ orderedFeatures'[n] = c
      /\ elems(orderedFeatures') = elems(orderedFeatures) \cup {c}
  BY Appended DEF takes, KInv, KahnTypes
<1>3. remaining = {} /\ remaining' = {} /\ pc' = "order"
      /\ dependencies' = dependencies /\ priority' = priority
  BY DEF takes, KInv, Counted, inputs
<1>4. sorted = 1..(n - 1) /\ sorted' = 1..n  BY <1>2, <1>3 DEF sorted
<1>5. \A f \in Features :
        /\ inDegree'[f] \in Nat
        /\ inDegree'[f] = Cardinality(edges(f, Features \ elems(orderedFeatures')))
        /\ inDegree[f] = 0 => inDegree'[f] = 0
  BY <1>1, TakesCounts
<1>6. KahnTypes'
  <2>1. inDegree' \in [Features -> Nat]  BY <1>5 DEF takes, lowered
  <2>2. queue' \subseteq Features  BY DEF takes, KInv, KahnTypes
  <2> QED  BY <1>2, <1>3, <2>1, <2>2 DEF KInv, KahnTypes
<1>7. Counted'
  <2> SUFFICES ASSUME NEW f \in Features
               PROVE  /\ inDegree'[f] = Cardinality(edges(f, Features \ elems(orderedFeatures))')
                      /\ f \in queue' <=> inDegree'[f] = 0 /\ f \notin elems(orderedFeatures')
                      /\ f \in elems(orderedFeatures') => inDegree'[f] = 0
    BY <1>3 DEF Counted
  <2>1. edges(f, Features \ elems(orderedFeatures))'
          = edges(f, Features \ elems(orderedFeatures'))
    BY <1>3 DEF edges
  <2>2. f \in queue <=> inDegree[f] = 0 /\ f \notin elems(orderedFeatures)
    BY DEF KInv, Counted
  <2>3. f \in elems(orderedFeatures) => inDegree[f] = 0  BY DEF KInv, Counted
  <2>4. f \in queue' <=> (f \in queue /\ f # c) \/ (inDegree[f] # 0 /\ inDegree'[f] = 0)
    BY DEF takes
  <2> QED  BY <1>1, <1>2, <1>5, <2>1, <2>2, <2>3, <2>4
<1>8. Distinct'
  BY <1>1, <1>2 DEF Distinct, KInv, elems
<1>9. Left'  BY <1>3 DEF Left
<1>10. TopologicalOrder'
  <2> SUFFICES ASSUME NEW i \in 1..n, NEW k \in DOMAIN dependencies[orderedFeatures'[i]],
                      dependencies[orderedFeatures'[i]][k] \in Features
               PROVE  \E j \in 1..(i - 1) :
                        orderedFeatures'[j] = dependencies[orderedFeatures'[i]][k]
    BY <1>3, <1>4 DEF TopologicalOrder
  <2>1. CASE i \in 1..(n - 1)
    BY <2>1, <1>2, <1>4 DEF KInv, TopologicalOrder
  <2>2. CASE i = n
    <3>1. edges(c, Features \ elems(orderedFeatures)) = {}  BY <1>1, NothingOpen
    <3>2. dependencies[c][k] \in elems(orderedFeatures)  BY <2>2, <1>2, <3>1 DEF edges
    <3> QED  BY <2>2, <3>2, <1>2 DEF elems
  <2> QED  BY <2>1, <2>2, <1>2
<1>11. PriorityRespected'
  <2> SUFFICES ASSUME NEW i \in 1..n, NEW g \in Features,
                      g \notin {orderedFeatures'[j] : j \in 1..(i - 1)},
                      edges(g, Features \ {orderedFeatures[j] : j \in 1..(i - 1)})' = {}
               PROVE  priority[orderedFeatures'[i]] <= priority[g]
    BY <1>3, <1>4 DEF PriorityRespected
  <2>1. {orderedFeatures'[j] : j \in 1..(i - 1)} = {orderedFeatures[j] : j \in 1..(i - 1)}
    BY <1>2
  <2>2. edges(g, Features \ {orderedFeatures[j] : j \in 1..(i - 1)}) = {}
    BY <1>3, <2>1 DEF edges
  <2>3. CASE i \in 1..(n - 1)
    BY <2>3, <2>1, <2>2, <1>2, <1>4 DEF KInv, PriorityRespected
  <2>4. CASE i = n
    <3>1. {orderedFeatures[j] : j \in 1..(i - 1)} = elems(orderedFeatures)
      BY <2>4, <1>2 DEF elems
    <3>2. inDegree[g] = 0 /\ g \notin elems(orderedFeatures)  BY <2>1, <2>2, <3>1, NothingOpen
    <3>3. g \in queue  BY <3>2 DEF KInv, Counted
    <3> QED  BY <2>4, <3>3, <1>2 DEF urgent
  <2> QED  BY <2>3, <2>4, <1>2
<1>12. Unknotted'
  <2> SUFFICES ASSUME NEW S \in SUBSET Features, knot(S)', NEW i \in 1..n
               PROVE  orderedFeatures'[i] \notin S
    BY <1>4 DEF Unknotted
  <2>1. knot(S)  BY <1>3 DEF knot, edges
  <2>2. \A j \in 1..(n - 1) : orderedFeatures[j] \notin S
    BY <2>1, <1>4 DEF KInv, Unknotted
  <2>3. c \notin S
    <3>1. edges(c, Features \ elems(orderedFeatures)) = {}  BY <1>1, NothingOpen
    <3>2. S \subseteq Features \ elems(orderedFeatures)  BY <2>2, <1>2 DEF elems
    <3>3. edges(c, S) = {}  BY <3>1, <3>2 DEF edges
    <3> QED  BY <3>3, <2>1 DEF knot
  <2> QED  BY <2>2, <2>3, <1>2
<1> QED  BY <1>6, <1>7, <1>8, <1>9, <1>10, <1>11, <1>12 DEF KInv

\* The queue runs empty.
LEMMA LeftoverInv == KInv /\ Leftover => KInv'
<1> SUFFICES ASSUME KInv, Leftover  PROVE KInv'  OBVIOUS
<1>1. /\ remaining = {} /\ remaining' = Features \ elems(orderedFeatures)
      /\ pc' \in {"search", "done"} /\ (pc' = "done" <=> remaining' = {})
      /\ UNCHANGED <<inputs, inDegree, queue, orderedFeatures>>
  BY DEF Leftover, KInv, Counted
<1>2. sorted' = sorted  BY <1>1 DEF sorted, elems
<1>3. KahnTypes'  BY <1>1 DEF KahnTypes, KInv, inputs
<1>4. Counted' /\ Distinct'  BY <1>1 DEF Counted, Distinct, KInv
<1>5. Left'
  <2>1. ASSUME NEW f \in remaining'  PROVE edges(f, remaining)' # {}
    <3>1. inDegree[f] # 0  BY <1>1 DEF Leftover, KInv, Counted
    <3>2. edges(f, Features \ elems(orderedFeatures)) # {}
      BY <1>1, <3>1, NothingOpen DEF Leftover
    <3> QED  BY <1>1, <3>2 DEF edges, inputs
  <2> QED  BY <1>1, <2>1 DEF Left, knot
<1>6. TopologicalOrder'
  BY <1>1, <1>2 DEF TopologicalOrder, KInv, inputs
<1>7. PriorityRespected'
  BY <1>1, <1>2 DEF PriorityRespected, KInv, inputs, edges
<1>8. Unknotted'
  BY <1>1, <1>2, ZenonT(40) DEF Unknotted, KInv, knot, edges, inputs
<1> QED  BY <1>3, <1>4, <1>5, <1>6, <1>7, <1>8 DEF KInv

\* A feature that was left over is added.
LEMMA AddLeftoverInv == KInv /\ AddLeftover => KInv'
<1> SUFFICES ASSUME KInv, AddLeftover  PROVE KInv'  OBVIOUS
<1> DEFINE n == Len(orderedFeatures) + 1
<1>1. PICK f \in Features : /\ f \in remaining /\ f \notin elems(orderedFeatures)
                            /\ orderedFeatures' = Append(orderedFeatures, f)
  BY DEF AddLeftover, first
<1>2. /\ orderedFeatures' \in Seq(Features)
      /\ DOMAIN orderedFeatures = 1..(n - 1) /\ DOMAIN orderedFeatures' = 1..n /\ n \in Nat \ {0}
      /\ \A i \in 1..(n - 1) : orderedFeatures'[i] = orderedFeatures[i]
      /\ orderedFeatures'[n] = f
      /\ elems(orderedFeatures') = elems(orderedFeatures) \cup {f}
  BY <1>1, Appended DEF KInv, KahnTypes
<1>3. pc = "search" /\ UNCHANGED <<inputs, pc, inDegree, queue, remaining>>
  BY DEF AddLeftover
<1>4. sorted' = sorted /\ sorted \subseteq 1..(n - 1)  BY <1>1, <1>2, <1>3 DEF sorted
<1>5. KahnTypes'  BY <1>2, <1>3 DEF KahnTypes, KInv, inputs
<1>6. Counted'  BY <1>3 DEF Counted
<1>7. Distinct'  BY <1>1, <1>2 DEF Distinct, KInv, elems
<1>8. Left'  BY <1>2, <1>3 DEF Left, KInv, knot, edges, inputs
<1>9. TopologicalOrder'
  <2> SUFFICES ASSUME NEW i \in sorted, NEW k \in DOMAIN dependencies[orderedFeatures'[i]],
                      dependencies[orderedFeatures'[i]][k] \in Features
               PROVE  \E j \in 1..(i - 1) :
                        orderedFeatures'[j] = dependencies[orderedFeatures'[i]][k]
    BY <1>3, <1>4 DEF TopologicalOrder, inputs
  <2>1. orderedFeatures'[i] = orderedFeatures[i]  BY <1>2, <1>4
  <2>2. PICK j \in 1..(i - 1) : orderedFeatures[j] = dependencies[orderedFeatures[i]][k]
    BY <2>1 DEF KInv, TopologicalOrder
  <2>3. j \in 1..(n - 1)  BY <1>2, <1>4
  <2> QED  BY <2>1, <2>2, <2>3, <1>2
<1>10. PriorityRespected'
  <2> SUFFICES ASSUME NEW i \in sorted, NEW g \in Features,
                      g \notin {orderedFeatures'[j] : j \in 1..(i - 1)},
                      edges(g, Features \ {orderedFeatures[j] : j \in 1..(i - 1)})' = {}
               PROVE  priority[orderedFeatures'[i]] <= priority[g]
    BY <1>3, <1>4 DEF PriorityRespected, inputs
  <2>1. {orderedFeatures'[j] : j \in 1..(i - 1)} = {orderedFeatures[j] : j \in 1..(i - 1)}
    BY <1>2, <1>4
  <2>2. edges(g, Features \ {orderedFeatures[j] : j \in 1..(i - 1)}) = {}
    BY <1>3, <2>1 DEF edges, inputs
  <2> QED  BY <2>1, <2>2, <1>2, <1>4 DEF KInv, PriorityRespected
<1>11. Unknotted'
  <2> SUFFICES ASSUME NEW S \in SUBSET Features, knot(S)', NEW i \in sorted
               PROVE  orderedFeatures'[i] \notin S
    BY <1>4 DEF Unknotted
  <2>1. knot(S)  BY <1>3 DEF knot, edges, inputs
  <2>2. orderedFeatures'[i] = orderedFeatures[i]  BY <1>2, <1>4
  <2> QED  BY <2>1, <2>2 DEF KInv, Unknotted
<1> QED  BY <1>5, <1>6, <1>7, <1>8, <1>9, <1>10, <1>11 DEF KInv

\* The search and its end leave the order alone.
LEMMA SearchKeepsOrder ==
  ASSUME KInv, UNCHANGED <<inputs, kahn>>, pc' = pc \/ Finish
  PROVE  KInv'
<1>1. UNCHANGED <<dependencies, priority, inDegree, queue, orderedFeatures, remaining>>
  BY DEF inputs, kahn
<1>2. sorted' = sorted  BY <1>1 DEF sorted
<1>3. KahnTypes' /\ Counted' /\ Distinct'
  BY <1>1 DEF KInv, KahnTypes, Counted, Distinct, Finish, edges
<1>4. Left'
  BY <1>1 DEF KInv, Left, knot, edges, Finish
<1>5. TopologicalOrder'  BY <1>1, <1>2 DEF KInv, TopologicalOrder
<1>6. PriorityRespected'  BY <1>1, <1>2 DEF KInv, PriorityRespected, edges
<1>7. Unknotted'
  <2>1. \A S : knot(S)' <=> knot(S)  BY <1>1 DEF knot, edges
  <2> QED  BY <2>1, <1>1, <1>2 DEF KInv, Unknotted
<1> QED  BY <1>3, <1>4, <1>5, <1>6, <1>7 DEF KInv

\* Kahn's algorithm keeps its invariant.
THEOREM KahnInductive == Spec => []KInv
<1>1. KInv /\ [Next]_vars => KInv'
  <2> SUFFICES ASSUME KInv, [Next]_vars  PROVE KInv'  OBVIOUS
  <2>1. CASE Order  BY <2>1, OrderInv
  <2>2. CASE Leftover  BY <2>2, LeftoverInv
  <2>3. CASE AddLeftover  BY <2>3, AddLeftoverInv
  <2>4. CASE Finish  BY <2>4, SearchKeepsOrder DEF Finish
  <2>5. CASE Search
    BY <2>5, SearchKeepsOrder DEF Search, SearchFrom, Descend, SkipVisited, CycleFound, Backtrack
  <2>6. CASE UNCHANGED vars  BY <2>6, SearchKeepsOrder DEF vars
  <2> QED  BY <2>1, <2>2, <2>3, <2>4, <2>5, <2>6 DEF Next
<1> QED  BY KahnInit, <1>1, PTL DEF Spec

\* A feature on no cycle and behind none comes after all its dependencies.
THEOREM TopologicallyOrdered == Spec => []TopologicalOrder
<1>1. KInv => TopologicalOrder  BY DEF KInv
<1> QED  BY KahnInductive, <1>1, PTL

\* Priorities are respected as far as the dependencies allow.
THEOREM PrioritiesRespected == Spec => []PriorityRespected
<1>1. KInv => PriorityRespected  BY DEF KInv
<1> QED  BY KahnInductive, <1>1, PTL

\* Every feature comes out exactly once.
THEOREM NoFeatureLost == Spec => []EveryFeatureOnce
<1>1. KInv => EveryFeatureOnce
  <2> SUFFICES ASSUME KInv, pc = "done"  PROVE elems(orderedFeatures) = Features
    BY DEF KInv, Distinct, EveryFeatureOnce
  <2>1. Features \subseteq elems(orderedFeatures)  BY DEF KInv, Left
  <2>2. elems(orderedFeatures) \subseteq Features  BY DEF KInv, KahnTypes, elems
  <2> QED  BY <2>1, <2>2
<1> QED  BY KahnInductive, <1>1, PTL

\* What is left over is exactly what lies on or behind a cycle.
THEOREM LeftoversAreKnots == Spec => []OnlyCyclesRemain
<1>1. KInv => OnlyCyclesRemain
  <2> SUFFICES ASSUME KInv, pc # "order"
               PROVE  remaining = UNION {S \in SUBSET Features : knot(S)}
    BY DEF OnlyCyclesRemain
  <2>1. remaining \subseteq UNION {S \in SUBSET Features : knot(S)}
    BY DEF KInv, Left, KahnTypes
  <2>2. ASSUME NEW S \in SUBSET Features, knot(S), NEW f \in S  PROVE f \in remaining
    <3>1. CASE f \notin elems(orderedFeatures)  BY <3>1 DEF KInv, Left
    <3>2. CASE f \in elems(orderedFeatures)
      <4>1. PICK i \in DOMAIN orderedFeatures : orderedFeatures[i] = f  BY <3>2 DEF elems
      <4>2. i \notin sorted  BY <2>2, <4>1 DEF KInv, Unknotted
      <4> QED  BY <4>1, <4>2 DEF sorted
    <3> QED  BY <3>1, <3>2
  <2> QED  BY <2>1, <2>2
<1> QED  BY KahnInductive, <1>1, PTL

-----------------------------------------------------------------------------
(* The search for cycles.                                                   *)

\* A call of dfs() in progress.
DfsCall == [id : Ids, at : Nat \ {0}]

SearchTypes ==
  /\ visited \subseteq Ids
  /\ recursionStack \subseteq Ids
  /\ currentPath \in Seq(Ids)
  /\ calls \in Seq(DfsCall)
  /\ cycles \in Seq(Seq(Ids))

\* Nothing is searched while the features are ordered, nor at the end.
Idle ==
  /\ pc = "order" => /\ visited = {} /\ recursionStack = {} /\ currentPath = <<>>
                     /\ cycles = <<>>
  /\ pc # "search" => calls = <<>>

\* The calls in progress are the end of the path, whose ids were all visited once.
OnPath ==
  /\ recursionStack \subseteq elems(currentPath)
  /\ elems(currentPath) \subseteq visited
  /\ \A i, j \in DOMAIN currentPath : currentPath[i] = currentPath[j] => i = j
  /\ Len(calls) <= Len(currentPath)
  /\ \A k \in 1..Len(calls) :
       currentPath[Len(currentPath) - Len(calls) + k] = calls[k].id

\* Until the first cycle path, stack and calls agree, each feature on the path
\* lists the next one, and what was left again hangs on no knot.
FirstSearch ==
  cycles = <<>> =>
    /\ Len(calls) = Len(currentPath)
    /\ recursionStack = elems(currentPath)
    /\ \A k \in 1..(Len(currentPath) - 1) :
         currentPath[k + 1] \in elems(depsOf(currentPath[k]))
    /\ \A k \in 1..Len(calls) : \A p \in DOMAIN depsOf(calls[k].id) :
         p < calls[k].at =>
           \/ depsOf(calls[k].id)[p] \in visited \ recursionStack
           \/ k < Len(calls) /\ depsOf(calls[k].id)[p] = calls[k + 1].id
    /\ \A S \in SUBSET Features : knot(S) => S \cap (visited \ recursionStack) = {}

SInv == KInv /\ SearchTypes /\ Idle /\ OnPath /\ FirstSearch /\ CycleReported

\* The invariant of the search holds at first.
LEMMA SearchInit == Init => SInv
<1> SUFFICES ASSUME Init  PROVE SInv  OBVIOUS
<1>1. /\ visited = {} /\ recursionStack = {} /\ currentPath = <<>> /\ calls = <<>>
      /\ cycles = <<>> /\ pc = "order"
  BY DEF Init
<1>2. elems(currentPath) = {}  BY <1>1 DEF elems
<1>3. SearchTypes /\ Idle  BY <1>1 DEF SearchTypes, Idle
<1>4. OnPath /\ FirstSearch  BY <1>1, <1>2 DEF OnPath, FirstSearch
<1>5. CycleReported  BY <1>1 DEF CycleReported
<1> QED  BY <1>3, <1>4, <1>5, KahnInit DEF SInv

\* The steps of the algorithm that do not search.
LEMMA NoSearchInv ==
  ASSUME SInv, KInv', UNCHANGED <<inputs, search>>, \/ Order \/ Leftover \/ AddLeftover
                                                  \/ UNCHANGED vars
  PROVE  SInv'
<1>1. UNCHANGED <<dependencies, visited, recursionStack, currentPath, calls, cycles>>
  BY DEF inputs, search
<1>2. SearchTypes'  BY <1>1 DEF SInv, SearchTypes
<1>3. \/ pc' = pc /\ remaining' = remaining
      \/ pc = "order" /\ pc' = "search"
      \/ pc = "order" /\ pc' = "done" /\ remaining' = {}
  <2>1. CASE Order  BY <2>1 DEF Order, takes
  <2>2. CASE Leftover  BY <2>2 DEF Leftover
  <2>3. CASE AddLeftover  BY <2>3 DEF AddLeftover
  <2>4. CASE UNCHANGED vars  BY <2>4 DEF vars, kahn
  <2> QED  BY <2>1, <2>2, <2>3, <2>4
<1>4. Idle'  BY <1>1, <1>3 DEF SInv, Idle
<1>5. OnPath'  BY <1>1 DEF SInv, OnPath
<1>6. \A id : depsOf(id)' = depsOf(id)  BY <1>1 DEF depsOf
<1>7. \A S : knot(S)' <=> knot(S)  BY <1>1 DEF knot, edges
<1>8. FirstSearch'  BY <1>1, <1>6, <1>7 DEF SInv, FirstSearch
<1>9. \A c : closed(c)' <=> closed(c)  BY <1>6 DEF closed
<1>10. CycleReported'
  BY <1>1, <1>3, <1>9 DEF SInv, CycleReported, Idle
<1> QED  BY <1>2, <1>4, <1>5, <1>8, <1>10 DEF SInv

\* A position is the last one or before it.
LEMMA SplitInterval ==
  ASSUME NEW n \in Nat \ {0}, NEW k \in 1..n
  PROVE  k = n \/ k \in 1..(n - 1)
OBVIOUS

\* The innermost call and its loop gone on.
LEMMA TopCall ==
  ASSUME SInv, calls # <<>>
  PROVE  /\ Len(calls) \in Nat \ {0} /\ Len(currentPath) \in Nat \ {0}
         /\ top \in DfsCall /\ top = calls[Len(calls)]
         /\ currentPath[Len(currentPath)] = top.id
         /\ goneOn \in Seq(DfsCall) /\ Len(goneOn) = Len(calls)
         /\ \A k \in 1..Len(calls) : goneOn[k].id = calls[k].id
         /\ \A k \in 1..(Len(calls) - 1) : goneOn[k].at = calls[k].at
         /\ goneOn[Len(calls)].at = top.at + 1
<1>1. calls \in Seq(DfsCall) /\ currentPath \in Seq(Ids)
  BY DEF SInv, SearchTypes
<1>2. Len(calls) \in Nat \ {0} /\ Len(currentPath) \in Nat /\ DOMAIN calls = 1..Len(calls)
  BY <1>1
<1>3. Len(calls) <= Len(currentPath)  BY DEF SInv, OnPath
<1>4. top \in DfsCall /\ top = calls[Len(calls)]
  <2>1. calls[Len(calls)] \in DfsCall  BY <1>1, <1>2
  <2> QED  BY <2>1 DEF top
<1>5. currentPath[Len(currentPath) - Len(calls) + Len(calls)] = calls[Len(calls)].id
  BY <1>2 DEF SInv, OnPath
<1>6. goneOn = [calls EXCEPT ![Len(calls)] = [calls[Len(calls)] EXCEPT !.at = @ + 1]]
  BY DEF goneOn
<1>7. [calls[Len(calls)] EXCEPT !.at = @ + 1]
        = [id |-> calls[Len(calls)].id, at |-> calls[Len(calls)].at + 1]
  BY <1>4 DEF DfsCall
<1>8. [calls[Len(calls)] EXCEPT !.at = @ + 1] \in DfsCall
  BY <1>4, <1>7 DEF DfsCall
<1>9. goneOn \in Seq(DfsCall) /\ Len(goneOn) = Len(calls)
      /\ DOMAIN goneOn = 1..Len(calls)
  BY <1>1, <1>2, <1>6, <1>8
<1>10. \A k \in 1..(Len(calls) - 1) : goneOn[k] = calls[k]  BY <1>2, <1>6
<1>11. goneOn[Len(calls)] = [id |-> calls[Len(calls)].id, at |-> calls[Len(calls)].at + 1]
  BY <1>2, <1>6, <1>7
<1>12. goneOn[Len(calls)].id = calls[Len(calls)].id /\ goneOn[Len(calls)].at = top.at + 1
  BY <1>4, <1>11
<1>13. \A k \in 1..Len(calls) : goneOn[k].id = calls[k].id
  <2> TAKE k \in 1..Len(calls)
  <2>1. CASE k = Len(calls)  BY <2>1, <1>12
  <2>2. CASE k \in 1..(Len(calls) - 1)  BY <2>2, <1>10
  <2>3. k = Len(calls) \/ k \in 1..(Len(calls) - 1)  BY <1>2, SplitInterval
  <2> QED  BY <2>1, <2>2, <2>3
<1>14. Len(currentPath) \in Nat \ {0}  BY <1>2, <1>3
<1>15. currentPath[Len(currentPath)] = top.id  BY <1>2, <1>4, <1>5, <1>14
<1> QED  BY <1>2, <1>4, <1>9, <1>10, <1>12, <1>13, <1>14, <1>15

\* The id a call looks at is one of the dependencies of its feature.
LEMMA NextIsListed ==
  ASSUME SInv, looking
  PROVE  next \in Ids /\ next \in elems(depsOf(top.id)) /\ top.at \in DOMAIN depsOf(top.id)
<1>1. dependencies \in [Features -> Lists]  BY DEF SInv, KInv, KahnTypes
<1>2. top.at \in Nat \ {0}
  <2>1. top \in DfsCall  BY TopCall DEF looking
  <2> QED  BY <2>1 DEF DfsCall
<1>3. top.at \in DOMAIN depsOf(top.id)  BY <1>1, <1>2, ListsAreSequences DEF looking
<1> QED  BY <1>1, <1>3, ListsAreSequences DEF next, elems

\* What every step of the search leaves alone.
LEMMA SearchFrame ==
  ASSUME SInv, UNCHANGED <<inputs, pc, kahn>>
  PROVE  /\ KInv'
         /\ \A id : depsOf(id)' = depsOf(id)
         /\ \A S : knot(S)' <=> knot(S)
         /\ \A c : closed(c)' <=> closed(c)
         /\ pc' = pc /\ remaining' = remaining
<1>1. KInv'  BY SearchKeepsOrder DEF SInv
<1>2. dependencies' = dependencies  BY DEF inputs
<1>3. \A id : depsOf(id)' = depsOf(id)  BY <1>2 DEF depsOf
<1>4. \A S : knot(S)' <=> knot(S)  BY <1>2 DEF knot, edges
<1>5. \A c : closed(c)' <=> closed(c)  BY <1>3 DEF closed
<1> QED  BY <1>1, <1>3, <1>4, <1>5 DEF kahn

\* dfs() begins on the next of the features that were left.
LEMMA SearchFromInv == SInv /\ SearchFrom => SInv'
<1> SUFFICES ASSUME SInv, SearchFrom  PROVE SInv'  OBVIOUS
<1> DEFINE n == Len(currentPath) + 1
<1>1. PICK f \in Features : f \notin visited /\ begins(f, <<>>)
  BY DEF SearchFrom, first
<1>2. pc = "search" /\ calls = <<>> /\ UNCHANGED <<inputs, pc, kahn, cycles>>
  BY DEF SearchFrom
<1>3. /\ KInv' /\ (\A id : depsOf(id)' = depsOf(id)) /\ (\A S : knot(S)' <=> knot(S))
      /\ (\A c : closed(c)' <=> closed(c)) /\ pc' = pc /\ remaining' = remaining
  BY <1>2, SearchFrame
<1>4. f \in Ids  BY DEF Ids
<1>5. currentPath \in Seq(Ids)  BY DEF SInv, SearchTypes
<1>6. currentPath' = Append(currentPath, f)  BY <1>1 DEF begins
<1>7. /\ currentPath' \in Seq(Ids) /\ Len(currentPath') = n /\ n \in Nat \ {0}
      /\ DOMAIN currentPath' = 1..n /\ DOMAIN currentPath = 1..(n - 1)
      /\ \A i \in 1..(n - 1) : currentPath'[i] = currentPath[i]
      /\ currentPath'[n] = f
      /\ elems(currentPath') = elems(currentPath) \cup {f}
  BY <1>4, <1>5, <1>6, Appended
<1>8. /\ calls' = <<[id |-> f, at |-> 1]>> /\ Len(calls') = 1
      /\ calls'[1] = [id |-> f, at |-> 1]
      /\ calls' \in Seq(DfsCall)
  <2>1. [id |-> f, at |-> 1] \in DfsCall  BY <1>4 DEF DfsCall
  <2>2. calls' = Append(<<>>, [id |-> f, at |-> 1])  BY <1>1 DEF begins
  <2> QED  BY <2>1, <2>2
<1>9. visited' = visited \cup {f} /\ recursionStack' = recursionStack \cup {f}
  BY <1>1 DEF begins
<1>10. SearchTypes'
  BY <1>2, <1>4, <1>7, <1>8, <1>9 DEF SInv, SearchTypes
<1>11. Idle'  BY <1>2 DEF Idle
<1>12. OnPath'
  <2>1. \A i, j \in 1..n : currentPath'[i] = currentPath'[j] => i = j
    <3>1. \A i \in 1..(n - 1) : currentPath'[i] # f  BY <1>1, <1>7 DEF SInv, OnPath, elems
    <3>2. \A i, j \in 1..(n - 1) : currentPath[i] = currentPath[j] => i = j
      BY <1>7 DEF SInv, OnPath
    <3>3. \A i \in 1..n : i = n \/ i \in 1..(n - 1)  BY <1>7
    <3> QED  BY <3>1, <3>2, <3>3, <1>7
  <2> QED  BY <2>1, <1>7, <1>8, <1>9 DEF SInv, OnPath
<1>13. FirstSearch'
  <2> SUFFICES ASSUME cycles = <<>>  PROVE FirstSearch'  BY <1>2 DEF FirstSearch
  <2>1. n = 1 /\ recursionStack = elems(currentPath)
    BY <1>2 DEF SInv, FirstSearch
  <2>2. visited' \ recursionStack' = visited \ recursionStack  BY <1>1, <1>9
  <2>3. \A S \in SUBSET Features : knot(S)' => S \cap (visited' \ recursionStack') = {}
    BY <1>3, <2>2 DEF SInv, FirstSearch
  <2>4. recursionStack' = elems(currentPath')  BY <1>7, <1>9, <2>1
  <2>5. \A p \in DOMAIN depsOf(calls'[1].id) : ~(p < 1)
    BY ListsAreSequences DEF SInv, KInv, KahnTypes
  <2> QED  BY <1>3, <1>7, <1>8, <2>1, <2>3, <2>4, <2>5 DEF FirstSearch
<1>14. CycleReported'  BY <1>2, <1>3 DEF SInv, CycleReported
<1> QED  BY <1>3, <1>10, <1>11, <1>12, <1>13, <1>14 DEF SInv

\* dfs() calls itself for a dependency that was not visited.
LEMMA DescendInv == SInv /\ Descend => SInv'
<1> SUFFICES ASSUME SInv, Descend  PROVE SInv'  OBVIOUS
<1> DEFINE n == Len(currentPath) + 1
           m == Len(calls)
<1>1. /\ pc = "search" /\ calls # <<>> /\ looking /\ next \notin visited
      /\ begins(next, goneOn) /\ UNCHANGED <<inputs, pc, kahn, cycles>>
  BY DEF Descend, looking
<1>2. /\ m \in Nat \ {0} /\ Len(currentPath) \in Nat \ {0}
      /\ top = calls[m] /\ currentPath[Len(currentPath)] = top.id
      /\ goneOn \in Seq(DfsCall) /\ Len(goneOn) = m
      /\ \A k \in 1..m : goneOn[k].id = calls[k].id
      /\ \A k \in 1..(m - 1) : goneOn[k].at = calls[k].at
      /\ goneOn[m].at = top.at + 1
  BY <1>1, TopCall
<1>3. next \in Ids /\ next \in elems(depsOf(top.id))  BY <1>1, NextIsListed
<1>4. /\ KInv' /\ (\A id : depsOf(id)' = depsOf(id)) /\ (\A S : knot(S)' <=> knot(S))
      /\ (\A c : closed(c)' <=> closed(c)) /\ pc' = pc /\ remaining' = remaining
  BY <1>1, SearchFrame
<1>5. currentPath \in Seq(Ids)  BY DEF SInv, SearchTypes
<1>6. currentPath' = Append(currentPath, next)  BY <1>1 DEF begins
<1>7. /\ currentPath' \in Seq(Ids) /\ Len(currentPath') = n /\ n \in Nat \ {0}
      /\ DOMAIN currentPath' = 1..n /\ DOMAIN currentPath = 1..(n - 1)
      /\ \A i \in 1..(n - 1) : currentPath'[i] = currentPath[i]
      /\ currentPath'[n] = next
      /\ elems(currentPath') = elems(currentPath) \cup {next}
  BY <1>3, <1>5, <1>6, Appended
<1>8. /\ calls' \in Seq(DfsCall) /\ Len(calls') = m + 1
      /\ \A k \in 1..m : calls'[k] = goneOn[k]
      /\ calls'[m + 1] = [id |-> next, at |-> 1]
  <2>1. [id |-> next, at |-> 1] \in DfsCall  BY <1>3 DEF DfsCall
  <2>2. calls' = Append(goneOn, [id |-> next, at |-> 1])  BY <1>1 DEF begins
  <2> QED  BY <1>2, <2>1, <2>2, Appended
<1>9. visited' = visited \cup {next} /\ recursionStack' = recursionStack \cup {next}
  BY <1>1 DEF begins
<1>10. SearchTypes'
  BY <1>1, <1>3, <1>7, <1>8, <1>9 DEF SInv, SearchTypes
<1>11. Idle'  BY <1>1 DEF Idle
<1>12. OnPath'
  <2>1. \A i, j \in 1..n : currentPath'[i] = currentPath'[j] => i = j
    <3>1. \A i \in 1..(n - 1) : currentPath'[i] # next
      BY <1>1, <1>7 DEF SInv, OnPath, elems
    <3>2. \A i, j \in 1..(n - 1) : currentPath[i] = currentPath[j] => i = j
      BY <1>7 DEF SInv, OnPath
    <3>3. \A i \in 1..n : i = n \/ i \in 1..(n - 1)  BY <1>7
    <3> QED  BY <3>1, <3>2, <3>3, <1>7
  <2>2. m <= n - 1 /\ \A k \in 1..m : currentPath[(n - 1) - m + k] = calls[k].id
    BY <1>2 DEF SInv, OnPath
  <2>3. \A k \in 1..(m + 1) : currentPath'[n - (m + 1) + k] = calls'[k].id
    <3> TAKE k \in 1..(m + 1)
    <3>1. CASE k = m + 1
      BY <3>1, <1>2, <1>7, <1>8
    <3>2. CASE k \in 1..m
      <4>1. n - (m + 1) + k \in 1..(n - 1) /\ n - (m + 1) + k = (n - 1) - m + k
        BY <3>2, <2>2, <1>2, <1>7
      <4>2. calls'[k].id = calls[k].id  BY <3>2, <1>2, <1>8
      <4> QED  BY <3>2, <4>1, <4>2, <2>2, <1>7
    <3> QED  BY <3>1, <3>2, <1>2
  <2> QED  BY <2>1, <2>2, <2>3, <1>2, <1>7, <1>8, <1>9 DEF SInv, OnPath
<1>13. FirstSearch'
  <2> SUFFICES ASSUME cycles = <<>>  PROVE FirstSearch'  BY <1>1 DEF FirstSearch
  <2>1. /\ m = n - 1 /\ recursionStack = elems(currentPath)
        /\ \A k \in 1..(n - 2) : currentPath[k + 1] \in elems(depsOf(currentPath[k]))
    BY <1>2 DEF SInv, FirstSearch
  <2>2. visited' \ recursionStack' = visited \ recursionStack  BY <1>1, <1>9
  <2>3. \A S \in SUBSET Features : knot(S)' => S \cap (visited' \ recursionStack') = {}
    BY <1>4, <2>2 DEF SInv, FirstSearch
  <2>4. recursionStack' = elems(currentPath')  BY <1>7, <1>9, <2>1
  <2>5. \A k \in 1..(n - 1) : currentPath'[k + 1] \in elems(depsOf(currentPath'[k]))
    <3> TAKE k \in 1..(n - 1)
    <3>1. CASE k = n - 1  BY <3>1, <1>2, <1>3, <1>7
    <3>2. CASE k \in 1..(n - 2)  BY <3>2, <2>1, <1>7
    <3>3. k = n - 1 \/ k \in 1..((n - 1) - 1)  BY <1>2, SplitInterval
    <3>4. (n - 1) - 1 = n - 2  BY <1>7
    <3> QED  BY <3>1, <3>2, <3>3, <3>4
  <2>6. ASSUME NEW k \in 1..(m + 1), NEW p \in DOMAIN depsOf(calls'[k].id), p < calls'[k].at
        PROVE  \/ depsOf(calls'[k].id)[p] \in visited \ recursionStack
               \/ k < m + 1 /\ depsOf(calls'[k].id)[p] = calls'[k + 1].id
    <3>1. p \in Nat \ {0}
      BY ListsAreSequences DEF SInv, KInv, KahnTypes
    <3>2. CASE k = m + 1
      <4>1. calls'[k].at = 1  BY <3>2, <1>8
      <4> QED  BY <4>1, <3>1, <2>6
    <3>3. CASE k = m
      <4>1. calls'[k].id = calls[k].id /\ calls'[k].at = calls[k].at + 1
        BY <3>3, <1>2, <1>8
      <4>2. CASE p < calls[k].at
        BY <3>3, <4>1, <4>2, <1>2, SMTT(30) DEF SInv, FirstSearch
      <4>3. CASE p = calls[k].at
        <5>1. depsOf(calls'[k].id)[p] = next  BY <3>3, <4>1, <4>3, <1>2 DEF next
        <5>2. calls'[k + 1].id = next  BY <3>3, <1>8
        <5> QED  BY <5>1, <5>2, <3>3, <1>2
      <4>4. calls[k].at \in Nat
        <5>1. calls[k] \in DfsCall  BY <3>3, <1>2 DEF SInv, SearchTypes
        <5> QED  BY <5>1 DEF DfsCall
      <4> QED  BY <4>1, <4>2, <4>3, <4>4, <3>1, <2>6
    <3>4. CASE k \in 1..(m - 1)
      <4>0. k \in 1..m /\ k + 1 \in 1..m  BY <3>4, <1>2
      <4>1. calls'[k].id = calls[k].id /\ calls'[k].at = calls[k].at
            /\ calls'[k + 1].id = calls[k + 1].id
        BY <3>4, <4>0, <1>2, <1>8
      <4> QED  BY <3>4, <4>1, <2>6, <1>2 DEF SInv, FirstSearch
    <3>5. k = m + 1 \/ k = m \/ k \in 1..(m - 1)  BY <1>2
    <3> QED  BY <3>2, <3>3, <3>4, <3>5
  <2>7. Len(calls') = Len(currentPath')  BY <1>7, <1>8, <2>1
  <2> QED  BY <1>4, <1>7, <1>8, <2>2, <2>3, <2>4, <2>5, <2>6, <2>7 DEF FirstSearch
<1>14. CycleReported'  BY <1>1, <1>4 DEF SInv, CycleReported
<1> QED  BY <1>4, <1>10, <1>11, <1>12, <1>13, <1>14 DEF SInv

\* A dependency that was visited and left again is passed over.
LEMMA SkipVisitedInv == SInv /\ SkipVisited => SInv'
<1> SUFFICES ASSUME SInv, SkipVisited  PROVE SInv'  OBVIOUS
<1> DEFINE m == Len(calls)
<1>1. /\ pc = "search" /\ calls # <<>> /\ looking /\ next \in visited \ recursionStack
      /\ calls' = goneOn /\ UNCHANGED <<inputs, pc, kahn>>
      /\ UNCHANGED <<visited, recursionStack, currentPath, cycles>>
  BY DEF SkipVisited, looking
<1>2. /\ m \in Nat \ {0} /\ top = calls[m]
      /\ calls' \in Seq(DfsCall) /\ Len(calls') = m
      /\ \A k \in 1..m : calls'[k].id = calls[k].id
      /\ \A k \in 1..(m - 1) : calls'[k].at = calls[k].at
      /\ calls'[m].at = top.at + 1
  BY <1>1, TopCall
<1>3. /\ KInv' /\ (\A id : depsOf(id)' = depsOf(id)) /\ (\A S : knot(S)' <=> knot(S))
      /\ (\A c : closed(c)' <=> closed(c)) /\ pc' = pc /\ remaining' = remaining
  BY <1>1, SearchFrame
<1>4. SearchTypes'  BY <1>1, <1>2 DEF SInv, SearchTypes
<1>5. Idle'  BY <1>1 DEF Idle
<1>6. OnPath'  BY <1>1, <1>2 DEF SInv, OnPath
<1>7. FirstSearch'
  <2> SUFFICES ASSUME cycles = <<>>  PROVE FirstSearch'  BY <1>1 DEF FirstSearch
  <2>1. ASSUME NEW k \in 1..m, NEW p \in DOMAIN depsOf(calls'[k].id), p < calls'[k].at
        PROVE  \/ depsOf(calls'[k].id)[p] \in visited \ recursionStack
               \/ k < m /\ depsOf(calls'[k].id)[p] = calls'[k + 1].id
    <3>1. p \in Nat \ {0}
      BY ListsAreSequences DEF SInv, KInv, KahnTypes
    <3>2. calls'[k].id = calls[k].id  BY <1>2
    <3>3. CASE k = m
      <4>1. calls'[k].at = calls[k].at + 1  BY <3>3, <1>2
      <4>2. CASE p < calls[k].at
        BY <3>2, <3>3, <4>2, <1>2 DEF SInv, FirstSearch
      <4>3. CASE p = calls[k].at
        <5>1. depsOf(calls'[k].id)[p] = next  BY <3>2, <3>3, <4>3, <1>2 DEF next
        <5> QED  BY <5>1, <1>1
      <4>4. calls[k].at \in Nat
        <5>1. calls[k] \in DfsCall  BY <3>3, <1>2 DEF SInv, SearchTypes
        <5> QED  BY <5>1 DEF DfsCall
      <4> QED  BY <4>1, <4>2, <4>3, <4>4, <3>1, <2>1
    <3>4. CASE k \in 1..(m - 1)
      <4>1. calls'[k].at = calls[k].at /\ calls'[k + 1].id = calls[k + 1].id
        BY <3>4, <1>2
      <4> QED  BY <3>2, <3>4, <4>1, <2>1, <1>2 DEF SInv, FirstSearch
    <3>5. k = m \/ k \in 1..(m - 1)  BY <1>2
    <3> QED  BY <3>3, <3>4, <3>5
  <2> QED  BY <1>1, <1>2, <1>3, <2>1 DEF SInv, FirstSearch
<1>8. CycleReported'  BY <1>1, <1>3 DEF SInv, CycleReported
<1> QED  BY <1>3, <1>4, <1>5, <1>6, <1>7, <1>8 DEF SInv

\* What SubSeq leaves when it takes the last member off.
LEMMA Shortened ==
  ASSUME NEW S, NEW s \in Seq(S), s # <<>>
  PROVE  /\ SubSeq(s, 1, Len(s) - 1) \in Seq(S)
         /\ Len(SubSeq(s, 1, Len(s) - 1)) = Len(s) - 1
         /\ DOMAIN SubSeq(s, 1, Len(s) - 1) = 1..(Len(s) - 1)
         /\ \A i \in 1..(Len(s) - 1) : SubSeq(s, 1, Len(s) - 1)[i] = s[i]
         /\ elems(s) = elems(SubSeq(s, 1, Len(s) - 1)) \cup {s[Len(s)]}
         /\ Len(s) \in Nat \ {0}
<1> DEFINE t == SubSeq(s, 1, Len(s) - 1)
<1>1. Len(s) \in Nat \ {0} /\ DOMAIN s = 1..Len(s)  OBVIOUS
<1>2. t \in Seq(S) /\ Len(t) = Len(s) - 1 /\ \A i \in 1..(Len(s) - 1) : t[i] = s[i]
  <2>1. \A i \in 1..(Len(s) - 1) : s[i] \in S  BY <1>1
  <2> QED  BY <1>1, <2>1, SubSeqProperties
<1>3. DOMAIN t = 1..(Len(s) - 1)  BY <1>2
<1>4. elems(s) = elems(t) \cup {s[Len(s)]}
  <2> HIDE DEF t
  <2>1. elems(t) = {s[i] : i \in 1..(Len(s) - 1)}  BY <1>2, <1>3 DEF elems
  <2>2. \A i \in 1..Len(s) : i = Len(s) \/ i \in 1..(Len(s) - 1)  BY <1>1, SplitInterval
  <2>3. Len(s) \in 1..Len(s) /\ 1..(Len(s) - 1) \subseteq 1..Len(s)  BY <1>1
  <2> QED  BY <1>1, <2>1, <2>2, <2>3 DEF elems
<1> QED  BY <1>1, <1>2, <1>3, <1>4

\* A call has looked at every dependency and returns.
LEMMA BacktrackInv == SInv /\ Backtrack => SInv'
<1> SUFFICES ASSUME SInv, Backtrack  PROVE SInv'  OBVIOUS
<1> DEFINE n == Len(currentPath)
           m == Len(calls)
<1>1. /\ pc = "search" /\ calls # <<>> /\ ~looking /\ UNCHANGED <<inputs, pc, kahn>>
      /\ UNCHANGED <<visited, cycles>>
      /\ recursionStack' = recursionStack \ {top.id}
  BY DEF Backtrack
<1>2. /\ m \in Nat \ {0} /\ n \in Nat \ {0} /\ top = calls[m] /\ top \in DfsCall
      /\ currentPath[n] = top.id
  BY <1>1, TopCall
<1>3. /\ KInv' /\ (\A id : depsOf(id)' = depsOf(id)) /\ (\A S : knot(S)' <=> knot(S))
      /\ (\A c : closed(c)' <=> closed(c)) /\ pc' = pc /\ remaining' = remaining
  BY <1>1, SearchFrame
<1>4. currentPath \in Seq(Ids) /\ currentPath # <<>> /\ calls \in Seq(DfsCall)
  BY <1>2 DEF SInv, SearchTypes
<1>5. /\ currentPath' \in Seq(Ids) /\ Len(currentPath') = n - 1
      /\ DOMAIN currentPath' = 1..(n - 1)
      /\ \A i \in 1..(n - 1) : currentPath'[i] = currentPath[i]
      /\ elems(currentPath) = elems(currentPath') \cup {top.id}
  BY <1>2, <1>4, Shortened DEF Backtrack
<1>6. /\ calls' \in Seq(DfsCall) /\ Len(calls') = m - 1
      /\ \A k \in 1..(m - 1) : calls'[k] = calls[k]
  BY <1>1, <1>4, Shortened DEF Backtrack
<1>7. DOMAIN currentPath = 1..n  BY <1>4
<1>8. \A i, j \in 1..n : currentPath[i] = currentPath[j] => i = j
  BY <1>7 DEF SInv, OnPath
<1>9. top.id \notin elems(currentPath')
  <2> SUFFICES ASSUME NEW i \in 1..(n - 1), currentPath'[i] = top.id  PROVE FALSE
    BY <1>5 DEF elems
  <2>1. i \in 1..n /\ n \in 1..n /\ i # n  BY <1>2
  <2> QED  BY <2>1, <1>2, <1>5, <1>8
<1>10. SearchTypes'  BY <1>1, <1>5, <1>6 DEF SInv, SearchTypes
<1>11. Idle'  BY <1>1 DEF Idle
<1>12. OnPath'
  <2>1. recursionStack' \subseteq elems(currentPath') /\ elems(currentPath') \subseteq visited
    BY <1>1, <1>5 DEF SInv, OnPath
  <2>2. \A i, j \in 1..(n - 1) : currentPath'[i] = currentPath'[j] => i = j
    <3>1. \A i \in 1..(n - 1) : i \in 1..n  BY <1>2
    <3> QED  BY <3>1, <1>5, <1>8
  <2>3. m <= n /\ \A k \in 1..m : currentPath[n - m + k] = calls[k].id
    BY DEF SInv, OnPath
  <2>4. \A k \in 1..(m - 1) : currentPath'[(n - 1) - (m - 1) + k] = calls'[k].id
    <3> TAKE k \in 1..(m - 1)
    <3>1. k \in 1..m /\ n - m + k \in 1..(n - 1) /\ (n - 1) - (m - 1) + k = n - m + k
      BY <1>2, <2>3
    <3> QED  BY <3>1, <2>3, <1>5, <1>6
  <2>5. m - 1 <= n - 1  BY <1>2, <2>3
  <2> QED  BY <2>1, <2>2, <2>4, <2>5, <1>1, <1>5, <1>6 DEF OnPath
<1>13. FirstSearch'
  <2> SUFFICES ASSUME cycles = <<>>  PROVE FirstSearch'  BY <1>1 DEF FirstSearch
  <2>1. /\ m = n /\ recursionStack = elems(currentPath)
        /\ \A k \in 1..(n - 1) : currentPath[k + 1] \in elems(depsOf(currentPath[k]))
        /\ \A k \in 1..m : \A p \in DOMAIN depsOf(calls[k].id) :
             p < calls[k].at =>
               \/ depsOf(calls[k].id)[p] \in visited \ recursionStack
               \/ k < m /\ depsOf(calls[k].id)[p] = calls[k + 1].id
        /\ \A S \in SUBSET Features : knot(S) => S \cap (visited \ recursionStack) = {}
    BY DEF SInv, FirstSearch
  <2>2. recursionStack' = elems(currentPath')  BY <1>1, <1>5, <1>9, <2>1
  <2>3. \A k \in 1..((n - 1) - 1) : currentPath'[k + 1] \in elems(depsOf(currentPath'[k]))
    <3> TAKE k \in 1..((n - 1) - 1)
    <3>1. k \in 1..(n - 1) /\ k + 1 \in 1..(n - 1)  BY <1>2
    <3> QED  BY <3>1, <1>5, <2>1
  <2>4. top.id \in visited
    BY <1>5 DEF SInv, OnPath
  <2>5. visited \ recursionStack \subseteq visited \ recursionStack'  BY <1>1
  <2>6. ASSUME NEW k \in 1..(m - 1), NEW p \in DOMAIN depsOf(calls'[k].id), p < calls'[k].at
        PROVE  \/ depsOf(calls'[k].id)[p] \in visited \ recursionStack'
               \/ k < m - 1 /\ depsOf(calls'[k].id)[p] = calls'[k + 1].id
    <3>1. k \in 1..m /\ calls'[k] = calls[k]  BY <1>2, <1>6
    <3>2. CASE depsOf(calls[k].id)[p] \in visited \ recursionStack
      BY <3>1, <3>2, <2>5
    <3>3. CASE k = m - 1 /\ depsOf(calls[k].id)[p] = calls[k + 1].id
      <4>1. calls[k + 1] = top  BY <3>3, <1>2
      <4> QED  BY <3>1, <3>3, <4>1, <2>4, <1>1
    <3>4. CASE k \in 1..((m - 1) - 1) /\ depsOf(calls[k].id)[p] = calls[k + 1].id
      <4>1. k + 1 \in 1..(m - 1) /\ k < m - 1  BY <3>4, <1>2
      <4> QED  BY <3>1, <3>4, <4>1, <1>6
    <3>5. k = m - 1 \/ k \in 1..((m - 1) - 1)
      <4>1. m - 1 \in Nat \ {0}  BY <1>2
      <4> QED  BY <4>1, SplitInterval
    <3> QED  BY <3>1, <3>2, <3>3, <3>4, <3>5, <2>1, <2>6
  <2>7. ASSUME NEW S \in SUBSET Features, knot(S)
        PROVE  S \cap (visited \ recursionStack') = {}
    <3>1. S \cap (visited \ recursionStack) = {}  BY <2>1, <2>7
    <3>2. ASSUME top.id \in S  PROVE FALSE
      <4>1. PICK i \in DOMAIN dependencies[top.id] : dependencies[top.id][i] \in S
        BY <2>7, <3>2 DEF knot, edges
      <4>2. /\ depsOf(top.id) = dependencies[top.id] /\ i \in 1..Len(depsOf(top.id))
            /\ Len(depsOf(top.id)) \in Nat
        BY <3>2, <4>1, ListsAreSequences DEF SInv, KInv, KahnTypes
      <4>3. top.at \in Nat  BY <1>2 DEF DfsCall
      <4>4. i < top.at  BY <1>1, <4>2, <4>3 DEF looking
      <4>5. m \in 1..m /\ ~(m < m)  BY <1>2
      <4>6. depsOf(top.id)[i] \in visited \ recursionStack
        BY <1>2, <2>1, <4>1, <4>2, <4>4, <4>5
      <4> QED  BY <3>1, <4>1, <4>2, <4>6
    <3> QED  BY <3>1, <3>2, <1>1
  <2>8. \A S \in SUBSET Features : knot(S)' => S \cap (visited \ recursionStack') = {}
    BY <2>7, <1>3
  <2>9. Len(calls') = Len(currentPath')  BY <1>5, <1>6, <2>1
  <2> QED  BY <1>1, <1>3, <1>5, <1>6, <2>2, <2>3, <2>6, <2>8, <2>9 DEF FirstSearch
<1>14. CycleReported'  BY <1>1, <1>3 DEF SInv, CycleReported
<1> QED  BY <1>3, <1>10, <1>11, <1>12, <1>13, <1>14 DEF SInv

\* A dependency on the path closes a cycle, and the search stops where it is.
LEMMA CycleFoundInv == SInv /\ CycleFound => SInv'
<1> SUFFICES ASSUME SInv, CycleFound  PROVE SInv'  OBVIOUS
<1> DEFINE n == Len(currentPath)
           q == indexOf(next)
           c == SubSeq(currentPath, q, n)
<1>1. /\ pc = "search" /\ calls # <<>> /\ looking /\ next \in recursionStack
      /\ cycles' = Append(cycles, c) /\ calls' = <<>> /\ UNCHANGED <<inputs, pc, kahn>>
      /\ UNCHANGED <<visited, recursionStack, currentPath>>
  BY DEF CycleFound, looking
<1>2. n \in Nat \ {0} /\ currentPath[n] = top.id  BY <1>1, TopCall
<1>3. next \in elems(depsOf(top.id))  BY <1>1, NextIsListed
<1>4. KInv'  BY <1>1, SearchFrame
<1>5. currentPath \in Seq(Ids) /\ DOMAIN currentPath = 1..n /\ cycles \in Seq(Seq(Ids))
  BY DEF SInv, SearchTypes
<1>6. q \in 1..n /\ currentPath[q] = next
  <2>1. \E i \in DOMAIN currentPath : currentPath[i] = next
    BY <1>1 DEF SInv, OnPath, elems
  <2> QED  BY <2>1, <1>5 DEF indexOf
<1> HIDE DEF q
<1>7. /\ c \in Seq(Ids) /\ Len(c) = n - q + 1
      /\ \A i \in 1..(n - q + 1) : c[i] = currentPath[q + i - 1]
  <2>1. \A i \in q..n : currentPath[i] \in Ids  BY <1>2, <1>5, <1>6
  <2>2. q \in Int /\ n \in Int /\ q <= n  BY <1>2, <1>6
  <2> QED  BY <2>1, <2>2, SubSeqProperties
<1> HIDE DEF c
<1>8. /\ cycles' \in Seq(Seq(Ids)) /\ cycles' # <<>>
      /\ cycles = <<>> => cycles'[1] = c
      /\ cycles # <<>> => cycles'[1] = cycles[1]
  <2>1. /\ cycles' \in Seq(Seq(Ids)) /\ Len(cycles') = Len(cycles) + 1
        /\ \A i \in 1..Len(cycles) : cycles'[i] = cycles[i]
        /\ cycles'[Len(cycles) + 1] = c /\ Len(cycles) \in Nat
    BY <1>1, <1>5, <1>7, Appended
  <2>2. cycles # <<>> => 1 \in 1..Len(cycles)  BY <1>5
  <2>3. cycles = <<>> => Len(cycles) + 1 = 1  BY <1>5
  <2> QED  BY <2>1, <2>2, <2>3
<1>9. SearchTypes' /\ Idle' /\ FirstSearch'
  <2>1. calls' \in Seq(DfsCall)  BY <1>1
  <2> QED  BY <2>1, <1>1, <1>8 DEF SInv, SearchTypes, Idle, FirstSearch
<1>10. OnPath'
  <2>1. Len(calls') = 0  BY <1>1
  <2>2. 0 <= Len(currentPath')  BY <1>1, <1>2
  <2>3. \A k \in 1..0 : FALSE  OBVIOUS
  <2> QED  BY <2>1, <2>2, <2>3, <1>1 DEF SInv, OnPath
<1>11. ASSUME cycles = <<>>  PROVE closed(c)
  <2>1. \A k \in 1..(n - 1) : currentPath[k + 1] \in elems(depsOf(currentPath[k]))
    BY <1>11 DEF SInv, FirstSearch
  <2>2. Len(c) \in Nat \ {0} /\ DOMAIN c = 1..Len(c) /\ c # <<>>  BY <1>2, <1>6, <1>7
  <2>3. c[1] = next /\ c[Len(c)] = top.id
    <3>1. /\ 1 \in 1..(n - q + 1) /\ q + 1 - 1 = q
          /\ Len(c) \in 1..(n - q + 1) /\ q + Len(c) - 1 = n
      BY <1>2, <1>6, <1>7
    <3> QED  BY <3>1, <1>2, <1>6, <1>7
  <2>4. ASSUME NEW i \in 1..Len(c), i # Len(c)  PROVE c[i + 1] \in elems(depsOf(c[i]))
    <3>1. i \in 1..((n - q + 1) - 1)
      <4>1. n - q + 1 \in Nat \ {0}  BY <2>2, <1>7
      <4>2. i \in 1..(n - q + 1) /\ i # n - q + 1  BY <2>4, <1>7
      <4> QED  BY <4>1, <4>2, SplitInterval
    <3>2. q \in Nat /\ n \in Nat /\ 1 <= q  BY <1>2, <1>6
    <3>3. /\ i + 1 \in 1..(n - q + 1) /\ q + i - 1 \in 1..(n - 1)
          /\ q + (i + 1) - 1 = (q + i - 1) + 1 /\ i \in 1..(n - q + 1)
      BY <3>1, <3>2
    <3> QED  BY <3>3, <2>1, <1>7
  <2> QED  BY <2>2, <2>3, <2>4, <1>3 DEF closed
<1>12. CycleReported'
  <2>1. closed(cycles'[1])  BY <1>8, <1>11 DEF SInv, CycleReported
  <2>2. closed(cycles[1])'  BY <2>1, <1>1, SearchFrame DEF closed
  <2> QED  BY <2>2, <1>1, <1>8 DEF CycleReported
<1> QED  BY <1>4, <1>9, <1>10, <1>12 DEF SInv

\* When nothing was found there was nothing left to search.
LEMMA FinishInv == SInv /\ Finish => SInv'
<1> SUFFICES ASSUME SInv, Finish  PROVE SInv'  OBVIOUS
<1>1. /\ pc = "search" /\ pc' = "done" /\ calls = <<>> /\ remaining \subseteq visited
      /\ UNCHANGED <<inputs, kahn, search>>
  BY DEF Finish
<1>2. UNCHANGED <<dependencies, visited, recursionStack, currentPath, calls, cycles, remaining>>
  BY <1>1 DEF inputs, search, kahn
<1>3. KInv'  BY <1>1, SearchKeepsOrder DEF SInv
<1>4. \A id : depsOf(id)' = depsOf(id)  BY <1>2 DEF depsOf
<1>5. \A S : knot(S)' <=> knot(S)  BY <1>2 DEF knot, edges
<1>6. \A c : closed(c)' <=> closed(c)  BY <1>4 DEF closed
<1>7. SearchTypes' /\ Idle' /\ OnPath'
  BY <1>1, <1>2 DEF SInv, SearchTypes, Idle, OnPath
<1>8. FirstSearch'  BY <1>2, <1>4, <1>5 DEF SInv, FirstSearch
<1>9. knot(remaining) /\ remaining # {} /\ remaining \in SUBSET Features
  BY <1>1 DEF SInv, KInv, KahnTypes, Left
<1>10. cycles # <<>>
  <2> SUFFICES ASSUME cycles = <<>>  PROVE FALSE  OBVIOUS
  <2>1. Len(currentPath) = 0 /\ recursionStack = elems(currentPath)
    BY <1>1 DEF SInv, FirstSearch
  <2>2. DOMAIN currentPath = {}
    BY <2>1 DEF SInv, SearchTypes
  <2>3. recursionStack = {}  BY <2>1, <2>2 DEF elems
  <2>4. remaining \cap (visited \ recursionStack) = {}  BY <1>9 DEF SInv, FirstSearch
  <2> QED  BY <2>3, <2>4, <1>1, <1>9
<1>11. CycleReported'  BY <1>2, <1>6, <1>9, <1>10 DEF SInv, CycleReported
<1> QED  BY <1>3, <1>7, <1>8, <1>11 DEF SInv

\* The invariant of the search is inductive.
THEOREM SearchInductive == Spec => []SInv
<1>1. SInv /\ KInv' /\ [Next]_vars => SInv'
  <2> SUFFICES ASSUME SInv, KInv', [Next]_vars  PROVE SInv'  OBVIOUS
  <2>1. CASE Order  BY <2>1, NoSearchInv DEF Order, takes
  <2>2. CASE Leftover
    <3>1. UNCHANGED <<inputs, search>>  BY <2>2 DEF Leftover
    <3> QED  BY <2>2, <3>1, NoSearchInv
  <2>3. CASE AddLeftover
    <3>1. UNCHANGED <<inputs, search>>  BY <2>3 DEF AddLeftover
    <3> QED  BY <2>3, <3>1, NoSearchInv
  <2>4. CASE Finish  BY <2>4, FinishInv
  <2>5. CASE Search
    BY <2>5, SearchFromInv, DescendInv, SkipVisitedInv, CycleFoundInv, BacktrackInv DEF Search
  <2>6. CASE UNCHANGED vars
    <3>1. UNCHANGED <<inputs, search>>  BY <2>6 DEF vars
    <3> QED  BY <2>6, <3>1, NoSearchInv
  <2> QED  BY <2>1, <2>2, <2>3, <2>4, <2>5, <2>6 DEF Next
<1> QED  BY SearchInit, KahnInductive, <1>1, PTL DEF Spec

\* A cycle is found whenever there is one, and the first one reported is one.
THEOREM CyclesReported == Spec => []CycleReported
<1>1. SInv => CycleReported  BY DEF SInv
<1> QED  BY SearchInductive, <1>1, PTL

\* The variables keep their types.
THEOREM TypeCorrect == Spec => []TypeOK
<1>1. SInv => TypeOK
  BY DEF SInv, KInv, KahnTypes, SearchTypes, DfsCall, TypeOK
<1> QED  BY SearchInductive, <1>1, PTL

-----------------------------------------------------------------------------
(* Refinement: every step is a step of DependencyOrder or a stutter.        *)

\* What is in the order, and what can be put there next, is the same for both.
LEMMA QueueIsFree ==
  ASSUME KInv
  PROVE  /\ Abstract!placed = elems(orderedFeatures)
         /\ pc = "order" => Abstract!free = queue
<1>1. Abstract!placed = elems(orderedFeatures)  BY DEF Abstract!placed, elems
<1>2. ASSUME pc = "order", NEW f \in Features \ elems(orderedFeatures)
      PROVE  knownNeeds[f] \subseteq elems(orderedFeatures) <=> f \in queue
  <2>1. inDegree[f] = 0 <=> edges(f, Features \ elems(orderedFeatures)) = {}
    BY <1>2, NothingOpen
  <2>2. edges(f, Features \ elems(orderedFeatures)) = {}
          <=> knownNeeds[f] \subseteq elems(orderedFeatures)
    BY DEF edges, knownNeeds, elems
  <2> QED  BY <1>2, <2>1, <2>2 DEF KInv, Counted
<1>3. pc = "order" => queue \subseteq Features \ elems(orderedFeatures)
  BY DEF KInv, KahnTypes, Counted
<1> QED  BY <1>1, <1>2, <1>3 DEF Abstract!free

\* The steps of Kahn's algorithm.
LEMMA OrderImplements == KInv /\ (Order \/ Leftover) => Abstract!Next
<1> SUFFICES ASSUME KInv, Order \/ Leftover  PROVE Abstract!Next  OBVIOUS
<1>1. pc = "order" /\ Abstract!free = queue /\ Abstract!placed = elems(orderedFeatures)
  BY QueueIsFree DEF Order, Leftover
<1>2. CASE Order
  <2>1. PICK c \in Features : urgent(c) /\ takes(c)  BY <1>2 DEF Order
  <2>2. UNCHANGED <<dependencies, priority, pc, cycles>>  BY <2>1 DEF takes, inputs, search
  <2>3. Abstract!Take
    BY <1>1, <2>1, <2>2 DEF Abstract!Take, urgent, takes, knownNeeds, phase
  <2> QED  BY <2>3 DEF Abstract!Next
<1>3. CASE Leftover
  <2>1. /\ queue = {} /\ UNCHANGED <<dependencies, priority, orderedFeatures, cycles>>
        /\ pc' = IF Features \ elems(orderedFeatures) = {} THEN "done" ELSE "search"
    BY <1>3 DEF Leftover, inputs, search
  <2>2. elems(orderedFeatures) \subseteq Features  BY DEF KInv, KahnTypes, elems
  <2>3. phase = "free" /\ phase' = IF elems(orderedFeatures) = Features THEN "done" ELSE "rest"
    <3>1. Features \ elems(orderedFeatures) = {} <=> elems(orderedFeatures) = Features
      BY <2>2
    <3>2. CASE elems(orderedFeatures) = Features  BY <1>1, <2>1, <3>1, <3>2 DEF phase
    <3>3. CASE elems(orderedFeatures) # Features  BY <1>1, <2>1, <3>1, <3>3 DEF phase
    <3> QED  BY <3>2, <3>3
  <2>4. knownNeeds' = knownNeeds  BY <2>1 DEF knownNeeds
  <2>5. Abstract!Stuck
    BY <1>1, <2>1, <2>3, <2>4 DEF Abstract!Stuck
  <2> QED  BY <2>5 DEF Abstract!Next
<1> QED  BY <1>2, <1>3

\* The features that are left over, and the end.
LEMMA RestImplements == SInv /\ SInv' /\ (AddLeftover \/ Finish) => Abstract!Next
<1> SUFFICES ASSUME SInv, SInv', AddLeftover \/ Finish  PROVE Abstract!Next  OBVIOUS
<1>1. pc = "search" /\ Abstract!placed = elems(orderedFeatures)
  BY QueueIsFree DEF SInv, AddLeftover, Finish
<1>2. /\ Features \ elems(orderedFeatures) = remaining \ elems(orderedFeatures)
      /\ elems(orderedFeatures) \subseteq Features /\ remaining # {}
  BY <1>1 DEF SInv, KInv, KahnTypes, Left, elems
<1>3. CASE AddLeftover
  <2>1. UNCHANGED <<dependencies, priority, pc, cycles>>
    BY <1>3 DEF AddLeftover, inputs, search
  <2>2. Abstract!AddRest
    BY <1>1, <1>2, <1>3, <2>1 DEF Abstract!AddRest, AddLeftover, first, knownNeeds, phase
  <2> QED  BY <2>2 DEF Abstract!Next
<1>4. CASE Finish
  <2>1. /\ pc' = "done" /\ remaining \subseteq elems(orderedFeatures)
        /\ UNCHANGED <<dependencies, priority, orderedFeatures, cycles, remaining>>
    BY <1>4 DEF Finish, inputs, kahn, search
  <2>2. cycles # <<>>  BY <1>2, <2>1 DEF SInv, CycleReported
  <2>3. Abstract!Return
    BY <1>1, <1>2, <2>1, <2>2 DEF Abstract!Return, knownNeeds, phase
  <2> QED  BY <2>3 DEF Abstract!Next
<1> QED  BY <1>3, <1>4

\* The search is not visible until it finds a cycle.
LEMMA SearchImplements == SInv /\ Search => [Abstract!Next]_Abstract!vars
<1> SUFFICES ASSUME SInv, Search  PROVE [Abstract!Next]_Abstract!vars  OBVIOUS
<1>1. pc = "search" /\ UNCHANGED <<dependencies, priority, pc, orderedFeatures>>
  BY DEF Search, SearchFrom, Descend, SkipVisited, CycleFound, Backtrack, looking, inputs, kahn
<1>2. CASE CycleFound
  <2>1. cycles' # <<>>
    <3>1. \E c : cycles' = Append(cycles, c)  BY <1>2 DEF CycleFound
    <3> QED  BY <3>1 DEF SInv, SearchTypes
  <2>2. Abstract!Report
    BY <1>1, <2>1 DEF Abstract!Report, knownNeeds, phase
  <2> QED  BY <2>2 DEF Abstract!Next
<1>3. CASE SearchFrom \/ Descend \/ SkipVisited \/ Backtrack
  <2>1. cycles' = cycles  BY <1>3 DEF SearchFrom, Descend, SkipVisited, Backtrack
  <2> QED  BY <1>1, <2>1 DEF Abstract!vars, knownNeeds, phase
<1> QED  BY <1>2, <1>3 DEF Search

\* Kahn's algorithm with its counters implements the plain rule: one of the most
\* urgent features that need nothing more comes next, for every array and every list.
THEOREM ResolverImplementsOrder == Spec => AbstractSpec
<1>1. Init => Abstract!Init
  <2> SUFFICES ASSUME Init  PROVE Abstract!Init  OBVIOUS
  <2>1. knownNeeds \in [Features -> SUBSET Features]  BY DEF knownNeeds
  <2> QED  BY <2>1 DEF Init, Abstract!Init, phase
<1>2. SInv /\ SInv' /\ [Next]_vars => [Abstract!Next]_Abstract!vars
  <2> SUFFICES ASSUME SInv, SInv', [Next]_vars  PROVE [Abstract!Next]_Abstract!vars
    OBVIOUS
  <2>1. CASE Order \/ Leftover  BY <2>1, OrderImplements DEF SInv
  <2>2. CASE AddLeftover \/ Finish  BY <2>2, RestImplements
  <2>3. CASE Search  BY <2>3, SearchImplements
  <2>4. CASE UNCHANGED vars
    BY <2>4 DEF vars, inputs, kahn, search, Abstract!vars, knownNeeds, phase
  <2> QED  BY <2>1, <2>2, <2>3, <2>4 DEF Next
<1> QED  BY SearchInductive, <1>1, <1>2, PTL DEF Spec, Abstract!Spec, AbstractSpec

-----------------------------------------------------------------------------
(* The function ends.                                                       *)

\* No feature twice: there are at most as many as there are features in all.
LEMMA OrderFits ==
  ASSUME KInv, NEW f \in Features, f \notin elems(orderedFeatures)
  PROVE  Len(orderedFeatures) < N
<1> DEFINE n == Len(orderedFeatures) + 1
           s == Append(orderedFeatures, f)
<1>1. orderedFeatures \in Seq(Features)  BY DEF KInv, KahnTypes
<1>2. /\ n \in Nat /\ DOMAIN s = 1..n /\ s[n] = f /\ DOMAIN orderedFeatures = 1..(n - 1)
      /\ \A i \in 1..(n - 1) : s[i] = orderedFeatures[i]
      /\ s \in Seq(Features)
  BY <1>1, Appended
<1> HIDE DEF s, n
<1>3. \A i, j \in 1..n : s[i] = s[j] => i = j
  <2>1. \A i \in 1..(n - 1) : s[i] # f  BY <1>2 DEF elems
  <2>2. \A i \in 1..n : i = n \/ i \in 1..(n - 1)  BY <1>2
  <2> QED  BY <2>1, <2>2, <1>2 DEF KInv, Distinct
<1>4. s \in Injection(1..n, 1..N)
  BY <1>2, <1>3 DEF Injection, IsInjective, Features
<1>5. ASSUME NEW k \in Nat  PROVE IsFiniteSet(1..k) /\ Cardinality(1..k) = k
  <2>1. 1 \in Int /\ k \in Int  OBVIOUS
  <2>2. IsFiniteSet(1..k) /\ Cardinality(1..k) = IF 1 > k THEN 0 ELSE k - 1 + 1
    BY <2>1, FS_Interval
  <2> QED  BY <2>2
<1>6. n <= N
  BY <1>2, <1>4, <1>5, FS_Injection
<1> QED  BY <1>1, <1>6 DEF n

\* Every step brings the function nearer to its end, so that it returns: the lists
\* are finite, N + 1 ids can be visited and N features can be ordered.
THEOREM ResolverEnds == Spec => EndsAtLast
<1>1. SInv /\ [Next]_vars => [StepsForward]_vars
  <2> SUFFICES ASSUME SInv, Next  PROVE StepsForward  OBVIOUS
  <2>1. CASE Order
    <3>1. PICK c \in Features : urgent(c) /\ takes(c)  BY <2>1 DEF Order
    <3>2. c \notin elems(orderedFeatures)
      BY <2>1, <3>1 DEF Order, urgent, SInv, KInv, Counted
    <3>3. Len(orderedFeatures) < N  BY <3>2, OrderFits DEF SInv
    <3>4. Len(orderedFeatures') = Len(orderedFeatures) + 1
      BY <3>1, Appended DEF takes, SInv, KInv, KahnTypes
    <3> QED  BY <3>1, <3>3, <3>4 DEF takes, search, StepsForward
  <2>2. CASE Leftover  BY <2>2 DEF Leftover, StepsForward
  <2>3. CASE AddLeftover
    <3>1. PICK f \in Features : f \notin elems(orderedFeatures)
                                /\ orderedFeatures' = Append(orderedFeatures, f)
      BY <2>3 DEF AddLeftover, first
    <3>2. Len(orderedFeatures) < N  BY <3>1, OrderFits DEF SInv
    <3>3. Len(orderedFeatures') = Len(orderedFeatures) + 1
      BY <3>1, Appended DEF SInv, KInv, KahnTypes
    <3> QED  BY <2>3, <3>2, <3>3 DEF AddLeftover, search, StepsForward
  <2>4. CASE Finish  BY <2>4 DEF Finish, StepsForward
  <2>5. CASE SearchFrom \/ Descend
    <3>1. PICK id : id \notin visited /\ visited' = visited \cup {id} /\ pc' = pc
      BY <2>5 DEF SearchFrom, Descend, begins, first
    <3> QED  BY <3>1 DEF StepsForward
  <2>6. CASE SkipVisited
    <3>1. looking /\ calls # <<>> /\ calls' = goneOn /\ UNCHANGED <<pc, visited>>
      BY <2>6 DEF SkipVisited, looking
    <3>2. Len(goneOn) = Len(calls) /\ goneOn[Len(calls)].at = top.at + 1  BY <3>1, TopCall
    <3> QED  BY <3>1, <3>2 DEF StepsForward, looking
  <2>7. CASE CycleFound \/ Backtrack
    <3>1. calls # <<>> /\ UNCHANGED <<pc, visited>> /\ Len(calls) \in Nat \ {0}
      BY <2>7, TopCall DEF CycleFound, Backtrack, looking
    <3>2. CASE CycleFound  BY <3>1, <3>2 DEF CycleFound, StepsForward
    <3>3. CASE Backtrack
      <4>1. calls \in Seq(DfsCall)  BY DEF SInv, SearchTypes
      <4>2. Len(SubSeq(calls, 1, Len(calls) - 1)) = Len(calls) - 1  BY <3>1, <4>1, Shortened
      <4>3. Len(calls') < Len(calls)  BY <3>1, <3>3, <4>2 DEF Backtrack
      <4> QED  BY <3>1, <4>3 DEF StepsForward
    <3> QED  BY <2>7, <3>2, <3>3
  <2> QED  BY <2>1, <2>2, <2>3, <2>4, <2>5, <2>6, <2>7 DEF Next, Search
<1> QED  BY SearchInductive, <1>1, PTL DEF Spec, EndsAtLast
=============================================================================
