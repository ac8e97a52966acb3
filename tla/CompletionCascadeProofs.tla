----------------------- MODULE CompletionCascadeProofs -----------------------
(***************************************************************************)
(* Proofs about CompletionCascade, for any features, epics, milestones and *)
(* number of overlapping calls: whatever the calls read at different       *)
(* times, nothing is marked or announced over a feature that was never     *)
(* done, and no stale write leaves a completed project with an open        *)
(* milestone.                                                              *)
(***************************************************************************)
EXTENDS CompletionCascade, TLAPS

USE CascadeAssumption

-----------------------------------------------------------------------------
(* The inductive invariant.                                                 *)

Statuses == {"none", "open", "review", "blocked", "done"}
Marks    == Epics \cup Milestones

\* The features of an item that exist, and were neither done nor excused as late.
due(i)  == {f \in existing(IF i \in Epics THEN children(i) ELSE members(i)) :
              f \notin wasDone /\ <<f, i>> \notin late}
missing == [i \in Marks |-> due(i)]

\* The items of which every part is accounted for.
fine == {i \in Marks : accounted(i)}

\* A copy of the project that was taken while the milestones of C were completed.
CopyOK(d, C) ==
  /\ d \in Copies
  /\ d.done \subseteq C
  /\ d.status = "completed" => d.done = Milestones

\* looksAt() of a call.
looks(c, i) ==
  \/ c.pc \in {"children", "list", "create", "claim"} /\ epicOf[c.on] = i
  \/ c.pc \in {"features", "mark"} /\ Head(c.todo) = i

\* A call, when the milestones of C are completed, the keys of E are set, and the items
\* miss what M says: what it looks at can miss only what it has not read.
CallOK(c, C, E, M) ==
  /\ c \in Calls
  /\ CopyOK(c.copy, C)
  /\ c.held = "completed" => C = Milestones
  /\ c.pc \in EpicPhase => c.on \in Features /\ epicOf[c.on] \in Epics
  /\ c.pc \in {"review", "done"} => epicOf[c.on] \in E
  /\ c.pc \in MilestonePhase => c.todo # <<>>
  /\ c.pc \in {"write", "set"} => Head(c.todo) \in E
  /\ c.pc \in {"writeProject", "setProject", "announce"} => C = Milestones
  /\ c.pc \notin {"children", "features"} => c.unread = {}
  /\ \A i \in Marks : looks(c, i) => M[i] \subseteq c.unread

\* What the calls and the sync hold, what was marked, and the project.
Held   == /\ \A h \in Handlers : CallOK(handler[h], completed, emitted, missing)
          /\ CopyOK(sync.copy, completed)
Marked == /\ \A e \in Epics : status[e] # "none"
          /\ \A g \in Features : status[g] = "done" => g \in wasDone
          /\ emitted \cup completed \cup disk.done \cup announced \subseteq fine \cup {Project}
Whole  == /\ project = "completed" => completed = Milestones
          /\ disk.status = "completed" => disk.done = Milestones
          /\ Project \in announced => Milestones \subseteq fine

CInv == TypeOK /\ Held /\ Marked /\ Whole

-----------------------------------------------------------------------------
(* How the board moves.                                                     *)

\* The board after a step: the statuses are of their type, epics stay, and no item misses
\* more than it did or loses a part that was accounted for.
BoardKept ==
  /\ status' \in [Features -> Statuses] /\ wasDone' \subseteq Features
  /\ late' \subseteq Features \X Items
  /\ \A e \in Epics : status'[e] # "none"
  /\ \A g \in Features : status'[g] = "done" => g \in wasDone'
  /\ \A i \in Marks : missing'[i] \subseteq missing[i]
  /\ fine \subseteq fine'

\* What the invariant says of the board.
LEMMA BoardTyped ==
  ASSUME CInv
  PROVE  /\ status \in [Features -> Statuses] /\ wasDone \subseteq Features
         /\ late \subseteq Features \X Items
         /\ \A e \in Epics : status[e] # "none"
         /\ \A g \in Features : status[g] = "done" => g \in wasDone
BY DEF CInv, TypeOK, Marked, Statuses

\* An item at rest: nothing on the board changes.
LEMMA SameBoard ==
  ASSUME CInv, UNCHANGED <<status, wasDone, late>>
  PROVE  BoardKept /\ missing' = missing /\ fine' = fine
<1>1. missing' = missing  BY DEF missing, due, existing, children, members
<1>2. fine' = fine  BY DEF fine, accounted, parts, existing, children, members
<1> QED  BY <1>1, <1>2, BoardTyped DEF BoardKept

\* The statuses change, but no feature comes or goes.
LEMMA StatusMoves ==
  ASSUME CInv, NEW st \in [Features -> Statuses], moves(st), UNCHANGED late,
         \A f \in Features : st[f] = "none" <=> status[f] = "none"
  PROVE  BoardKept
<1>1. /\ status' = st /\ wasDone \subseteq wasDone' /\ wasDone' \subseteq Features
      /\ late' = late
  BY BoardTyped DEF moves
<1>2. \A S \in SUBSET Features : {f \in S : status'[f] # "none"} = {f \in S : status[f] # "none"}
  BY <1>1
<1>3. ASSUME NEW i \in Marks  PROVE missing'[i] \subseteq missing[i]
  BY <1>1, <1>2 DEF missing, due, existing, children, members
<1>4. ASSUME NEW i \in Marks, accounted(i)  PROVE accounted(i)'
  BY <1>1, <1>2, <1>4 DEF accounted, parts, existing, children, members
<1>5. fine \subseteq fine'  BY <1>4 DEF fine
<1>6. \A e \in Epics : status'[e] # "none"  BY <1>1, BoardTyped
<1>7. \A g \in Features : status'[g] = "done" => g \in wasDone'  BY DEF moves
<1> QED  BY <1>1, <1>3, <1>5, <1>6, <1>7, BoardTyped DEF BoardKept

\* The status of one feature that exists changes.
LEMMA OneMoves ==
  ASSUME CInv, NEW f \in Features, status[f] # "none", NEW s \in Statuses, s # "none",
         moves([status EXCEPT ![f] = s]), UNCHANGED late
  PROVE  BoardKept
<1>1. [status EXCEPT ![f] = s] \in [Features -> Statuses]  BY BoardTyped
<1>2. \A g \in Features : [status EXCEPT ![f] = s][g] = "none" <=> status[g] = "none"
  BY BoardTyped
<1> QED  BY <1>1, <1>2, StatusMoves

\* A feature comes: items that are looked at or marked do not miss it.
LEMMA Scaffolded ==
  ASSUME CInv, NEW f \in Features, Scaffold(f)
  PROVE  /\ status' \in [Features -> Statuses] /\ wasDone' \subseteq Features
         /\ late' \subseteq Features \X Items
         /\ \A e \in Epics : status'[e] # "none"
         /\ \A g \in Features : status'[g] = "done" => g \in wasDone'
         /\ \A i \in Marks, h \in Handlers : looks(handler[h], i) => missing'[i] \subseteq missing[i]
         /\ \A i \in fine : i \in Milestones \/ i \in emitted \cup announced => i \in fine'
<1> DEFINE new == {<<f, i>> : i \in {j \in Epics \cup Milestones :
                     /\ f \in members(j) \cup children(j)
                     /\ j \in emitted \cup announced \/ \E h \in Handlers : looksAt(h, j)}}
<1>1. /\ status[f] = "none" /\ status' = [status EXCEPT ![f] = "open"]
      /\ wasDone' = wasDone \cup {g \in Features : status'[g] = "done"}
      /\ late' = late \cup new
  BY DEF Scaffold, moves
<1>2. status' \in [Features -> Statuses]  BY <1>1, BoardTyped DEF Statuses
<1>3. wasDone \subseteq wasDone' /\ wasDone' \subseteq Features  BY <1>1, BoardTyped
<1>4. new \subseteq Features \X Items  BY DEF Items
<1>5. late \subseteq late' /\ late' \subseteq Features \X Items  BY <1>1, <1>4, BoardTyped
<1>6. \A e \in Epics : status'[e] # "none"  BY <1>1, BoardTyped
<1>7. \A g \in Features : status'[g] # "none" => status[g] # "none" \/ g = f
  BY <1>1, BoardTyped
<1>8. ASSUME NEW i \in Marks, NEW h \in Handlers, looks(handler[h], i)
      PROVE  missing'[i] \subseteq missing[i]
  <2> DEFINE S == IF i \in Epics THEN children(i) ELSE members(i)
  <2>1. looksAt(h, i)  BY <1>8 DEF looks, looksAt, epic, milestone
  <2>2. f \in S => <<f, i>> \in late'
    BY <1>1, <2>1 DEF Marks
  <2>3. S \subseteq Features  BY DEF children, members
  <2>4. missing'[i] = {g \in S : status'[g] # "none" /\ g \notin wasDone' /\ <<g, i>> \notin late'}
    BY DEF missing, due, existing, children, members
  <2>5. missing[i] = {g \in S : status[g] # "none" /\ g \notin wasDone /\ <<g, i>> \notin late}
    BY DEF missing, due, existing
  <2> HIDE DEF S
  <2> QED  BY <1>3, <1>5, <1>7, <2>2, <2>3, <2>4, <2>5
<1>9. ASSUME NEW i \in fine, i \in Milestones \/ i \in emitted \cup announced  PROVE i \in fine'
  <2>1. i \in Marks /\ accounted(i)  BY DEF fine
  <2>2. CASE i \notin Epics
    <3>1. accounted(i)'  BY <1>3, <1>5, <2>1, <2>2 DEF accounted, parts, members
    <3> QED  BY <2>1, <3>1 DEF fine
  <2>3. CASE i \in Epics
    <3>1. i \in emitted \cup announced  BY <1>9, <2>3
    <3>2. f \in children(i) => <<f, i>> \in late'  BY <1>1, <2>3, <3>1
    <3>3. \A g \in children(i) : status[g] # "none" => g \in wasDone \/ <<g, i>> \in late
      BY <2>1, <2>3 DEF accounted, parts, existing
    <3>4. \A g \in children(i) : status'[g] # "none" => g \in wasDone' \/ <<g, i>> \in late'
      BY <1>3, <1>5, <1>7, <3>2, <3>3 DEF children
    <3>5. accounted(i)'  BY <2>3, <3>4 DEF accounted, parts, existing, children
    <3> QED  BY <2>1, <3>5 DEF fine
  <2> QED  BY <2>2, <2>3
<1>10. \A g \in Features : status'[g] = "done" => g \in wasDone'  BY <1>1
<1> QED  BY <1>2, <1>3, <1>5, <1>6, <1>8, <1>9, <1>10

-----------------------------------------------------------------------------
(* Calls.                                                                   *)

\* Calls and copies stay as they are when more is completed and claimed, and no item the
\* call looks at misses more.
LEMMA MoreCompleted ==
  ASSUME NEW C, NEW D, NEW E, NEW F, NEW M, NEW N,
         C \subseteq D, D \subseteq Milestones, E \subseteq F
  PROVE  /\ \A c : CallOK(c, C, E, M) /\ (\A i \in Marks : looks(c, i) => N[i] \subseteq M[i])
                     => CallOK(c, D, F, N)
         /\ \A d : CopyOK(d, C) => CopyOK(d, D)
<1>1. \A d : CopyOK(d, C) => CopyOK(d, D)  BY DEF CopyOK
<1>2. C = Milestones => D = Milestones  OBVIOUS
<1>3. ASSUME NEW c, CallOK(c, C, E, M), \A i \in Marks : looks(c, i) => N[i] \subseteq M[i]
      PROVE  CallOK(c, D, F, N)
  <2>1. \A i \in Marks : looks(c, i) => N[i] \subseteq c.unread  BY <1>3 DEF CallOK
  <2> QED  BY <1>1, <1>2, <1>3, <2>1 DEF CallOK
<1> QED  BY <1>1, <1>3

\* An idle call holds nothing.
LEMMA IdleOK ==
  ASSUME NEW C, NEW E, NEW M
  PROVE  CallOK(idle, C, E, M) /\ CopyOK(empty, C)
<1>1. empty \in Copies /\ empty.done = {} /\ empty.status = "active"  BY DEF empty, Copies
<1>2. CopyOK(empty, C)  BY <1>1 DEF CopyOK
<1>3. <<>> \in Seq(Milestones)  OBVIOUS
<1>4. idle \in Calls  BY <1>1, <1>3 DEF idle, call, Calls, Steps
<1>5. /\ idle.pc = "idle" /\ idle.unread = {} /\ idle.copy = empty /\ idle.held = "active"
  BY DEF idle, call
<1> QED  BY <1>2, <1>4, <1>5 DEF CallOK, looks, EpicPhase, MilestonePhase

\* What a call needs at a step.
LEMMA Built ==
  ASSUME NEW step \in Steps, NEW f \in Features \cup {None}, NEW todo \in Seq(Milestones),
         NEW S \in SUBSET Features, NEW held \in {"active", "completed"}, NEW copy,
         NEW C, NEW E, NEW M, CopyOK(copy, C),
         held = "completed" => C = Milestones,
         step \in EpicPhase => f \in Features /\ epicOf[f] \in Epics,
         step \in {"review", "done"} => epicOf[f] \in E,
         step \in {"children", "list", "create", "claim"} => M[epicOf[f]] \subseteq S,
         step \in MilestonePhase => todo # <<>>,
         step \in {"write", "set"} => Head(todo) \in E,
         step \in {"features", "mark"} => M[Head(todo)] \subseteq S,
         step \in {"writeProject", "setProject", "announce"} => C = Milestones,
         step \notin {"children", "features"} => S = {}
  PROVE  CallOK(call(step, f, todo, S, held, copy), C, E, M)
<1> DEFINE c == call(step, f, todo, S, held, copy)
<1>1. copy \in Copies  BY DEF CopyOK
<1>2. /\ c \in Calls /\ c.pc = step /\ c.on = f /\ c.todo = todo /\ c.unread = S
      /\ c.held = held /\ c.copy = copy
  BY <1>1 DEF call, Calls
<1> HIDE DEF c
<1>3. ASSUME NEW i \in Marks, looks(c, i)  PROVE M[i] \subseteq c.unread
  BY <1>2, <1>3 DEF looks
<1>4. CallOK(c, C, E, M)  BY <1>2, <1>3 DEF CallOK
<1> QED  BY <1>4 DEF c

\* The call that goesOn() leaves behind.
LEMMA CheckingOK ==
  ASSUME NEW C, NEW E, NEW M, NEW f \in Features \cup {None}, NEW todo \in Seq(Milestones)
  PROVE  CallOK(checking(f, todo), C, E, M)
<1>1. CopyOK(empty, C)  BY IdleOK
<1> DEFINE S == {}
           step == "milestone"
<1>2. S \in SUBSET Features /\ step \in MilestonePhase /\ step \in Steps
  BY DEF Steps, EpicPhase, MilestonePhase
<1>3. /\ step \notin EpicPhase
      /\ step \notin {"review", "done", "children", "list", "create", "claim", "write", "set",
                      "features", "mark", "writeProject", "setProject", "announce"}
  BY DEF EpicPhase
<1> HIDE DEF S, step
<1>4. S = {}  BY DEF S
<1>5. todo # <<>> => CallOK(call(step, f, todo, S, "active", empty), C, E, M)
  BY <1>1, <1>2, <1>3, <1>4, Built
<1>6. todo # <<>> => CallOK(call("milestone", f, todo, {}, "active", empty), C, E, M)
  BY <1>5 DEF S, step
<1> QED  BY <1>6, IdleOK DEF checking

\* When one call changes and the others stay.
LEMMA OneCall ==
  ASSUME CInv, NEW h \in Handlers, NEW c, handler' = [handler EXCEPT ![h] = c],
         CallOK(c, completed', emitted', missing'),
         completed \subseteq completed', completed' \subseteq Milestones,
         emitted \subseteq emitted', \A i \in Marks : missing'[i] \subseteq missing[i]
  PROVE  /\ handler' \in [Handlers -> Calls]
         /\ \A g \in Handlers : CallOK(handler'[g], completed', emitted', missing')
<1>1. c \in Calls  BY DEF CallOK
<1>2. \A g \in Handlers : CallOK(handler[g], completed', emitted', missing')
  BY MoreCompleted DEF CInv, Held
<1> QED  BY <1>1, <1>2 DEF CInv, TypeOK

\* A call in progress has what its step needs.
LEMMA CallHas ==
  ASSUME CInv, NEW h \in Handlers
  PROVE  /\ handler[h] \in Calls /\ CallOK(handler[h], completed, emitted, missing)
         /\ handler[h].todo \in Seq(Milestones) /\ handler[h].on \in Features \cup {None}
         /\ handler[h].todo # <<>> => /\ Head(handler[h].todo) \in Milestones
                                      /\ Tail(handler[h].todo) \in Seq(Milestones)
<1>1. handler[h] \in Calls /\ CallOK(handler[h], completed, emitted, missing)
  BY DEF CInv, TypeOK, Held
<1>2. handler[h].todo \in Seq(Milestones) /\ handler[h].on \in Features \cup {None}
  BY <1>1 DEF Calls
<1> QED  BY <1>1, <1>2

\* The invariant holds at first.
LEMMA CascadeInit == Init => CInv
<1> SUFFICES ASSUME Init  PROVE CInv  OBVIOUS
<1>1. status \in [Features -> Statuses]  BY DEF Init, Statuses
<1>2. idle \in Calls /\ empty \in Copies  BY IdleOK DEF CallOK, CopyOK
<1>3. TypeOK
  <2>1. sync \in [writing : BOOLEAN, copy : Copies]  BY <1>2 DEF Init
  <2>2. disturbances \in 0..MaxDisturbances  BY DEF Init
  <2>3. handler \in [Handlers -> Calls] /\ events \in [Features -> Nat]  BY <1>2 DEF Init
  <2> QED  BY <1>1, <1>2, <2>1, <2>2, <2>3 DEF Init, TypeOK, Statuses
<1>4. Held  BY IdleOK DEF Init, Held
<1>5. Marked /\ Whole  BY <1>2 DEF Init, Marked, Whole, empty
<1> QED  BY <1>3, <1>4, <1>5 DEF CInv

-----------------------------------------------------------------------------
(* The board, the sync and restarts.                                        *)

\* Taking the project as it is makes a sound copy.
LEMMA SyncTakes ==
  ASSUME CInv, SyncRead
  PROVE  /\ sync' \in [writing : BOOLEAN, copy : Copies]
         /\ CopyOK(sync'.copy, completed)
<1> DEFINE d == [status |-> project, done |-> completed]
<1>1. sync \in [writing : BOOLEAN, copy : Copies] /\ CopyOK(sync.copy, completed)
  BY DEF CInv, TypeOK, Held
<1>2. d \in Copies /\ d.done = completed /\ d.status = project
  BY DEF CInv, TypeOK, Copies
<1>3. CopyOK(d, completed)  BY <1>2 DEF CInv, Whole, CopyOK
<1> HIDE DEF d
<1>4. CASE sync.writing  BY <1>1, <1>4 DEF SyncRead
<1>5. CASE ~sync.writing
  <2>1. sync' = [writing |-> TRUE, copy |-> d]  BY <1>5 DEF SyncRead, d
  <2> QED  BY <2>1, <1>2, <1>3
<1> QED  BY <1>4, <1>5

\* What is held stays sound while no item that is looked at misses more.
LEMMA HeldKept ==
  ASSUME CInv, handler' = handler, completed' = completed, emitted' = emitted,
         CopyOK(sync'.copy, completed),
         \A i \in Marks, h \in Handlers : looks(handler[h], i) => missing'[i] \subseteq missing[i]
  PROVE  Held'
<1>1. completed \subseteq completed' /\ completed' \subseteq Milestones  BY DEF CInv, TypeOK
<1>2. \A c : /\ CallOK(c, completed, emitted, missing)
             /\ \A i \in Marks : looks(c, i) => missing'[i] \subseteq missing[i]
             => CallOK(c, completed', emitted', missing')
  BY <1>1, MoreCompleted
<1> QED  BY <1>2 DEF CInv, Held

\* What a step of the board leaves alone.
BoardOnly ==
  /\ UNCHANGED <<branch, handler, memory, disks, announced, died>>
  /\ prOpen' \subseteq Epics
  /\ events' \in [Features -> Nat]
  /\ sync' \in [writing : BOOLEAN, copy : Copies] /\ CopyOK(sync'.copy, completed)
  /\ disturbances' \in 0..MaxDisturbances

\* The steps of the board other than Scaffold.
LEMMA BoardMoves ==
  ASSUME CInv,
         \/ \E f \in Features : FeatureDone(f) \/ Reopen(f) \/ Notice(f)
         \/ \E e \in Epics : EpicMerged(e)
  PROVE  BoardOnly /\ BoardKept
<1>0. /\ events \in [Features -> Nat] /\ prOpen \subseteq Epics
      /\ disturbances \in 0..MaxDisturbances /\ MaxDisturbances \in Nat
      /\ sync \in [writing : BOOLEAN, copy : Copies] /\ CopyOK(sync.copy, completed)
  BY DEF CInv, TypeOK, Held
<1>1. ASSUME NEW f \in Features, FeatureDone(f)  PROVE BoardOnly /\ BoardKept
  <2>1. BoardKept  BY <1>1, OneMoves DEF FeatureDone, Statuses
  <2>2. sync' \in [writing : BOOLEAN, copy : Copies] /\ CopyOK(sync'.copy, completed)
    BY <1>1, SyncTakes DEF FeatureDone
  <2>3. events' \in [Features -> Nat]  BY <1>0, <1>1 DEF FeatureDone
  <2> QED  BY <1>0, <1>1, <2>1, <2>2, <2>3 DEF FeatureDone, BoardOnly, counts
<1>2. ASSUME NEW f \in Features, Reopen(f)  PROVE BoardOnly /\ BoardKept
  <2>1. BoardKept  BY <1>2, OneMoves DEF Reopen, Statuses
  <2>2. sync' \in [writing : BOOLEAN, copy : Copies] /\ CopyOK(sync'.copy, completed)
    BY <1>2, SyncTakes DEF Reopen
  <2>3. disturbances' \in 0..MaxDisturbances  BY <1>0, <1>2 DEF Reopen, disturbed
  <2> QED  BY <1>0, <1>2, <2>1, <2>2, <2>3 DEF Reopen, BoardOnly
<1>3. ASSUME NEW f \in Features, Notice(f)  PROVE BoardOnly /\ BoardKept
  <2>1. UNCHANGED <<status, wasDone, late>>  BY <1>3 DEF Notice, board
  <2>2. BoardKept  BY <2>1, SameBoard
  <2>3. disturbances' \in 0..MaxDisturbances  BY <1>0, <1>3 DEF Notice, disturbed
  <2>4. events' \in [Features -> Nat]  BY <1>0, <1>3 DEF Notice
  <2> QED  BY <1>0, <1>3, <2>2, <2>3, <2>4 DEF Notice, BoardOnly
<1>4. ASSUME NEW e \in Epics, EpicMerged(e)  PROVE BoardOnly /\ BoardKept
  <2>1. e \in Features /\ status[e] # "none"  BY BoardTyped
  <2>2. BoardKept  BY <1>4, <2>1, OneMoves DEF EpicMerged, Statuses
  <2>3. events' \in [Features -> Nat]  BY <1>0, <1>4, <2>1 DEF EpicMerged
  <2> QED  BY <1>0, <1>4, <2>2, <2>3 DEF EpicMerged, BoardOnly, counts
<1> QED  BY <1>1, <1>2, <1>3, <1>4

\* The board moves, an event comes.
LEMMA BoardInv == CInv /\ Board => CInv'
<1> SUFFICES ASSUME CInv, Board  PROVE CInv'  OBVIOUS
<1> DEFINE Effect ==
      /\ BoardOnly
      /\ status' \in [Features -> Statuses] /\ wasDone' \subseteq Features
      /\ late' \subseteq Features \X Items
      /\ \A e \in Epics : status'[e] # "none"
      /\ \A g \in Features : status'[g] = "done" => g \in wasDone'
      /\ \A i \in Marks, h \in Handlers : looks(handler[h], i) => missing'[i] \subseteq missing[i]
      /\ \A i \in fine : i \in Milestones \/ i \in emitted \cup announced => i \in fine'
<1>1. ASSUME \E f \in Features : Scaffold(f)  PROVE Effect
  <2>1. PICK f \in Features : Scaffold(f)  BY <1>1
  <2>2. /\ sync \in [writing : BOOLEAN, copy : Copies] /\ CopyOK(sync.copy, completed)
        /\ events \in [Features -> Nat] /\ prOpen \subseteq Epics
        /\ disturbances \in 0..MaxDisturbances
    BY DEF CInv, TypeOK, Held
  <2>3. BoardOnly  BY <2>1, <2>2 DEF Scaffold, BoardOnly, counts
  <2> QED  BY <2>1, <2>3, Scaffolded
<1>2. ASSUME \/ \E f \in Features : FeatureDone(f) \/ Reopen(f) \/ Notice(f)
             \/ \E e \in Epics : EpicMerged(e)
      PROVE  Effect
  BY <1>2, BoardMoves DEF BoardKept
<1>3. Effect  BY <1>1, <1>2 DEF Board
<1> HIDE DEF Effect
<1>4. /\ UNCHANGED <<handler, emitted, completed, project, ledger, disk, announced, died, branch>>
      /\ prOpen' \subseteq Epics /\ events' \in [Features -> Nat]
      /\ sync' \in [writing : BOOLEAN, copy : Copies] /\ CopyOK(sync'.copy, completed)
      /\ disturbances' \in 0..MaxDisturbances
  BY <1>3 DEF Effect, BoardOnly, memory, disks
<1>5. TypeOK'  BY <1>3, <1>4 DEF CInv, TypeOK, Effect, Statuses
<1>6. Held'  BY <1>3, <1>4, HeldKept DEF Effect
<1>7. \A i \in emitted \cup completed \cup disk.done \cup announced :
        i \in Milestones \/ i \in emitted \cup announced
  BY DEF CInv, TypeOK, Copies
<1>8. Marked'  BY <1>3, <1>4, <1>7 DEF CInv, Marked, Effect
<1>9. Milestones \subseteq fine => Milestones \subseteq fine'  BY <1>3 DEF Effect
<1>10. Whole'  BY <1>4, <1>9 DEF CInv, Whole
<1> QED  BY <1>5, <1>6, <1>8, <1>10 DEF CInv

\* The sync writes its copy.
LEMMA SyncWriteInv == CInv /\ SyncWrite => CInv'
<1> SUFFICES ASSUME CInv, SyncWrite  PROVE CInv'  OBVIOUS
<1>1. /\ UNCHANGED <<branch, status, wasDone, late, prOpen, events, handler, emitted, completed>>
      /\ UNCHANGED <<ledger, announced, disturbances, died>>
      /\ disk' = sync.copy /\ project' = sync.copy.status
      /\ sync' = [writing |-> FALSE, copy |-> empty]
  BY DEF SyncWrite, board, counts
<1>2. CopyOK(sync.copy, completed)  BY DEF CInv, Held
<1>3. CopyOK(empty, completed)  BY IdleOK
<1>4. /\ disk' \in Copies /\ disk'.done \subseteq completed
      /\ disk'.status = "completed" => disk'.done = Milestones
      /\ project' \in {"active", "completed"} /\ project' = disk'.status
  BY <1>1, <1>2 DEF CopyOK, Copies
<1>5. missing' = missing /\ fine' = fine  BY <1>1, SameBoard
<1>6. TypeOK'
  <2>1. sync' \in [writing : BOOLEAN, copy : Copies]  BY <1>1, <1>3 DEF CopyOK
  <2> QED  BY <1>1, <1>4, <2>1 DEF CInv, TypeOK
<1>7. Held'
  <2>1. CopyOK(sync'.copy, completed)  BY <1>1, <1>3
  <2> QED  BY <1>1, <1>5, <2>1, HeldKept
<1>8. Marked'  BY <1>1, <1>4, <1>5 DEF CInv, Marked
<1>9. Whole'  BY <1>1, <1>4, <1>5 DEF CInv, TypeOK, Whole
<1> QED  BY <1>6, <1>7, <1>8, <1>9 DEF CInv

\* The process dies: memory comes from the disk.
LEMMA RestartInv == CInv /\ Restart => CInv'
<1> SUFFICES ASSUME CInv, Restart  PROVE CInv'  OBVIOUS
<1>1. /\ UNCHANGED <<branch, status, wasDone, late, prOpen, disk, announced>>
      /\ disturbances < MaxDisturbances /\ disturbances' = disturbances + 1 /\ died' = TRUE
      /\ events' = [f \in Features |-> 0] /\ handler' = [h \in Handlers |-> idle]
      /\ sync' = [writing |-> FALSE, copy |-> empty]
      /\ completed' = disk.done /\ project' = disk.status
      /\ ledger' \subseteq emitted /\ emitted' = ledger'
  BY DEF Restart, board, disturbed
<1>2. disk \in Copies /\ disk.done \subseteq Milestones /\ disk.status \in {"active", "completed"}
  BY DEF CInv, TypeOK, Copies
<1>3. CallOK(idle, completed', emitted', missing') /\ CopyOK(empty, completed')  BY IdleOK
<1>4. idle \in Calls /\ empty \in Copies  BY <1>3 DEF CallOK, CopyOK
<1>5. missing' = missing /\ fine' = fine  BY <1>1, SameBoard
<1>6. TypeOK'
  <2>1. sync' \in [writing : BOOLEAN, copy : Copies]  BY <1>1, <1>4
  <2>2. disturbances' \in 0..MaxDisturbances  BY <1>1 DEF CInv, TypeOK
  <2>3. handler' \in [Handlers -> Calls] /\ events' \in [Features -> Nat]  BY <1>1, <1>4
  <2> QED  BY <1>1, <1>2, <2>1, <2>2, <2>3 DEF CInv, TypeOK
<1>7. Held'
  <2>1. \A h \in Handlers : CallOK(handler'[h], completed', emitted', missing')  BY <1>1, <1>3
  <2>2. CopyOK(sync'.copy, completed')  BY <1>1, <1>3
  <2> QED  BY <2>1, <2>2 DEF Held
<1>8. Marked'  BY <1>1, <1>5 DEF CInv, Marked
<1>9. Whole'  BY <1>1, <1>5 DEF CInv, Whole
<1> QED  BY <1>6, <1>7, <1>8, <1>9 DEF CInv

-----------------------------------------------------------------------------
(* The steps of a call.                                                     *)

\* The same call at another step, at which nothing is left to be read.
LEMMA Moved ==
  ASSUME NEW C, NEW E, NEW M, NEW o, o.on \in Features \cup {None}, o.todo \in Seq(Milestones),
         NEW step \in Steps, NEW copy, NEW held \in {"active", "completed"}, CopyOK(copy, C),
         held = "completed" => C = Milestones, step \notin {"children", "features"},
         step \in EpicPhase => o.on \in Features /\ epicOf[o.on] \in Epics,
         step \in {"review", "done"} => epicOf[o.on] \in E,
         step \in {"list", "create", "claim"} => M[epicOf[o.on]] \subseteq {},
         step \in MilestonePhase => o.todo # <<>>,
         step \in {"write", "set"} => Head(o.todo) \in E,
         step = "mark" => M[Head(o.todo)] \subseteq {},
         step \in {"writeProject", "setProject", "announce"} => C = Milestones
  PROVE  CallOK(call(step, o.on, o.todo, {}, held, copy), C, E, M)
<1> DEFINE S == {}
<1>1. S \in SUBSET Features /\ S = {}  OBVIOUS
<1>2. step \in {"children", "list", "create", "claim"} => M[epicOf[o.on]] \subseteq S
  OBVIOUS
<1>3. step \in {"features", "mark"} => M[Head(o.todo)] \subseteq S  OBVIOUS
<1> HIDE DEF S
<1>4. CallOK(call(step, o.on, o.todo, S, held, copy), C, E, M)
  BY <1>1, <1>2, <1>3, Built
<1> QED  BY <1>1, <1>4

\* What the invariant says of the whole state, for the steps that change parts of it.
LEMMA Before ==
  ASSUME CInv
  PROVE  /\ prOpen \subseteq Epics /\ events \in [Features -> Nat]
         /\ emitted \subseteq Items /\ emitted \subseteq fine \cup {Project}
         /\ completed \subseteq Milestones /\ completed \subseteq fine
         /\ project \in {"active", "completed"}
         /\ project = "completed" => completed = Milestones
         /\ announced \subseteq Items /\ announced \subseteq fine \cup {Project}
         /\ Project \in announced => Milestones \subseteq fine
         /\ emitted \cap Marks \subseteq fine
BY DEF CInv, TypeOK, Marked, Whole, Marks

\* A step of a call that completes, writes or announces what it may.
LEMMA EffectInv ==
  ASSUME CInv, NEW h \in Handlers, NEW c, handler' = [handler EXCEPT ![h] = c],
         CallOK(c, completed', emitted', missing'),
         UNCHANGED <<branch, sync, ledger, disturbances, died>>, BoardKept,
         prOpen' \subseteq Epics, events' \in [Features -> Nat],
         emitted' \subseteq Items, emitted \subseteq emitted', emitted' \subseteq fine' \cup {Project},
         completed \subseteq completed', completed' \subseteq Milestones,
         completed' \subseteq fine',
         project' \in {"active", "completed"},
         project' = "completed" => completed' = Milestones,
         disk' = disk \/ CopyOK(disk', completed'),
         announced' \subseteq Items, announced' \subseteq fine' \cup {Project},
         Project \in announced' => Milestones \subseteq fine'
  PROVE  CInv'
<1>1. /\ handler' \in [Handlers -> Calls]
      /\ \A g \in Handlers : CallOK(handler'[g], completed', emitted', missing')
  BY OneCall DEF BoardKept
<1>2. /\ disk' \in Copies /\ disk'.done \subseteq fine' \cup {Project}
      /\ disk'.status = "completed" => disk'.done = Milestones
  BY DEF CopyOK, CInv, TypeOK, Marked, Whole, BoardKept
<1>3. TypeOK'  BY <1>1, <1>2 DEF CInv, TypeOK, BoardKept, Statuses
<1>4. CopyOK(sync'.copy, completed')
  <2>1. CopyOK(sync.copy, completed)  BY DEF CInv, Held
  <2> QED  BY <2>1, MoreCompleted
<1>5. Held'  BY <1>1, <1>4 DEF Held
<1>6. Marked'  BY <1>2 DEF Marked, BoardKept
<1>7. Whole'  BY <1>2 DEF Whole
<1> QED  BY <1>3, <1>5, <1>6, <1>7 DEF CInv

\* A step of a call that only looks at the board or at GitHub.
LEMMA QuietCall ==
  ASSUME CInv, NEW h \in Handlers, NEW c, handler' = [handler EXCEPT ![h] = c],
         CallOK(c, completed, emitted, missing),
         UNCHANGED <<branch, board, sync, memory, disks, announced, counts>>,
         prOpen' \subseteq Epics, events' \in [Features -> Nat]
  PROVE  CInv'
<1>1. /\ UNCHANGED <<branch, status, wasDone, late, sync, emitted, completed, project, ledger>>
      /\ UNCHANGED <<disk, announced, disturbances, died>>
  BY DEF board, memory, disks, counts
<1>2. BoardKept /\ missing' = missing /\ fine' = fine  BY <1>1, SameBoard
<1> QED  BY <1>1, <1>2, Before, EffectInv

\* The milestone of a feature, if it has one.
LEMMA MilestonesSeq == \A f \in Features : milestones(f) \in Seq(Milestones)
BY DEF milestones

\* The call begins.
LEMMA StartInv == ASSUME CInv, NEW h \in Handlers, Start(h)  PROVE CInv'
<1>1. PICK f \in Features :
        /\ events[f] > 0 /\ events' = [events EXCEPT ![f] = @ - 1]
        /\ handler' = [handler EXCEPT ![h] =
             IF epicOf[f] = None THEN checking(f, milestones(f))
             ELSE call("epic", f, milestones(f), {}, "active", empty)]
        /\ UNCHANGED <<branch, board, prOpen, sync, memory, disks, announced, counts>>
  BY DEF Start
<1>2. events' \in [Features -> Nat] /\ prOpen' \subseteq Epics  BY <1>1 DEF CInv, TypeOK
<1>3. milestones(f) \in Seq(Milestones)  BY MilestonesSeq
<1>4. CallOK(checking(f, milestones(f)), completed, emitted, missing)  BY <1>3, CheckingOK
<1>5. CASE epicOf[f] = None  BY <1>1, <1>2, <1>4, <1>5, QuietCall
<1>6. CASE epicOf[f] # None
  <2> DEFINE S == {}
             step == "epic"
  <2>1. CopyOK(empty, completed)  BY IdleOK
  <2>2. epicOf[f] \in Epics  BY <1>6
  <2>3. S \in SUBSET Features /\ S = {} /\ step \in Steps /\ step \notin MilestonePhase
    BY DEF Steps, MilestonePhase, EpicPhase
  <2>4. step \notin {"review", "done", "children", "list", "create", "claim", "write", "set",
                     "features", "mark", "writeProject", "setProject", "announce"}
    OBVIOUS
  <2> HIDE DEF S, step
  <2>5. CallOK(call(step, f, milestones(f), S, "active", empty), completed, emitted, missing)
    BY <1>3, <2>1, <2>2, <2>3, <2>4, Built
  <2>6. handler' = [handler EXCEPT ![h] = call(step, f, milestones(f), S, "active", empty)]
    BY <1>1, <1>6, <2>3 DEF step
  <2> QED  BY <1>1, <1>2, <2>5, <2>6, QuietCall
<1> QED  BY <1>5, <1>6

\* A call goes to another step with what it holds.
LEMMA GoesToOK ==
  ASSUME CInv, NEW h \in Handlers, NEW E,
         NEW step \in Steps \ {"children", "features"}, goesTo(h, step),
         step \in EpicPhase => handler[h].on \in Features /\ epicOf[handler[h].on] \in Epics,
         step \in {"review", "done"} => epicOf[handler[h].on] \in E,
         step \in {"list", "create", "claim"} => missing[epicOf[handler[h].on]] \subseteq {},
         step \in MilestonePhase => handler[h].todo # <<>>,
         step \in {"write", "set"} => Head(handler[h].todo) \in E,
         step = "mark" => missing[Head(handler[h].todo)] \subseteq {},
         step \in {"writeProject", "setProject", "announce"} => completed = Milestones
  PROVE  \E c : handler' = [handler EXCEPT ![h] = c] /\ CallOK(c, completed, E, missing)
<1> DEFINE o == handler[h]
<1>1. CallOK(o, completed, emitted, missing) /\ o.on \in Features \cup {None}
      /\ o.todo \in Seq(Milestones)
  BY CallHas
<1>2. /\ o.held \in {"active", "completed"} /\ CopyOK(o.copy, completed)
      /\ o.held = "completed" => completed = Milestones
  BY <1>1 DEF CallOK, Calls
<1>3. handler' = [handler EXCEPT ![h] = call(step, o.on, o.todo, {}, o.held, o.copy)]
  BY DEF goesTo, puts
<1> HIDE DEF o
<1>4. CallOK(call(step, o.on, o.todo, {}, o.held, o.copy), completed, E, missing)
  BY <1>1, <1>2, Moved DEF o
<1> QED  BY <1>3, <1>4

\* The listing of an item: all that it can miss is still to be read.
LEMMA Listed ==
  ASSUME CInv, NEW h \in Handlers, NEW step \in {"children", "features"},
         NEW held \in {"active", "completed"}, held = "completed" => completed = Milestones,
         NEW S \in SUBSET Features, lists(h, step, held, S),
         step = "children" => /\ handler[h].on \in Features /\ epicOf[handler[h].on] \in Epics
                              /\ missing[epicOf[handler[h].on]] \subseteq S,
         step = "features" => /\ handler[h].todo # <<>>
                              /\ missing[Head(handler[h].todo)] \subseteq S
  PROVE  \E c : handler' = [handler EXCEPT ![h] = c] /\ CallOK(c, completed, emitted, missing)
<1> DEFINE o == handler[h]
<1>1. o.on \in Features \cup {None} /\ o.todo \in Seq(Milestones)  BY CallHas
<1>2. handler' = [handler EXCEPT ![h] = call(step, o.on, o.todo, S, held, empty)]
  BY DEF lists
<1>3. CopyOK(empty, completed)  BY IdleOK
<1>4. /\ step \in Steps /\ (step \in EpicPhase <=> step = "children")
      /\ step \in MilestonePhase <=> step = "features"
      /\ step \notin {"review", "done", "list", "create", "claim", "write", "set", "mark",
                      "writeProject", "setProject", "announce"}
  BY DEF Steps, EpicPhase, MilestonePhase
<1> HIDE DEF o
<1>5. CallOK(call(step, o.on, o.todo, S, held, empty), completed, emitted, missing)
  BY <1>1, <1>3, <1>4, Built DEF o
<1> QED  BY <1>2, <1>5

\* The next file is read: what does not fit ends the look, what fits is not missing.
LEMMA ReadsOK ==
  ASSUME CInv, NEW h \in Handlers, NEW f \in handler[h].unread, NEW fits \in BOOLEAN,
         NEW step \in {"list", "claim", "mark"}, NEW todo \in Seq(Milestones),
         reads(h, f, fits, step, todo),
         \/ handler[h].pc = "children" /\ step \in {"list", "claim"}
            /\ (fits => f \notin missing[epicOf[handler[h].on]])
         \/ handler[h].pc = "features" /\ step = "mark"
            /\ (fits => f \notin missing[Head(handler[h].todo)])
  PROVE  \E c : handler' = [handler EXCEPT ![h] = c] /\ CallOK(c, completed, emitted, missing)
<1> DEFINE o == handler[h]
           i == IF o.pc = "children" THEN epicOf[o.on] ELSE Head(o.todo)
<1>1. /\ o \in Calls /\ CallOK(o, completed, emitted, missing)
      /\ o.on \in Features \cup {None} /\ o.todo \in Seq(Milestones)
      /\ o.todo # <<>> => Head(o.todo) \in Milestones
  BY CallHas
<1>2. o.pc \in {"children", "features"} /\ (o.pc = "children" <=> step \in {"list", "claim"})
  OBVIOUS
<1>3. /\ o.pc = "children" => o.on \in Features /\ epicOf[o.on] \in Epics
      /\ o.pc = "features" => o.todo # <<>>
  BY <1>1, <1>2 DEF CallOK, EpicPhase, MilestonePhase, Steps
<1>4. i \in Marks /\ looks(o, i)  BY <1>1, <1>2, <1>3 DEF Marks, looks
<1>5. missing[i] \subseteq o.unread  BY <1>1, <1>4 DEF CallOK
<1>6. fits => f \notin missing[i]  BY <1>2
<1>7. CASE ~fits
  <2>1. CallOK(checking(o.on, todo), completed, emitted, missing)  BY <1>1, CheckingOK
  <2> QED  BY <1>7, <2>1 DEF reads, goesOn
<1>8. CASE fits /\ o.unread = {f}
  <2>1. missing[i] \subseteq {}  BY <1>5, <1>6, <1>8
  <2>2. goesTo(h, step)  BY <1>8 DEF reads
  <2>3. step \in {"list", "claim"} => missing[epicOf[o.on]] \subseteq {}  BY <1>2, <2>1
  <2>4. step = "mark" => missing[Head(o.todo)] \subseteq {}  BY <1>2, <2>1
  <2>5. /\ step \in Steps \ {"children", "features"} /\ step \notin {"review", "done", "create"}
        /\ step \notin {"write", "set", "writeProject", "setProject", "announce"}
        /\ step \in EpicPhase => o.on \in Features /\ epicOf[o.on] \in Epics
        /\ step \in MilestonePhase => o.todo # <<>>
    BY <1>2, <1>3 DEF Steps, EpicPhase, MilestonePhase
  <2> HIDE DEF i
  <2> QED  BY <2>2, <2>3, <2>4, <2>5, GoesToOK
<1>9. CASE fits /\ o.unread # {f}
  <2> DEFINE d == [o EXCEPT !.unread = @ \ {f}]
  <2>1. handler' = [handler EXCEPT ![h] = d]
    BY <1>9 DEF reads
  <2>2. /\ d \in Calls /\ d.pc = o.pc /\ d.on = o.on /\ d.todo = o.todo /\ d.held = o.held
        /\ d.copy = o.copy /\ d.unread = o.unread \ {f}
    BY <1>1 DEF Calls
  <2> HIDE DEF d
  <2>3. ASSUME NEW j \in Marks, looks(d, j)  PROVE missing[j] \subseteq d.unread
    <3>1. j = i  BY <1>2, <2>2, <2>3 DEF looks
    <3> QED  BY <1>5, <1>6, <1>9, <2>2, <3>1
  <2>4. CallOK(d, completed, emitted, missing)
    BY <1>1, <1>2, <2>2, <2>3 DEF CallOK
  <2> QED  BY <2>1, <2>4
<1> QED  BY <1>7, <1>8, <1>9

\* The steps that look at an epic.
LEMMA EpicLookInv ==
  ASSUME CInv, NEW h \in Handlers,
         EpicLook(h) \/ ReadChild(h) \/ ListPr(h) \/ CreatePr(h)
  PROVE  CInv'
<1> DEFINE o == handler[h]
           e == epicOf[o.on]
           Quiet == UNCHANGED <<branch, board, sync, memory, disks, announced, counts>>
<1>1. /\ CallOK(o, completed, emitted, missing) /\ o.todo \in Seq(Milestones)
      /\ o.on \in Features \cup {None}
      /\ o \in Calls
  BY CallHas
<1>2. o.on \in Features /\ e \in Epics /\ e \in Marks
  BY <1>1 DEF EpicLook, ReadChild, ListPr, CreatePr, CallOK, EpicPhase, Marks
<1>3. events \in [Features -> Nat] /\ prOpen \subseteq Epics  BY Before
<1>4. Quiet /\ prOpen' \subseteq Epics /\ events' \in [Features -> Nat]
  BY <1>2, <1>3 DEF EpicLook, ReadChild, ListPr, CreatePr, epic
<1>5. SUFFICES \E c : handler' = [handler EXCEPT ![h] = c] /\ CallOK(c, completed, emitted, missing)
  BY <1>4, QuietCall
<1>6. ASSUME goesOn(h, o.todo)
      PROVE  \E c : handler' = [handler EXCEPT ![h] = c] /\ CallOK(c, completed, emitted, missing)
  BY <1>1, <1>6, CheckingOK DEF goesOn
<1>7. CASE EpicLook(h)
  <2> DEFINE S == existing(children(e) \cup {e})
  <2>1. goesOn(h, o.todo) \/ lists(h, "children", "active", S)  BY <1>7 DEF EpicLook, epic
  <2>2. S \in SUBSET Features  BY <1>2 DEF existing, children
  <2>3. missing[e] \subseteq S  BY <1>2 DEF missing, due, existing
  <2> HIDE DEF S
  <2>4. CASE lists(h, "children", "active", S)  BY <1>2, <2>2, <2>3, <2>4, Listed
  <2> QED  BY <1>6, <2>1, <2>4
<1>8. CASE ReadChild(h)
  <2>1. PICK f \in o.unread :
          /\ o.pc = "children"
          /\ reads(h, f, IF f = e THEN status[f] \notin {"done", "review"} ELSE status[f] = "done",
                   IF e \in branch THEN "list" ELSE "claim", o.todo)
    BY <1>8 DEF ReadChild, epic
  <2> DEFINE fits == IF f = e THEN status[f] \notin {"done", "review"} ELSE status[f] = "done"
             step == IF e \in branch THEN "list" ELSE "claim"
  <2>2. f \in Features  BY <1>1 DEF Calls
  <2>3. fits \in BOOLEAN /\ step \in {"list", "claim"}  OBVIOUS
  <2>4. fits => f \notin missing[e]
    <3>1. f = e => f \notin missing[e]  BY <1>2 DEF missing, due, existing, children
    <3>2. status[f] = "done" => f \in wasDone  BY <2>2, BoardTyped
    <3>3. f \in wasDone => f \notin missing[e]  BY <1>2 DEF missing, due
    <3> QED  BY <3>1, <3>2, <3>3
  <2>5. reads(h, f, fits, step, o.todo)  BY <2>1
  <2> HIDE DEF fits, step
  <2> QED  BY <1>1, <2>1, <2>3, <2>4, <2>5, ReadsOK
<1>9. CASE ListPr(h) \/ CreatePr(h)
  <2>1. PICK step \in {"claim", "create", "block"} : goesTo(h, step)
    BY <1>9 DEF ListPr, CreatePr
  <2>2. missing[e] \subseteq {}
    <3>1. o.pc \in {"list", "create"}  BY <1>9 DEF ListPr, CreatePr
    <3>2. looks(o, e) /\ o.unread = {}  BY <1>1, <3>1 DEF looks, CallOK
    <3> QED  BY <1>1, <1>2, <3>2 DEF CallOK
  <2>3. /\ step \in Steps \ {"children", "features"} /\ step \notin MilestonePhase
        /\ step \notin {"review", "done", "write", "set", "mark", "writeProject", "setProject",
                        "announce"}
    BY DEF Steps, MilestonePhase, EpicPhase
  <2> QED  BY <1>2, <2>1, <2>2, <2>3, GoesToOK
<1> QED  BY <1>7, <1>8, <1>9

\* The steps that look at a milestone.
LEMMA MilestoneLookInv ==
  ASSUME CInv, NEW h \in Handlers, MilestoneLook(h) \/ ReadFeature(h)
  PROVE  CInv'
<1> DEFINE o == handler[h]
           m == Head(o.todo)
           Quiet == UNCHANGED <<branch, board, sync, memory, disks, announced, counts>>
<1>1. /\ CallOK(o, completed, emitted, missing) /\ o.todo \in Seq(Milestones)
      /\ o.on \in Features \cup {None} /\ o \in Calls
      /\ o.todo # <<>> => m \in Milestones /\ Tail(o.todo) \in Seq(Milestones)
  BY CallHas
<1>2. o.todo # <<>> /\ m \in Milestones /\ m \in Marks /\ m \notin Epics
      /\ Tail(o.todo) \in Seq(Milestones)
  BY <1>1 DEF MilestoneLook, ReadFeature, CallOK, MilestonePhase, EpicPhase, Steps, Marks
<1>3. Quiet /\ prOpen' \subseteq Epics /\ events' \in [Features -> Nat]
  BY Before DEF MilestoneLook, ReadFeature
<1>4. SUFFICES \E c : handler' = [handler EXCEPT ![h] = c] /\ CallOK(c, completed, emitted, missing)
  BY <1>3, QuietCall
<1>5. CASE MilestoneLook(h)
  <2> DEFINE S == existing(members(m))
  <2>1. goesOn(h, Tail(o.todo)) \/ lists(h, "features", project, S)
    BY <1>5 DEF MilestoneLook, milestone
  <2>2. CASE goesOn(h, Tail(o.todo))
    <3>1. CallOK(checking(o.on, Tail(o.todo)), completed, emitted, missing)
      BY <1>1, <1>2, CheckingOK
    <3> QED  BY <2>2, <3>1 DEF goesOn
  <2>3. S \in SUBSET Features /\ missing[m] \subseteq S
    BY <1>2 DEF missing, due, existing, members
  <2> HIDE DEF S
  <2>4. CASE lists(h, "features", project, S)  BY <1>2, <2>3, <2>4, Before, Listed
  <2> QED  BY <2>1, <2>2, <2>4
<1>6. CASE ReadFeature(h)
  <2>1. PICK f \in o.unread :
          /\ o.pc = "features"
          /\ reads(h, f, status[f] = "done", "mark", Tail(o.todo))
    BY <1>6 DEF ReadFeature
  <2> DEFINE fits == status[f] = "done"
  <2>2. f \in Features  BY <1>1 DEF Calls
  <2>3. fits \in BOOLEAN  OBVIOUS
  <2>4. fits => f \notin missing[m]
    <3>1. fits => f \in wasDone  BY <2>2, BoardTyped
    <3>2. f \in wasDone => f \notin missing[m]  BY <1>2 DEF missing, due
    <3> QED  BY <3>1, <3>2
  <2>5. reads(h, f, fits, "mark", Tail(o.todo))  BY <2>1
  <2> HIDE DEF fits
  <2> QED  BY <1>2, <2>1, <2>3, <2>4, <2>5, ReadsOK
<1> QED  BY <1>5, <1>6

\* The key is set: no child is missing.
LEMMA ClaimEpicInv == ASSUME CInv, NEW h \in Handlers, ClaimEpic(h)  PROVE CInv'
<1> DEFINE o == handler[h]
           e == epicOf[o.on]
<1>1. CallOK(o, completed, emitted, missing) /\ o.pc = "claim"  BY CallHas DEF ClaimEpic
<1>2. o.on \in Features /\ e \in Epics /\ e \in Marks  BY <1>1 DEF CallOK, EpicPhase, Marks
<1>3. missing[e] \subseteq {}  BY <1>1, <1>2 DEF CallOK, looks
<1>4. e \in fine
  <2>1. \A f \in existing(children(e)) : f \in wasDone \/ <<f, e>> \in late
    BY <1>2, <1>3 DEF missing, due, existing
  <2> QED  BY <1>2, <2>1 DEF fine, accounted, parts
<1>5. PICK step \in {"review", "done"} : goesTo(h, step)  BY DEF ClaimEpic
<1>6. /\ UNCHANGED <<branch, status, wasDone, late, prOpen, events, sync, completed, project>>
      /\ UNCHANGED <<ledger, disk, announced, disturbances, died>>
      /\ emitted' = emitted \cup {e}
  BY DEF ClaimEpic, board, disks, counts, claims, epic
<1>7. /\ step \in Steps \ {"children", "features"} /\ step \notin MilestonePhase
      /\ step \notin {"list", "create", "claim", "write", "set", "mark", "writeProject",
                      "setProject", "announce"}
  BY DEF Steps, MilestonePhase, EpicPhase
<1>8. PICK c : handler' = [handler EXCEPT ![h] = c] /\ CallOK(c, completed, emitted', missing)
  BY <1>2, <1>5, <1>6, <1>7, GoesToOK
<1>9. BoardKept /\ missing' = missing /\ fine' = fine  BY <1>6, SameBoard
<1>10. emitted' \subseteq Items /\ emitted' \subseteq fine' \cup {Project} /\ emitted \subseteq emitted'
  BY <1>2, <1>4, <1>6, <1>9, Before DEF Items
<1> HIDE DEF o, e
<1> QED  BY <1>6, <1>8, <1>9, <1>10, Before, EffectInv

\* The epic is held for its merge or for a user.
LEMMA HoldEpicInv == ASSUME CInv, NEW h \in Handlers, HoldEpic(h)  PROVE CInv'
<1>1. handler[h].todo \in Seq(Milestones) /\ handler[h].on \in Features \cup {None}
  BY CallHas
<1>2. epic(h) \in Epics  BY CallHas DEF HoldEpic, CallOK, EpicPhase, epic
<1>3. PICK s \in {"review", "blocked"} : moves([status EXCEPT ![epic(h)] = s])
  BY DEF HoldEpic
<1>4. late' = late  BY DEF HoldEpic
<1>5. BoardKept
  <2>1. epic(h) \in Features /\ status[epic(h)] # "none"  BY <1>2, BoardTyped
  <2>2. s \in Statuses /\ s # "none"  BY DEF Statuses
  <2> QED  BY <1>3, <1>4, <2>1, <2>2, OneMoves
<1>6. /\ UNCHANGED <<branch, prOpen, events, sync, emitted, completed, project, ledger>>
      /\ UNCHANGED <<disk, announced, disturbances, died>>
      /\ handler' = [handler EXCEPT ![h] = checking(handler[h].on, handler[h].todo)]
  BY DEF HoldEpic, memory, disks, counts, goesOn
<1>7. CallOK(checking(handler[h].on, handler[h].todo), completed', emitted', missing')
  BY <1>1, CheckingOK
<1>8. fine \subseteq fine'  BY <1>5 DEF BoardKept
<1>9. /\ emitted' \subseteq fine' \cup {Project} /\ completed' \subseteq fine'
      /\ announced' \subseteq fine' \cup {Project}
      /\ Project \in announced' => Milestones \subseteq fine'
  BY <1>6, <1>8, Before
<1> QED  BY <1>5, <1>6, <1>7, <1>9, Before, EffectInv

\* An epic without a branch is done, and its milestone comes next.
LEMMA EpicDoneInv == ASSUME CInv, NEW h \in Handlers, EpicDone(h)  PROVE CInv'
<1> DEFINE o == handler[h]
           e == epicOf[o.on]
<1>1. o.todo \in Seq(Milestones) /\ o.on \in Features /\ e \in Epics /\ e \in emitted
  BY CallHas DEF EpicDone, CallOK, EpicPhase
<1>2. /\ moves([status EXCEPT ![e] = "done"]) /\ late' = late
      /\ events' = [events EXCEPT ![e] = IF status[e] = "done" THEN @ ELSE @ + 1]
      /\ announced' = announced \cup {e}
      /\ handler' = [handler EXCEPT ![h] = checking(o.on, milestones(e) \o o.todo)]
      /\ UNCHANGED <<branch, prOpen, sync, emitted, completed, project, ledger>>
      /\ UNCHANGED <<disk, disturbances, died>>
  BY DEF EpicDone, epic, memory, disks, counts, goesOn
<1>3. BoardKept
  <2>1. e \in Features /\ status[e] # "none"  BY <1>1, BoardTyped
  <2> HIDE DEF e
  <2> QED  BY <1>2, <2>1, OneMoves DEF Statuses
<1>4. fine \subseteq fine' /\ e \in fine'
  <2>1. e \in fine  BY <1>1, Before DEF Marks
  <2> QED  BY <2>1, <1>3 DEF BoardKept
<1>5. events' \in [Features -> Nat]  BY <1>1, <1>2, Before
<1>6. CallOK(checking(o.on, milestones(e) \o o.todo), completed', emitted', missing')
  <2>1. milestones(e) \in Seq(Milestones)  BY <1>1, MilestonesSeq
  <2>2. milestones(e) \o o.todo \in Seq(Milestones)  BY <1>1, <2>1
  <2> QED  BY <1>1, <2>2, CheckingOK
<1>7. /\ emitted' \subseteq fine' \cup {Project} /\ completed' \subseteq fine'
      /\ announced' \subseteq fine' \cup {Project} /\ announced' \subseteq Items
      /\ Project \in announced' => Milestones \subseteq fine'
  BY <1>1, <1>2, <1>4, Before DEF Items
<1> HIDE DEF o, e
<1> QED  BY <1>2, <1>3, <1>5, <1>6, <1>7, Before, EffectInv

\* The milestone is completed in memory; more is completed for every call.
LEMMA MarkInv == ASSUME CInv, NEW h \in Handlers, Mark(h)  PROVE CInv'
<1> DEFINE o == handler[h]
           m == Head(o.todo)
           d == [status |-> o.held, done |-> completed']
<1>1. /\ CallOK(o, completed, emitted, missing) /\ o.todo # <<>> /\ m \in Milestones
      /\ o.held \in {"active", "completed"} /\ o.on \in Features \cup {None}
      /\ o.todo \in Seq(Milestones) /\ Tail(o.todo) \in Seq(Milestones)
      /\ o.held = "completed" => completed = Milestones
  BY CallHas DEF Mark, CallOK, Calls, MilestonePhase, EpicPhase, Steps
<1>2. missing[m] \subseteq {}  BY <1>1 DEF Mark, CallOK, looks, Marks
<1>3. /\ UNCHANGED <<branch, status, wasDone, late, prOpen, events, sync, project, ledger>>
      /\ UNCHANGED <<disk, announced, disturbances, died>>
  BY DEF Mark, board, disks, counts
<1>4. BoardKept /\ missing' = missing /\ fine' = fine  BY <1>3, SameBoard
<1>5. CASE /\ goesOn(h, Tail(o.todo)) /\ UNCHANGED <<emitted, completed>>
  <2>1. CallOK(checking(o.on, Tail(o.todo)), completed, emitted, missing)  BY <1>1, CheckingOK
  <2>2. handler' = [handler EXCEPT ![h] = checking(o.on, Tail(o.todo))]  BY <1>5 DEF goesOn
  <2> HIDE DEF o
  <2> QED  BY <1>3, <1>4, <1>5, <2>1, <2>2, Before, EffectInv
<1>6. CASE /\ members(m) = existing(members(m))
           /\ emitted' = emitted \cup {m} /\ completed' = completed \cup {m}
           /\ handler' = [handler EXCEPT ![h] = call("write", o.on, o.todo, {}, "active", d)]
  <2>1. completed' \subseteq Milestones  BY <1>1, <1>6, Before
  <2>2. m \in fine
    <3>1. \A f \in members(m) : f \in wasDone \/ <<f, m>> \in late
      BY <1>1, <1>2, <1>6 DEF missing, due, Marks
    <3> QED  BY <1>1, <3>1 DEF fine, accounted, parts, Marks
  <2>3. CopyOK(d, completed')
    <3>1. d \in Copies /\ d.done = completed' /\ d.status = o.held  BY <1>1, <2>1 DEF Copies
    <3>2. o.held = "completed" => completed' = Milestones  BY <1>1, <1>6, Before
    <3> QED  BY <3>1, <3>2 DEF CopyOK
  <2> HIDE DEF d
  <2>4. CallOK(call("write", o.on, o.todo, {}, "active", d), completed', emitted', missing')
    <3> DEFINE step == "write"
    <3>1. /\ step \in Steps /\ step \notin EpicPhase
          /\ step \notin {"children", "features", "review", "done", "list", "create", "claim",
                          "mark", "writeProject", "setProject", "announce"}
      BY DEF Steps, EpicPhase
    <3>2. Head(o.todo) \in emitted'  BY <1>6
    <3> HIDE DEF step, m, o
    <3>3. CallOK(call(step, o.on, o.todo, {}, "active", d), completed', emitted', missing')
      BY <1>1, <2>3, <3>1, <3>2, Moved
    <3> QED  BY <3>3 DEF step
  <2>5. /\ emitted' \subseteq Items /\ emitted' \subseteq fine \cup {Project}
        /\ emitted \subseteq emitted'
        /\ completed' \subseteq fine /\ completed \subseteq completed'
        /\ project = "completed" => completed' = Milestones
    BY <1>1, <1>6, <2>2, Before DEF Items
  <2> HIDE DEF m, o
  <2> QED  BY <1>3, <1>4, <1>6, <2>1, <2>4, <2>5, Before, EffectInv
<1> QED  BY <1>5, <1>6 DEF Mark, claims, milestone, puts

\* A copy is written to project.json.
LEMMA WriteInv == ASSUME CInv, NEW h \in Handlers, Write(h)  PROVE CInv'
<1>1. /\ CallOK(handler[h], completed, emitted, missing) /\ handler[h].todo # <<>>
      /\ CopyOK(handler[h].copy, completed)
      /\ handler[h].pc = "write" => Head(handler[h].todo) \in emitted
      /\ handler[h].pc = "writeProject" => completed = Milestones
  BY CallHas DEF Write, CallOK, MilestonePhase, EpicPhase, Steps
<1>2. PICK step \in {"set", "setProject"} :
        /\ goesTo(h, step)
        /\ step = "set" => handler[h].pc = "write"
        /\ step = "setProject" => handler[h].pc = "writeProject"
  BY DEF Write
<1>3. /\ step \in Steps \ {"children", "features"} /\ step \notin EpicPhase
      /\ step \notin {"review", "done", "list", "create", "claim", "mark", "write"}
  BY DEF Steps, EpicPhase
<1>4. PICK c : handler' = [handler EXCEPT ![h] = c] /\ CallOK(c, completed, emitted, missing)
  BY <1>1, <1>2, <1>3, GoesToOK
<1>5. /\ UNCHANGED <<branch, status, wasDone, late, prOpen, events, sync, emitted, completed>>
      /\ UNCHANGED <<project, ledger, announced, disturbances, died>>
      /\ disk' = handler[h].copy
  BY DEF Write, board, memory, counts
<1>6. BoardKept /\ missing' = missing /\ fine' = fine  BY <1>5, SameBoard
<1>7. CopyOK(disk', completed)  BY <1>1, <1>5
<1> QED  BY <1>4, <1>5, <1>6, <1>7, Before, EffectInv

\* The copy becomes the project in memory.
LEMMA SetDocInv == ASSUME CInv, NEW h \in Handlers, SetDoc(h)  PROVE CInv'
<1> DEFINE o == handler[h]
           m == Head(o.todo)
           step == "check"
<1>1. /\ o.todo # <<>> /\ m \in Milestones /\ m \in fine /\ CopyOK(o.copy, completed)
      /\ o.on \in Features \cup {None} /\ o.todo \in Seq(Milestones)
  BY CallHas, Before DEF SetDoc, CallOK, MilestonePhase, EpicPhase, Steps, Marks
<1>2. /\ project' = o.copy.status /\ announced' = announced \cup {m}
      /\ handler' = [handler EXCEPT ![h] = call(step, o.on, o.todo, {}, "active", empty)]
      /\ UNCHANGED <<branch, status, wasDone, late, prOpen, events, sync, emitted, completed>>
      /\ UNCHANGED <<ledger, disk, disturbances, died>>
  BY DEF SetDoc, milestone, puts, board, disks, counts
<1>3. /\ step \in Steps /\ step \notin EpicPhase
      /\ step \notin {"children", "features", "review", "done", "list", "create", "claim",
                      "write", "set", "mark", "writeProject", "setProject", "announce"}
  BY DEF Steps, EpicPhase
<1>4. BoardKept /\ missing' = missing /\ fine' = fine  BY <1>2, SameBoard
<1>5. /\ project' \in {"active", "completed"}
      /\ project' = "completed" => completed = Milestones
  BY <1>1, <1>2, Before DEF CopyOK, Copies
<1>6. /\ announced' \subseteq Items /\ announced' \subseteq fine \cup {Project}
      /\ Project \in announced' => Milestones \subseteq fine
  BY <1>1, <1>2, Before DEF Items
<1> HIDE DEF m, o, step
<1>7. CallOK(call(step, o.on, o.todo, {}, "active", empty), completed, emitted, missing)
  BY <1>1, <1>3, IdleOK, Moved
<1> QED  BY <1>2, <1>4, <1>5, <1>6, <1>7, Before, EffectInv

\* The project is complete when all its milestones are.
LEMMA CheckProjectInv == ASSUME CInv, NEW h \in Handlers, CheckProject(h)  PROVE CInv'
<1> DEFINE o == handler[h]
           d == [status |-> "completed", done |-> completed]
           step == "writeProject"
<1>1. /\ o.todo # <<>> /\ o.todo \in Seq(Milestones)
      /\ o.on \in Features \cup {None} /\ Tail(o.todo) \in Seq(Milestones)
  BY CallHas DEF CheckProject, CallOK, MilestonePhase, EpicPhase, Steps
<1>2. /\ UNCHANGED <<branch, status, wasDone, late, prOpen, events, sync, completed, project>>
      /\ UNCHANGED <<ledger, disk, announced, disturbances, died>>
  BY DEF CheckProject, board, disks, counts
<1>3. BoardKept /\ missing' = missing /\ fine' = fine  BY <1>2, SameBoard
<1>4. CASE goesOn(h, Tail(o.todo)) /\ UNCHANGED emitted
  <2>1. CallOK(checking(o.on, Tail(o.todo)), completed, emitted, missing)  BY <1>1, CheckingOK
  <2> HIDE DEF o
  <2>2. handler' = [handler EXCEPT ![h] = checking(o.on, Tail(o.todo))]  BY <1>4 DEF goesOn, o
  <2> QED  BY <1>2, <1>3, <1>4, <2>1, <2>2, Before, EffectInv
<1>5. CASE /\ completed = Milestones /\ emitted' = emitted \cup {Project}
           /\ handler' = [handler EXCEPT ![h] = call(step, o.on, o.todo, {}, "active", d)]
  <2>1. d \in Copies /\ d.done = completed /\ d.status = "completed"
    BY Before DEF Copies
  <2>2. CopyOK(d, completed)  BY <1>5, <2>1 DEF CopyOK
  <2>3. /\ step \in Steps /\ step \notin EpicPhase
        /\ step \notin {"children", "features", "review", "done", "list", "create", "claim",
                        "write", "set", "mark"}
    BY DEF Steps, EpicPhase
  <2> HIDE DEF d, o, step
  <2>4. CallOK(call(step, o.on, o.todo, {}, "active", d), completed, emitted', missing)
    BY <1>1, <1>5, <2>2, <2>3, Moved
  <2>5. emitted' \subseteq Items /\ emitted' \subseteq fine \cup {Project} /\ emitted \subseteq emitted'
    BY <1>5, Before DEF Items
  <2> QED  BY <1>2, <1>3, <1>5, <2>4, <2>5, Before, EffectInv
<1> QED  BY <1>4, <1>5 DEF CheckProject, claims, puts

\* The project is completed in memory.
LEMMA SetProjectInv == ASSUME CInv, NEW h \in Handlers, SetProject(h)  PROVE CInv'
<1> DEFINE o == handler[h]
           step == "announce"
<1>1. /\ o.todo # <<>> /\ completed = Milestones
      /\ o.on \in Features \cup {None} /\ o.todo \in Seq(Milestones)
  BY CallHas DEF SetProject, CallOK, MilestonePhase, EpicPhase, Steps
<1>2. /\ project' = "completed"
      /\ handler' = [handler EXCEPT ![h] = call(step, o.on, o.todo, {}, "active", empty)]
      /\ UNCHANGED <<branch, status, wasDone, late, prOpen, events, sync, emitted, completed>>
      /\ UNCHANGED <<ledger, disk, announced, disturbances, died>>
  BY DEF SetProject, puts, board, disks, counts
<1>3. /\ step \in Steps /\ step \notin EpicPhase
      /\ step \notin {"children", "features", "review", "done", "list", "create", "claim",
                      "write", "set", "mark"}
  BY DEF Steps, EpicPhase
<1>4. BoardKept /\ missing' = missing /\ fine' = fine  BY <1>2, SameBoard
<1> HIDE DEF o, step
<1>5. CallOK(call(step, o.on, o.todo, {}, "active", empty), completed, emitted, missing)
  BY <1>1, <1>3, IdleOK, Moved
<1> QED  BY <1>1, <1>2, <1>4, <1>5, Before, EffectInv

\* And announced: every milestone is completed, so all its phases are accounted for.
LEMMA AnnounceInv == ASSUME CInv, NEW h \in Handlers, Announce(h)  PROVE CInv'
<1> DEFINE o == handler[h]
<1>1. /\ completed = Milestones /\ Milestones \subseteq fine /\ o.on \in Features \cup {None}
      /\ Tail(o.todo) \in Seq(Milestones)
  BY CallHas, Before DEF Announce, CallOK, MilestonePhase, EpicPhase, Steps
<1>2. /\ announced' = announced \cup {Project}
      /\ handler' = [handler EXCEPT ![h] = checking(o.on, Tail(o.todo))]
      /\ UNCHANGED <<branch, status, wasDone, late, prOpen, events, sync, emitted, completed>>
      /\ UNCHANGED <<project, ledger, disk, disturbances, died>>
  BY DEF Announce, goesOn, board, memory, disks, counts
<1>3. CallOK(checking(o.on, Tail(o.todo)), completed, emitted, missing)  BY <1>1, CheckingOK
<1>4. BoardKept /\ missing' = missing /\ fine' = fine  BY <1>2, SameBoard
<1>5. announced' \subseteq Items /\ announced' \subseteq fine \cup {Project}
  BY <1>2, Before DEF Items
<1> HIDE DEF o
<1> QED  BY <1>1, <1>2, <1>3, <1>4, <1>5, Before, EffectInv

-----------------------------------------------------------------------------
(* The theorems.                                                            *)

\* No step breaks the invariant.
LEMMA CascadeStep == CInv /\ [Next]_vars => CInv'
<1> SUFFICES ASSUME CInv, [Next]_vars  PROVE CInv'  OBVIOUS
<1>1. CASE Board  BY <1>1, BoardInv
<1>2. CASE \E h \in Handlers : Start(h)  BY <1>2, StartInv
<1>3. ASSUME NEW h \in Handlers, Call(h)  PROVE CInv'
  BY <1>3, EpicLookInv, MilestoneLookInv, ClaimEpicInv, HoldEpicInv, EpicDoneInv, MarkInv,
     WriteInv, SetDocInv, CheckProjectInv, SetProjectInv, AnnounceInv DEF Call
<1>4. CASE SyncWrite  BY <1>4, SyncWriteInv
<1>5. CASE Restart  BY <1>5, RestartInv
<1>6. CASE UNCHANGED vars
  <2>1. /\ UNCHANGED <<branch, status, wasDone, late, prOpen, events, handler, sync, emitted>>
        /\ UNCHANGED <<completed, project, ledger, disk, announced, disturbances, died>>
    BY <1>6 DEF vars, board, memory, disks, counts
  <2>2. missing' = missing /\ fine' = fine  BY <2>1, SameBoard
  <2> QED  BY <2>1, <2>2 DEF CInv, TypeOK, Held, Marked, Whole
<1> QED  BY <1>1, <1>2, <1>3, <1>4, <1>5, <1>6 DEF Next

\* The inductive invariant holds in every state.
THEOREM CascadeInductive == Spec => []CInv
<1>1. Init => CInv  BY CascadeInit
<1>2. CInv /\ [Next]_vars => CInv'  BY CascadeStep
<1> QED  BY <1>1, <1>2, PTL DEF Spec

\* The variables of the completion detector and the project service keep their types.
THEOREM TypeCorrect == Spec => []TypeOK
<1>1. CInv => TypeOK  BY DEF CInv
<1> QED  BY <1>1, CascadeInductive, PTL

\* Whatever the handlers, the single reads of a look, scaffolding, the phase sync and
\* crashes interleave: each feature of an item that is marked in a dedup set, in memory,
\* in project.json or announced was done at some time, or came while a look was on its way.
THEOREM MarkedWereComplete == Spec => []CompleteWhenMarked
<1>1. CInv => CompleteWhenMarked
  BY DEF CInv, Marked, CompleteWhenMarked, fine
<1> QED  BY <1>1, CascadeInductive, PTL

\* A completed project has no open milestone, whichever copy was written last, and its
\* completion is announced only over phases that are accounted for.
THEOREM ConsistentProject == Spec => []ProjectConsistent
<1>1. CInv => ProjectConsistent
  BY DEF CInv, Whole, ProjectConsistent, fine
<1> QED  BY <1>1, CascadeInductive, PTL

-----------------------------------------------------------------------------
(* The project is claimed once, and calls end.                              *)

\* One call changes.
LEMMA OneChanges ==
  ASSUME CInv, NEW h \in Handlers, Start(h) \/ Call(h)
  PROVE  \A g \in Handlers \ {h} : handler'[g] = handler[g]
<1>1. handler \in [Handlers -> Calls]  BY DEF CInv, TypeOK
<1>2. CASE Start(h)  BY <1>1, <1>2 DEF Start
<1>3. CASE ListPr(h) \/ CreatePr(h) \/ ClaimEpic(h) \/ HoldEpic(h) \/ EpicDone(h)
  BY <1>1, <1>3 DEF ListPr, CreatePr, ClaimEpic, HoldEpic, EpicDone, goesTo, puts, goesOn
<1>4. CASE Mark(h) \/ Write(h) \/ SetDoc(h)
  BY <1>1, <1>4 DEF Mark, Write, SetDoc, goesTo, puts, goesOn
<1>5. CASE CheckProject(h) \/ SetProject(h) \/ Announce(h)
  BY <1>1, <1>5 DEF CheckProject, SetProject, Announce, puts, goesOn
<1>6. CASE EpicLook(h) \/ MilestoneLook(h)
  BY <1>1, <1>6 DEF EpicLook, MilestoneLook, lists, goesOn
<1>7. CASE ReadChild(h) \/ ReadFeature(h)
  BY <1>1, <1>7 DEF ReadChild, ReadFeature, reads, goesTo, puts, goesOn
<1> QED  BY <1>2, <1>3, <1>4, <1>5, <1>6, <1>7 DEF Call

\* A call that goes on with the next milestone, or ends.
LEMMA GoesOnTo ==
  ASSUME CInv, NEW h \in Handlers, NEW f, NEW todo,
         handler' = [handler EXCEPT ![h] = checking(f, todo)]
  PROVE  /\ handler'[h] = idle \/ (handler'[h].pc = "milestone" /\ handler'[h].todo = todo)
         /\ ~finishing(h)'
<1>1. handler'[h] = checking(f, todo)  BY DEF CInv, TypeOK
<1>2. idle.pc = "idle"  BY DEF idle, call
<1>3. todo # <<>> => checking(f, todo).pc = "milestone" /\ checking(f, todo).todo = todo
  BY DEF checking, call
<1>4. todo = <<>> => checking(f, todo) = idle  BY DEF checking
<1>5. handler'[h] = idle \/ (handler'[h].pc = "milestone" /\ handler'[h].todo = todo)
  BY <1>1, <1>3, <1>4
<1>6. handler'[h].pc \in {"idle", "milestone"}  BY <1>2, <1>5
<1>7. ~finishing(h)'  BY <1>6 DEF finishing
<1> QED  BY <1>5, <1>7

\* A call that takes another step keeps its milestones.
LEMMA PutsTo ==
  ASSUME CInv, NEW h \in Handlers, NEW step, NEW held, NEW copy, puts(h, step, held, copy)
  PROVE  handler'[h].pc = step /\ handler'[h].todo = handler[h].todo
<1>1. handler'[h] = call(step, handler[h].on, handler[h].todo, {}, held, copy)
  BY DEF CInv, TypeOK, puts
<1> QED  BY <1>1 DEF call

\* A look begins.
LEMMA ListsTo ==
  ASSUME CInv, NEW h \in Handlers, NEW step, NEW held, NEW S, lists(h, step, held, S)
  PROVE  handler'[h].pc = step /\ handler'[h].todo = handler[h].todo
<1>1. handler'[h] = call(step, handler[h].on, handler[h].todo, S, held, empty)
  BY DEF CInv, TypeOK, lists
<1> QED  BY <1>1 DEF call

\* A look goes on to the next file, or is over.
LEMMA ReadsTo ==
  ASSUME CInv, NEW h \in Handlers, NEW f \in handler[h].unread, NEW fits, NEW step, NEW todo,
         reads(h, f, fits, step, todo)
  PROVE  LET c == handler[h]  d == handler'[h] IN
         \/ d = idle \/ (d.pc = "milestone" /\ d.todo = todo)
         \/ d.pc = step /\ d.todo = c.todo
         \/ /\ d.pc = c.pc /\ d.todo = c.todo
            /\ d.unread \subseteq c.unread /\ d.unread # c.unread
<1>1. handler \in [Handlers -> Calls] /\ handler[h] \in Calls  BY DEF CInv, TypeOK
<1>2. CASE goesOn(h, todo)  BY <1>2, GoesOnTo DEF goesOn
<1>3. CASE goesTo(h, step)  BY <1>3, PutsTo DEF goesTo
<1>4. CASE handler' = [handler EXCEPT ![h].unread = @ \ {f}]
  <2>1. handler'[h] = [handler[h] EXCEPT !.unread = @ \ {f}]  BY <1>1, <1>4
  <2>2. /\ handler'[h].pc = handler[h].pc /\ handler'[h].todo = handler[h].todo
        /\ handler'[h].unread = handler[h].unread \ {f}
    BY <1>1, <2>1 DEF Calls
  <2> QED  BY <2>2
<1> QED  BY <1>2, <1>3, <1>4 DEF reads

\* From step to step within the epic, and within a milestone.
EpicMoves ==
  {<<"epic", "children">>, <<"children", "list">>, <<"children", "claim">>,
   <<"list", "claim">>, <<"list", "create">>, <<"create", "claim">>,
   <<"create", "block">>, <<"claim", "review">>, <<"claim", "done">>}
MilestoneMoves ==
  {<<"milestone", "features">>, <<"features", "mark">>, <<"mark", "write">>,
   <<"write", "set">>, <<"set", "check">>, <<"check", "writeProject">>,
   <<"writeProject", "setProject">>, <<"setProject", "announce">>}

\* One step leads from call c to call d.
StepsTo(c, d) ==
  \/ c.pc \in EpicPhase /\ (d = idle \/ d.pc = "milestone")
  \/ c.pc \in MilestonePhase /\ (d = idle \/ (d.pc = "milestone" /\ d.todo = Tail(c.todo)))
  \/ d.todo = c.todo /\ <<c.pc, d.pc>> \in EpicMoves \cup MilestoneMoves
  \/ /\ c.pc \in {"children", "features"} /\ d.pc = c.pc /\ d.todo = c.todo
     /\ d.unread \subseteq c.unread /\ d.unread # c.unread

\* The step of a call, and what is left of its milestones.
LEMMA StepOfCall ==
  ASSUME CInv, NEW h \in Handlers, Call(h)
  PROVE  StepsTo(handler[h], handler'[h])
<1> USE DEF StepsTo, EpicMoves, MilestoneMoves
<1> EpicPhase = {"epic", "children", "list", "create", "claim", "review", "done", "block"}
  BY DEF EpicPhase
<1> MilestonePhase = {"milestone", "features", "mark", "write", "set", "check", "writeProject",
                      "setProject", "announce"}
  BY DEF MilestonePhase, EpicPhase, Steps
<1>1. CASE EpicLook(h)
  BY <1>1, GoesOnTo, ListsTo DEF EpicLook, goesOn
<1>2. CASE ReadChild(h)
  <2>1. PICK f \in handler[h].unread :
          /\ handler[h].pc = "children"
          /\ \E fits \in BOOLEAN, step \in {"list", "claim"} :
               reads(h, f, fits, step, handler[h].todo)
    BY <1>2 DEF ReadChild
  <2>2. PICK fits \in BOOLEAN, step \in {"list", "claim"} : reads(h, f, fits, step, handler[h].todo)
    BY <2>1
  <2> QED  BY <2>1, <2>2, ReadsTo
<1>3. CASE ListPr(h) \/ CreatePr(h) \/ ClaimEpic(h)
  BY <1>3, PutsTo DEF ListPr, CreatePr, ClaimEpic, goesTo
<1>4. CASE HoldEpic(h) \/ EpicDone(h)
  BY <1>4, GoesOnTo DEF HoldEpic, EpicDone, goesOn
<1>5. CASE MilestoneLook(h)
  BY <1>5, GoesOnTo, ListsTo DEF MilestoneLook, goesOn
<1>6. CASE ReadFeature(h)
  <2>1. PICK f \in handler[h].unread :
          /\ handler[h].pc = "features"
          /\ \E fits \in BOOLEAN : reads(h, f, fits, "mark", Tail(handler[h].todo))
    BY <1>6 DEF ReadFeature
  <2>2. PICK fits \in BOOLEAN : reads(h, f, fits, "mark", Tail(handler[h].todo))  BY <2>1
  <2> QED  BY <2>1, <2>2, ReadsTo
<1>7. CASE Mark(h)
  BY <1>7, GoesOnTo, PutsTo DEF Mark, goesOn
<1>8. CASE Write(h) \/ SetDoc(h) \/ SetProject(h)
  BY <1>8, PutsTo DEF Write, SetDoc, SetProject, goesTo
<1>9. CASE CheckProject(h)
  BY <1>9, GoesOnTo, PutsTo DEF CheckProject, goesOn
<1>10. CASE Announce(h)
  BY <1>10, GoesOnTo DEF Announce, goesOn
<1> QED  BY <1>1, <1>2, <1>3, <1>4, <1>5, <1>6, <1>7, <1>8, <1>9, <1>10 DEF Call

\* Every step of a call brings it nearer to its end.
LEMMA CallGoesOn ==
  ASSUME CInv, NEW h \in Handlers, Call(h)  PROVE Nearer(handler[h], handler'[h])
<1> DEFINE c == handler[h]
           d == handler'[h]
<1>0. StepsTo(c, d)  BY StepOfCall
<1>1. CASE c.pc \in EpicPhase /\ (d = idle \/ d.pc = "milestone")
  BY <1>1 DEF Nearer, EpicPhase, MilestonePhase, Steps
<1>2. CASE c.pc \in MilestonePhase /\ (d = idle \/ (d.pc = "milestone" /\ d.todo = Tail(c.todo)))
  <2>1. c.todo # <<>> /\ c.todo \in Seq(Milestones)
    BY <1>2, CallHas DEF CallOK
  <2>2. Len(Tail(c.todo)) < Len(c.todo)  BY <2>1
  <2> QED  BY <1>2, <2>2 DEF Nearer, MilestonePhase, EpicPhase, Steps
<1>3. CASE d.todo = c.todo /\ <<c.pc, d.pc>> \in EpicMoves
  <2>1. toGo[d.pc] < toGo[c.pc]  BY <1>3, SMTT(30) DEF toGo, Steps, EpicMoves
  <2> QED  BY <1>3, <2>1 DEF Nearer, Sooner, EpicPhase, EpicMoves
<1>4. CASE d.todo = c.todo /\ <<c.pc, d.pc>> \in MilestoneMoves
  <2>1. toGo[d.pc] < toGo[c.pc]  BY <1>4, SMTT(30) DEF toGo, Steps, MilestoneMoves
  <2>2. c.pc \in MilestonePhase /\ d.pc \in MilestonePhase
    BY <1>4 DEF MilestonePhase, EpicPhase, Steps, MilestoneMoves
  <2> QED  BY <1>4, <2>1, <2>2 DEF Nearer, Sooner
<1>5. CASE /\ c.pc \in {"children", "features"} /\ d.pc = c.pc /\ d.todo = c.todo
           /\ d.unread \subseteq c.unread /\ d.unread # c.unread
  BY <1>5 DEF Nearer, Sooner, MilestonePhase, EpicPhase, Steps
<1> QED  BY <1>0, <1>1, <1>2, <1>3, <1>4, <1>5 DEF StepsTo

\* onFeatureDone() ends, in any interleaving of any number of calls: each step of a call
\* brings it nearer to its end, and nothing else sends it back.
THEOREM CallsEnd == Spec => CallNearsItsEnd
<1> DEFINE Way == \A h \in Handlers :
             /\ Call(h) => Nearer(handler[h], handler'[h])
             /\ handler[h].pc # "idle" =>
                  handler'[h] = handler[h] \/ Nearer(handler[h], handler'[h])
<1>1. CInv /\ [Next]_vars => Way
  <2> SUFFICES ASSUME CInv, [Next]_vars, NEW h \in Handlers
               PROVE  /\ Call(h) => Nearer(handler[h], handler'[h])
                      /\ handler[h].pc # "idle" =>
                           handler'[h] = handler[h] \/ Nearer(handler[h], handler'[h])
    OBVIOUS
  <2>1. Call(h) => Nearer(handler[h], handler'[h])  BY CallGoesOn
  <2>2. ASSUME handler[h].pc # "idle"
        PROVE  handler'[h] = handler[h] \/ Nearer(handler[h], handler'[h])
    <3>1. CASE Board
      BY <3>1 DEF Board, Scaffold, FeatureDone, Reopen, Notice, EpicMerged
    <3>2. ASSUME NEW g \in Handlers, Start(g)  PROVE handler'[h] = handler[h]
      BY <2>2, <3>2, OneChanges DEF Start
    <3>3. ASSUME NEW g \in Handlers, Call(g)
          PROVE  handler'[h] = handler[h] \/ Nearer(handler[h], handler'[h])
      BY <3>3, OneChanges, CallGoesOn
    <3>4. CASE SyncWrite \/ UNCHANGED vars  BY <3>4 DEF SyncWrite, vars
    <3>5. CASE Restart  BY <2>2, <3>5 DEF Restart, Nearer
    <3> QED  BY <3>1, <3>2, <3>3, <3>4, <3>5 DEF Next
  <2> QED  BY <2>1, <2>2
<1>2. Spec => [][Way]_vars  BY <1>1, CascadeInductive, PTL DEF Spec
<1> QED  BY <1>2 DEF CallNearsItsEnd

\* The claim is not given up while its call is on the way, and no other call gets it.
LEMMA ClaimStep == CInv /\ ProjectClaimedOnce /\ [Next]_vars => ProjectClaimedOnce'
<1> SUFFICES ASSUME CInv, ProjectClaimedOnce, [Next]_vars  PROVE ProjectClaimedOnce'  OBVIOUS
<1>1. CASE UNCHANGED <<handler, emitted>>  BY <1>1 DEF ProjectClaimedOnce, finishing
<1>2. CASE Board \/ SyncWrite \/ UNCHANGED vars
  <2>1. UNCHANGED <<handler, emitted>>
    BY <1>2 DEF Board, Scaffold, FeatureDone, Reopen, Notice, EpicMerged, SyncWrite, vars, memory
  <2> QED  BY <2>1, <1>1
<1>3. CASE Restart
  <2>1. \A h \in Handlers : handler'[h].pc = "idle"  BY <1>3 DEF Restart, idle, call
  <2> QED  BY <2>1 DEF ProjectClaimedOnce, finishing
<1>4. ASSUME NEW h \in Handlers, Start(h) \/ Call(h), ~finishing(h)', emitted \subseteq emitted'
      PROVE  ProjectClaimedOnce'
  BY <1>4, OneChanges DEF ProjectClaimedOnce, finishing
<1>5. ASSUME NEW h \in Handlers, Call(h), finishing(h), emitted \subseteq emitted'
      PROVE  ProjectClaimedOnce'
  BY <1>5, OneChanges DEF ProjectClaimedOnce, finishing
<1>6. ASSUME NEW h \in Handlers, Start(h)  PROVE ProjectClaimedOnce'
  <2>1. PICK f \in Features : handler' = [handler EXCEPT ![h] =
             IF epicOf[f] = None THEN checking(f, milestones(f))
             ELSE call("epic", f, milestones(f), {}, "active", empty)]
    BY <1>6 DEF Start
  <2>2. epicOf[f] = None => ~finishing(h)'  BY <2>1, GoesOnTo
  <2>3. handler'[h] = call("epic", f, milestones(f), {}, "active", empty) => ~finishing(h)'
    BY DEF finishing, call
  <2>4. epicOf[f] # None => ~finishing(h)'  BY <2>1, <2>3 DEF CInv, TypeOK
  <2>5. emitted \subseteq emitted'  BY <1>6 DEF Start, memory
  <2> QED  BY <1>4, <1>6, <2>2, <2>4, <2>5
<1>7. ASSUME NEW h \in Handlers, Call(h)  PROVE ProjectClaimedOnce'
  <2>1. emitted \subseteq emitted'
    BY <1>7 DEF Call, EpicLook, ReadChild, ListPr, CreatePr, ClaimEpic, HoldEpic, EpicDone,
                MilestoneLook, ReadFeature, Mark, Write, SetDoc, CheckProject, SetProject, Announce, claims, memory
  <2>2. CASE finishing(h)  BY <1>5, <1>7, <2>1, <2>2
  <2>3. CASE ~finishing(h)' BY <1>4, <1>7, <2>1, <2>3
  <2>4. CASE ~finishing(h) /\ finishing(h)'
    <3>1. handler[h].pc = "check" /\ handler'[h].pc = "writeProject"
      BY <1>7, <2>4, StepOfCall
         DEF StepsTo, EpicMoves, MilestoneMoves, finishing, EpicPhase, MilestonePhase, idle, call
    <3>2. CheckProject(h)
      BY <1>7, <3>1 DEF Call, EpicLook, ReadChild, ListPr, CreatePr, ClaimEpic, HoldEpic, EpicDone,
                        MilestoneLook, ReadFeature, Mark, Write, SetDoc, SetProject, Announce
    <3>3. Project \notin emitted /\ emitted' = emitted \cup {Project}
      <4>1. CASE goesOn(h, Tail(handler[h].todo))  BY <2>4, <4>1, GoesOnTo DEF goesOn
      <4> QED  BY <3>2, <4>1 DEF CheckProject, claims
    <3>4. \A g \in Handlers : ~finishing(g)  BY <3>3 DEF ProjectClaimedOnce
    <3> QED  BY <1>7, <3>3, <3>4, OneChanges DEF ProjectClaimedOnce, finishing
  <2> QED  BY <2>2, <2>3, <2>4
<1> QED  BY <1>2, <1>3, <1>6, <1>7 DEF Next

\* However many calls find all milestones completed at the same time: one of them claims
\* the project's completion, writes it and announces it.
THEOREM ProjectIsClaimedOnce == Spec => []ProjectClaimedOnce
<1>1. Init => ProjectClaimedOnce  BY DEF Init, ProjectClaimedOnce, finishing, idle, call
<1>2. CInv /\ ProjectClaimedOnce /\ [Next]_vars => ProjectClaimedOnce'  BY ClaimStep
<1> QED  BY <1>1, <1>2, CascadeInductive, PTL DEF Spec
=============================================================================
