-------------------------- MODULE CompletionCascade --------------------------
(***************************************************************************)
(* CompletionDetectorService: a feature that is done may complete its      *)
(* epic, its milestone and with that its project.  Every event starts a    *)
(* handler of its own; handlers interleave wherever one of them awaits a   *)
(* file or GitHub.  ProjectService keeps the project in memory and in      *)
(* project.json, and mirrors every change of a feature there too.          *)
(*                                                                         *)
(* The objects of the milestones are shared by all copies of the project   *)
(* in memory; the project's own status is not.                             *)
(***************************************************************************)
EXTENDS Naturals, Sequences, FiniteSets

CONSTANTS
  Features, Epics, Milestones, Project,
  epicOf, milestoneOf,       \* per feature; None without
  None,
  Handlers,                  \* bound: onFeatureDone() calls at a time
  Ongoing,                   \* the project is a container that never completes
  MaxDisturbances            \* bound on reopened features, extra events and crashes

Items == Epics \cup Milestones \cup {Project}

ASSUME CascadeAssumption ==
  /\ Epics \subseteq Features
  /\ epicOf \in [Features -> Epics \cup {None}] /\ None \notin Epics
  /\ milestoneOf \in [Features -> Milestones \cup {None}] /\ None \notin Milestones
  /\ Epics \cap Milestones = {} /\ Project \notin Epics \cup Milestones
  /\ Ongoing \in BOOLEAN /\ MaxDisturbances \in Nat

VARIABLES
  branch,     \* epics that have a branch
  status,     \* per feature, as in feature.json
  prOpen,     \* epics with an open PR to the base branch
  events,     \* per feature: handlers that still read it
  handler,    \* the calls of onFeatureDone()
  sync,       \* the phase sync of ProjectService
  emitted,    \* the three dedup sets
  ledger,     \* completion-emitted.jsonl, as the process found it
  completed,  \* milestones completed in memory
  project,    \* the project's status in memory
  disk,       \* project.json
  announced,  \* items whose completion was announced
  disturbances, died,
  wasDone,    \* history: features that were done at one time
  late        \* history: features that came too late for a look at an item

board  == <<status, wasDone, late>>
memory == <<emitted, completed, project>>
disks  == <<ledger, disk>>
counts == <<disturbances, died>>
vars   == <<branch, board, prOpen, events, handler, sync, memory, disks,
            announced, counts>>

Copies == [status : {"active", "completed"}, done : SUBSET Milestones]
empty  == [status |-> "active", done |-> {}]
Steps  == {"idle", "epic", "children", "list", "create", "claim", "review", "done", "block",
           "milestone", "features", "mark", "write", "set", "check", "writeProject", "setProject",
           "announce"}
Calls  == [pc : Steps, on : Features \cup {None}, todo : Seq(Milestones),
           unread : SUBSET Features, held : {"active", "completed"}, copy : Copies]

\* A call at a step, for a feature, with the milestones it still has to check, the
\* features of the item that getAll() listed and did not read yet, the project's
\* status as it read it, and the copy it writes.
call(step, f, todo, unread, held, copy) ==
  [pc |-> step, on |-> f, todo |-> todo, unread |-> unread, held |-> held, copy |-> copy]
idle == call("idle", None, <<>>, {}, "active", empty)

TypeOK ==
  /\ branch \subseteq Epics
  /\ status \in [Features -> {"none", "open", "review", "blocked", "done"}]
  /\ prOpen \subseteq Epics
  /\ events \in [Features -> Nat]
  /\ handler \in [Handlers -> Calls]
  /\ sync \in [writing : BOOLEAN, copy : Copies]
  /\ emitted \subseteq Items /\ ledger \subseteq Items
  /\ completed \subseteq Milestones
  /\ project \in {"active", "completed"}
  /\ disk \in Copies
  /\ announced \subseteq Items
  /\ disturbances \in 0..MaxDisturbances /\ died \in BOOLEAN
  /\ wasDone \subseteq Features
  /\ late \subseteq Features \X Items

\* The phases of a milestone, each with the feature it gets, and the children of an epic.
members(m)  == {f \in Features : milestoneOf[f] = m}
children(e) == {f \in Features : epicOf[f] = e /\ f # e}

\* Those that have a feature.json.
existing(S) == {f \in S : status[f] # "none"}

\* The board changes, and the history with it.
moves(st) == status' = st /\ wasDone' = wasDone \cup {f \in Features : st[f] = "done"}

Init ==
  /\ branch \in SUBSET Epics
  /\ status = [f \in Features |-> IF f \in Epics THEN "open" ELSE "none"]
  /\ prOpen = {}
  /\ events = [f \in Features |-> 0]
  /\ handler = [h \in Handlers |-> idle]
  /\ sync = [writing |-> FALSE, copy |-> empty]
  /\ emitted = {} /\ ledger = {}
  /\ completed = {} /\ project = "active" /\ disk = empty
  /\ announced = {}
  /\ disturbances = 0 /\ died = FALSE
  /\ wasDone = {} /\ late = {}

-----------------------------------------------------------------------------
(* The board.                                                               *)

\* ProjectService hears of the change too and takes the project as it is; one sync
\* stands for those in progress.
SyncRead ==
  IF sync.writing THEN UNCHANGED sync
  ELSE sync' = [writing |-> TRUE, copy |-> [status |-> project, done |-> completed]]

\* One of the bounded disturbances.
disturbed == disturbances < MaxDisturbances /\ disturbances' = disturbances + 1

epic(h)      == epicOf[handler[h].on]
milestone(h) == Head(handler[h].todo)

\* Call h has listed the features of item i, and has not claimed it yet.
looksAt(h, i) ==
  \/ handler[h].pc \in {"children", "list", "create", "claim"} /\ epic(h) = i
  \/ handler[h].pc \in {"features", "mark"} /\ milestone(h) = i

\* A phase gets its feature; a call that has listed the features does not see it.
Scaffold(f) ==
  /\ status[f] = "none"
  /\ moves([status EXCEPT ![f] = "open"])
  /\ late' = late \cup {<<f, i>> : i \in {j \in Epics \cup Milestones :
                 /\ f \in members(j) \cup children(j)
                 /\ j \in emitted \cup announced \/ \E h \in Handlers : looksAt(h, j)}}
  /\ UNCHANGED <<branch, prOpen, events, handler, sync, memory, disks, announced,
                 counts>>

\* A merge, the pipeline or the user brings a feature to done.
FeatureDone(f) ==
  /\ f \notin Epics
  /\ status[f] = "open"
  /\ moves([status EXCEPT ![f] = "done"]) /\ UNCHANGED late
  /\ events' = [events EXCEPT ![f] = @ + 1]
  /\ SyncRead
  /\ UNCHANGED <<branch, prOpen, handler, memory, disks, announced, counts>>

\* The user takes it back.
Reopen(f) ==
  /\ f \notin Epics
  /\ status[f] = "done"
  /\ disturbed
  /\ moves([status EXCEPT ![f] = "open"]) /\ UNCHANGED late
  /\ SyncRead
  /\ UNCHANGED <<branch, prOpen, events, handler, memory, disks, announced, died>>

\* auto_mode_feature_complete with passes, whatever the feature's status.
Notice(f) ==
  /\ f \notin Epics
  /\ status[f] # "none"
  /\ disturbed
  /\ events' = [events EXCEPT ![f] = @ + 1]
  /\ UNCHANGED <<branch, board, prOpen, handler, sync, memory, disks, announced, died>>

\* GitHub merges the epic's PR and the webhook moves the epic to done.
EpicMerged(e) ==
  /\ e \in prOpen
  /\ prOpen' = prOpen \ {e}
  /\ moves([status EXCEPT ![e] = "done"]) /\ UNCHANGED late
  /\ events' = [events EXCEPT ![e] = IF status[e] = "done" THEN @ ELSE @ + 1]
  /\ UNCHANGED <<branch, handler, sync, memory, disks, announced, counts>>

Board ==
  \/ \E f \in Features : Scaffold(f) \/ FeatureDone(f) \/ Reopen(f) \/ Notice(f)
  \/ \E e \in Epics : EpicMerged(e)

-----------------------------------------------------------------------------
(* onFeatureDone(): first the epic.                                         *)

\* Call h takes a step of its own.
puts(h, step, held, copy) ==
  handler' = [handler EXCEPT ![h] = call(step, handler[h].on, handler[h].todo, {}, held, copy)]
goesTo(h, step) == puts(h, step, handler[h].held, handler[h].copy)

\* A call goes on with the milestones it still has to check, or ends.
checking(f, todo) ==
  IF todo = <<>> THEN idle ELSE call("milestone", f, todo, {}, "active", empty)
goesOn(h, todo) == handler' = [handler EXCEPT ![h] = checking(handler[h].on, todo)]

milestones(f) == IF milestoneOf[f] = None THEN <<>> ELSE <<milestoneOf[f]>>

\* Faulty Start: a feature is looked at although nothing happened to it.
StartUnasked(h) == \E f \in Features :
  /\ handler[h].pc = "idle"
  /\ events' = [events EXCEPT ![f] = @ - 1]
  /\ handler' = [handler EXCEPT ![h] = checking(f, milestones(f))]
  /\ UNCHANGED <<branch, board, prOpen, sync, memory, disks, announced, counts>>

\* The feature is read; its epic comes first.
Start(h) == \E f \in Features :
  /\ handler[h].pc = "idle"
  /\ events[f] > 0
  /\ events' = [events EXCEPT ![f] = @ - 1]
  /\ handler' = [handler EXCEPT ![h] =
                   IF epicOf[f] = None THEN checking(f, milestones(f))
                   ELSE call("epic", f, milestones(f), {}, "active", empty)]
  /\ UNCHANGED <<branch, board, prOpen, sync, memory, disks, announced, counts>>

\* getAll() begins: the directories are listed, and those of S are still to be read.
lists(h, step, held, S) ==
  handler' = [handler EXCEPT ![h] =
                call(step, handler[h].on, handler[h].todo, S, held, empty)]

\* The next file was read: the look ends with step, or with this file if it does not fit.
reads(h, f, fits, step, todo) ==
  IF ~fits THEN goesOn(h, todo)
  ELSE IF handler[h].unread = {f} THEN goesTo(h, step)
  ELSE handler' = [handler EXCEPT ![h].unread = @ \ {f}]

\* An epic whose key is not set is looked at: its children and the epic itself.
EpicLook(h) ==
  /\ handler[h].pc = "epic"
  /\ LET e == epic(h) IN
       IF e \notin emitted /\ existing(children(e)) # {}
       THEN lists(h, "children", "active", existing(children(e) \cup {e}))
       ELSE goesOn(h, handler[h].todo)
  /\ UNCHANGED <<branch, board, prOpen, events, sync, memory, disks, announced, counts>>

\* One feature.json after another is read, in any order: every child is done, and the
\* epic still open.  What is read after one that does not fit has no effect.
ReadChild(h) == \E f \in handler[h].unread :
  /\ handler[h].pc = "children"
  /\ LET e == epic(h) IN
       reads(h, f, IF f = e THEN status[f] \notin {"done", "review"} ELSE status[f] = "done",
             IF e \in branch THEN "list" ELSE "claim", handler[h].todo)
  /\ UNCHANGED <<branch, board, prOpen, events, sync, memory, disks, announced, counts>>

\* gh pr list: an open PR is taken over.
ListPr(h) ==
  /\ handler[h].pc = "list"
  /\ goesTo(h, IF epic(h) \in prOpen THEN "claim" ELSE "create")
  /\ UNCHANGED <<branch, board, prOpen, events, sync, memory, disks, announced, counts>>

\* gh pr create: GitHub refuses a second PR for the branch, and may fail anyway.
CreatePr(h) ==
  /\ handler[h].pc = "create"
  /\ \/ /\ epic(h) \notin prOpen
        /\ prOpen' = prOpen \cup {epic(h)}
        /\ goesTo(h, "claim")
     \/ /\ goesTo(h, "block")
        /\ UNCHANGED prOpen
  /\ UNCHANGED <<branch, board, events, sync, memory, disks, announced, counts>>

\* The dedup key is set.  Nobody waits for the ledger: see Restart.
claims(i) == emitted' = emitted \cup {i}

ClaimEpic(h) ==
  /\ handler[h].pc = "claim"
  /\ claims(epic(h))
  /\ goesTo(h, IF epic(h) \in branch THEN "review" ELSE "done")
  /\ UNCHANGED <<branch, board, prOpen, events, sync, completed, project, disks,
                 announced, counts>>

\* The epic waits for its merge, or for a user if there is no PR.
HoldEpic(h) ==
  /\ handler[h].pc \in {"review", "block"}
  /\ moves([status EXCEPT ![epic(h)] =
              IF handler[h].pc = "review" THEN "review" ELSE "blocked"])
  /\ UNCHANGED late
  /\ goesOn(h, handler[h].todo)
  /\ UNCHANGED <<branch, prOpen, events, sync, memory, disks, announced, counts>>

\* An epic without a branch is done; its milestone is checked by this call and by
\* the handler of the event.
EpicDone(h) ==
  /\ handler[h].pc = "done"
  /\ LET e == epic(h) IN
       /\ moves([status EXCEPT ![e] = "done"]) /\ UNCHANGED late
       /\ events' = [events EXCEPT ![e] = IF status[e] = "done" THEN @ ELSE @ + 1]
       /\ announced' = announced \cup {e}
       /\ goesOn(h, milestones(e) \o handler[h].todo)
  /\ UNCHANGED <<branch, prOpen, sync, memory, disks, counts>>

-----------------------------------------------------------------------------
(* Then the milestones, and after each the project.                         *)

\* The project is read, and the features are listed.
MilestoneLook(h) ==
  /\ handler[h].pc = "milestone"
  /\ LET m == milestone(h) IN
       IF m \notin emitted /\ m \notin completed
       THEN lists(h, "features", project, existing(members(m)))
       ELSE goesOn(h, Tail(handler[h].todo))
  /\ UNCHANGED <<branch, board, prOpen, events, sync, memory, disks, announced, counts>>

\* Every listed feature of the milestone is done when it is read.
ReadFeature(h) == \E f \in handler[h].unread :
  /\ handler[h].pc = "features"
  /\ reads(h, f, status[f] = "done", "mark", Tail(handler[h].todo))
  /\ UNCHANGED <<branch, board, prOpen, events, sync, memory, disks, announced, counts>>

\* Faulty Mark: phases without a feature are not missed.
MarkUnscaffolded(h) ==
  /\ handler[h].pc = "mark"
  /\ claims(milestone(h))
  /\ completed' = completed \cup {milestone(h)}
  /\ puts(h, "write", "active", [status |-> handler[h].held, done |-> completed'])
  /\ UNCHANGED <<branch, board, prOpen, events, sync, project, disks, announced, counts>>

\* When all are read, every phase must have its feature by now.  The milestone is
\* completed in memory; updateProject() begins with the project's status as it was
\* read before.
Mark(h) ==
  /\ handler[h].pc = "mark"
  /\ LET m == milestone(h) IN
       IF members(m) = existing(members(m))
       THEN /\ claims(m)
            /\ completed' = completed \cup {m}
            /\ puts(h, "write", "active", [status |-> handler[h].held, done |-> completed'])
       ELSE goesOn(h, Tail(handler[h].todo)) /\ UNCHANGED <<emitted, completed>>
  /\ UNCHANGED <<branch, board, prOpen, events, sync, project, disks, announced, counts>>

\* project.json is written.
Write(h) ==
  /\ handler[h].pc \in {"write", "writeProject"}
  /\ disk' = handler[h].copy
  /\ goesTo(h, IF handler[h].pc = "write" THEN "set" ELSE "setProject")
  /\ UNCHANGED <<branch, board, prOpen, events, sync, memory, ledger, announced, counts>>

\* Faulty SetDoc: the copy that was written replaces the milestones in memory.
SetDocCopied(h) ==
  /\ handler[h].pc = "set"
  /\ project' = handler[h].copy.status
  /\ completed' = handler[h].copy.done
  /\ announced' = announced \cup {milestone(h)}
  /\ puts(h, "check", "active", empty)
  /\ UNCHANGED <<branch, board, prOpen, events, sync, emitted, disks, counts>>

\* The copy becomes the project in memory, and milestone:completed is emitted.
SetDoc(h) ==
  /\ handler[h].pc = "set"
  /\ project' = handler[h].copy.status
  /\ announced' = announced \cup {milestone(h)}
  /\ puts(h, "check", "active", empty)
  /\ UNCHANGED <<branch, board, prOpen, events, sync, emitted, completed,
                 disks, counts>>

\* Faulty CheckProject: one completed milestone is enough.
CheckProjectSome(h) ==
  /\ handler[h].pc = "check"
  /\ IF Project \notin emitted /\ project # "completed" /\ ~Ongoing /\ completed # {}
     THEN /\ claims(Project)
          /\ puts(h, "writeProject", "active", [status |-> "completed", done |-> completed])
     ELSE goesOn(h, Tail(handler[h].todo)) /\ UNCHANGED emitted
  /\ UNCHANGED <<branch, board, prOpen, events, sync, completed, project, disks,
                 announced, counts>>

\* Are all milestones completed now?
CheckProject(h) ==
  /\ handler[h].pc = "check"
  /\ IF /\ Project \notin emitted /\ project # "completed" /\ ~Ongoing
        /\ completed = Milestones
     THEN /\ claims(Project)
          /\ puts(h, "writeProject", "active", [status |-> "completed", done |-> completed])
     ELSE goesOn(h, Tail(handler[h].todo)) /\ UNCHANGED emitted
  /\ UNCHANGED <<branch, board, prOpen, events, sync, completed, project, disks,
                 announced, counts>>

SetProject(h) ==
  /\ handler[h].pc = "setProject"
  /\ project' = "completed"
  /\ puts(h, "announce", "active", empty)
  /\ UNCHANGED <<branch, board, prOpen, events, sync, emitted, completed,
                 disks, announced, counts>>

\* All features are read once more, then project:completed is emitted.
Announce(h) ==
  /\ handler[h].pc = "announce"
  /\ announced' = announced \cup {Project}
  /\ goesOn(h, Tail(handler[h].todo))
  /\ UNCHANGED <<branch, board, prOpen, events, sync, memory, disks, counts>>

Call(h) ==
  \/ EpicLook(h) \/ ReadChild(h) \/ ListPr(h) \/ CreatePr(h)
  \/ ClaimEpic(h) \/ HoldEpic(h) \/ EpicDone(h)
  \/ MilestoneLook(h) \/ ReadFeature(h) \/ Mark(h) \/ Write(h) \/ SetDoc(h)
  \/ CheckProject(h) \/ SetProject(h) \/ Announce(h)

-----------------------------------------------------------------------------
(* The phase sync and restarts.                                             *)

\* The copy the sync took is written and put back in memory.
SyncWrite ==
  /\ sync.writing
  /\ disk' = sync.copy
  /\ project' = sync.copy.status
  /\ sync' = [writing |-> FALSE, copy |-> empty]
  /\ UNCHANGED <<branch, board, prOpen, events, handler, emitted, completed,
                 ledger, announced, counts>>

\* The process dies and starts again from project.json and the ledger, whose last
\* entries may not have been written yet.
Restart ==
  /\ disturbed
  /\ died' = TRUE
  /\ events' = [f \in Features |-> 0]
  /\ handler' = [h \in Handlers |-> idle]
  /\ sync' = [writing |-> FALSE, copy |-> empty]
  /\ \E lost \in SUBSET (emitted \ ledger) : ledger' = emitted \ lost
  /\ emitted' = ledger'
  /\ completed' = disk.done /\ project' = disk.status
  /\ UNCHANGED <<branch, board, prOpen, disk, announced>>

-----------------------------------------------------------------------------
Next ==
  \/ Board
  \/ \E h \in Handlers : Start(h) \/ Call(h)
  \/ SyncWrite \/ Restart

Spec == Init /\ [][Next]_vars

\* Calls and syncs that have begun go on; nobody has to finish a feature, merge a
\* PR or take anything back.
Fairness ==
  /\ \A h \in Handlers : WF_vars(Call(h))
  /\ WF_vars(\E h \in Handlers : Start(h))
  /\ WF_vars(SyncWrite)

FairSpec == Spec /\ Fairness

-----------------------------------------------------------------------------
(* Properties.                                                              *)

\* The parts of an item were done at some time, each at its own, or they came while a
\* call was looking already.
parts(i)     == IF i \in Epics THEN existing(children(i)) ELSE members(i)
accounted(i) == \A f \in parts(i) : f \in wasDone \/ <<f, i>> \in late

\* No epic and no milestone is marked or announced as complete over a feature that was
\* never done, and no milestone over a phase without a feature: whatever the handlers
\* read at different times, only a feature that came after the directories were listed
\* can be missed.  The features need not have been done together.
CompleteWhenMarked ==
  \A i \in (emitted \cup completed \cup disk.done \cup announced) \ {Project} : accounted(i)

\* A project that is completed, in memory or in project.json, has no open milestone,
\* whichever of the overlapping writes came last and whenever the process died; it is
\* announced only when no phase is left of which the feature was not done, or missed.
ProjectConsistent ==
  /\ project = "completed" => completed = Milestones
  /\ disk.status = "completed" => disk.done = Milestones
  /\ Project \in announced => \A m \in Milestones : accounted(m)

\* The call holds the claim on the project.
finishing(h) == handler[h].pc \in {"writeProject", "setProject", "announce"}

\* The project's completion is claimed by one call at a time, and its key is set as long
\* as that call writes and announces it: nobody else can begin to.
ProjectClaimedOnce == \A h \in Handlers : finishing(h) =>
  /\ Project \in emitted
  /\ \A g \in Handlers : finishing(g) => g = h

\* How far a call is from its end: the steps of the epic, then for each milestone those
\* of the milestone and of the project; within a look, the features still to be read.
EpicPhase      == {"epic", "children", "list", "create", "claim", "review", "done", "block"}
MilestonePhase == Steps \ (EpicPhase \cup {"idle"})

toGo == [s \in Steps |->
  CASE s = "idle" -> 0   [] s \in {"review", "done", "block"} -> 1
    [] s = "claim" -> 2  [] s = "create" -> 3
    [] s = "list" -> 4   [] s = "children" -> 5   [] s = "epic" -> 6
    [] s = "announce" -> 1   [] s = "setProject" -> 2
    [] s = "writeProject" -> 3   [] s = "check" -> 4
    [] s = "set" -> 5    [] s = "write" -> 6
    [] s = "mark" -> 7   [] s = "features" -> 8   [] s = "milestone" -> 9]

Sooner(c, d) ==
  \/ toGo[d.pc] < toGo[c.pc]
  \/ d.pc = c.pc /\ d.unread \subseteq c.unread /\ d.unread # c.unread

Nearer(c, d) ==
  \/ c.pc # "idle" /\ d = idle
  \/ c.pc \in EpicPhase /\ d.pc \in EpicPhase /\ Sooner(c, d)
  \/ c.pc \in EpicPhase /\ d.pc \in MilestonePhase
  \/ /\ c.pc \in MilestonePhase /\ d.pc \in MilestonePhase
     /\ \/ Len(d.todo) < Len(c.todo)
        \/ d.todo = c.todo /\ Sooner(c, d)

\* onFeatureDone() ends: every step of a call brings it nearer to its end, though the
\* call of an epic takes the epic's milestone up on the way, and no other call, event,
\* sync or crash sends it back.
CallNearsItsEnd ==
  [][\A h \in Handlers :
       /\ Call(h) => Nearer(handler[h], handler'[h])
       /\ handler[h].pc # "idle" =>
            handler'[h] = handler[h] \/ Nearer(handler[h], handler'[h])]_vars

\* "feature done -> epic done -> milestone completed -> project completed": once all
\* features stay done, the project's completion is announced, unless the process
\* dies on the way.
CascadeEnds ==
  /\ ~Ongoing
  /\ <>[](~died /\ \A f \in Features : status[f] = "done")
  => <>(Project \in announced)
=============================================================================
