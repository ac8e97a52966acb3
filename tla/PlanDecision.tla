---------------------------- MODULE PlanDecision ----------------------------
(***************************************************************************)
(* What the approval of plans promises, without the map, the timers and    *)
(* the answers under way: a plan is asked about once, while its agent      *)
(* waits it is decided once, for an approval only when a user gave one for *)
(* that plan, and its agent then does what was decided.                    *)
(***************************************************************************)
CONSTANT Plans

VARIABLES
  fresh,     \* plans nobody was asked about
  waiting,   \* plans whose agent waits for the decision
  working,   \* plans whose agent asked and implements
  fate,      \* the decision, or "open"
  approved   \* plans a user's approval was meant for

vars == <<fresh, waiting, working, fate, approved>>

Init ==
  /\ fresh = Plans
  /\ waiting = {} /\ working = {}
  /\ fate = [p \in Plans |-> "open"]
  /\ approved = {}

Ask(p) ==
  /\ p \in fresh /\ fate[p] = "open"
  /\ fresh' = fresh \ {p}
  /\ waiting' = waiting \cup {p}
  /\ UNCHANGED <<working, fate, approved>>

\* An approval may come before the agent asks: the plan is on disk by then.
Approve(p) ==
  /\ approved' = approved \cup {p}
  /\ UNCHANGED <<fresh, waiting, working, fate>>

Decide(p, v) ==
  /\ p \in waiting /\ fate[p] = "open"
  /\ v = "approve" => p \in approved
  /\ fate' = [fate EXCEPT ![p] = v]
  /\ UNCHANGED <<fresh, waiting, working, approved>>

Proceed(p) ==
  /\ p \in waiting /\ fate[p] = "approve"
  /\ waiting' = waiting \ {p}
  /\ working' = working \cup {p}
  /\ UNCHANGED <<fresh, fate, approved>>

TurnAway(p) ==
  /\ p \in waiting /\ fate[p] \notin {"open", "approve"}
  /\ waiting' = waiting \ {p}
  /\ UNCHANGED <<fresh, working, fate, approved>>

Finish(p) ==
  /\ working' = working \ {p}
  /\ UNCHANGED <<fresh, waiting, fate, approved>>

\* The process dies, and with it every agent and the plans they had not asked about.
Restart ==
  /\ waiting' = {} /\ working' = {}
  /\ fresh' \in SUBSET fresh
  /\ UNCHANGED <<fate, approved>>

Next ==
  \/ \E p \in Plans : \/ Ask(p) \/ Approve(p) \/ Proceed(p) \/ TurnAway(p) \/ Finish(p)
                      \/ \E v \in {"approve", "revise", "cancel", "timeout", "stopped"} :
                           Decide(p, v)
  \/ Restart

Spec == Init /\ [][Next]_vars
=============================================================================
