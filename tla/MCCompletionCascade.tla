------------------------- MODULE MCCompletionCascade -------------------------
(***************************************************************************)
(* A feature of an epic and of the first milestone; the epic and a feature *)
(* of no epic in the second.                                               *)
(***************************************************************************)
EXTENDS CompletionCascade

MCEpicOf      == [f \in Features |-> IF f = "a" THEN "e" ELSE None]
MCMilestoneOf == [f \in Features |-> IF f = "a" THEN "m1" ELSE "m2"]
=============================================================================
