----------------------------- MODULE MCGoalLoop -----------------------------
(***************************************************************************)
(* An instance of GoalLoop for TLC: one goal and one frontend beside the   *)
(* turn's goroutine, with limits small enough to be reached.               *)
(***************************************************************************)
EXTENDS GoalLoop
=============================================================================
