-------------------------- MODULE MCTurnAdmission --------------------------
(***************************************************************************)
(* Instances of TurnAdmission for TLC: every configuration gives the API   *)
(* calls as model values.  A call is one-shot, so the sets are the bounds. *)
(***************************************************************************)
EXTENDS TurnAdmission
=============================================================================
