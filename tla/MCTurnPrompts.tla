--------------------------- MODULE MCTurnPrompts ---------------------------
(***************************************************************************)
(* Instances of TurnPrompts for TLC: the first turn may write, ask and     *)
(* propose a plan; the second one may write and propose a plan.            *)
(***************************************************************************)
EXTENDS TurnPrompts, TLC

CONSTANTS turn1, turn2, write1, ask1, plan1, write2, plan2

MCKind ==
    [r \in Requests |->
        CASE r \in {write1, write2} -> "writer"
          [] r = ask1 -> "ask"
          [] r \in {plan1, plan2} -> "plan"]

MCScope == [r \in Requests |-> MCKind[r]]

MCTurnOf == [r \in Requests |-> IF r \in {write1, ask1, plan1} THEN turn1 ELSE turn2]
=============================================================================
