----------------------------- MODULE Exclusive -----------------------------
(***************************************************************************)
(* What a lock promises, whatever it is made of: somebody may come in when *)
(* nobody is in, and whoever is in may leave.                              *)
(***************************************************************************)
CONSTANT Users

VARIABLE holders

Init == holders = {}

Take(u) == holders = {} /\ holders' = {u}

Leave(u) == u \in holders /\ holders' = holders \ {u}

Next == \E u \in Users : Take(u) \/ Leave(u)

Spec == Init /\ [][Next]_holders
=============================================================================
