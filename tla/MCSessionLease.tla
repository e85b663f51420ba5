--------------------------- MODULE MCSessionLease ---------------------------
(***************************************************************************)
(* An instance of SessionLease for TLC: two runtimes.  The first one makes *)
(* the calls whose names begin with x, the second one those with y.        *)
(***************************************************************************)
EXTENDS SessionLease, TLC

CONSTANTS proc1, proc2,
          xAcquire, xReclaim, yAcquire, yProbe, xRemove, yInfoSweep

MCKindOf ==
    [c \in Calls |->
        CASE c \in {xAcquire, yAcquire} -> "acquire"
          [] c = xReclaim -> "reclaim"
          [] c = yProbe -> "probe"
          [] c = xRemove -> "remove"
          [] c = yInfoSweep -> "infoSweep"]

MCProcOf == [c \in Calls |-> IF c \in {xAcquire, xReclaim, xRemove} THEN proc1 ELSE proc2]

Symmetry == Permutations(Inodes)
=============================================================================
