------------------------------- MODULE MCJobs -------------------------------
(***************************************************************************)
(* An instance of Jobs for TLC: two jobs, one started in a session and one *)
(* before a path is bound.  Nothing is counted, so nothing is capped.      *)
(***************************************************************************)
EXTENDS Jobs, TLC

CONSTANTS j1, j2, s1

\* One job of the session, one that starts before its path is bound.
MCOrigins == [j \in Jobs |-> IF j = j1 THEN {s1} ELSE {Unscoped}]
=============================================================================
