---------------------------- MODULE MCApprovals ----------------------------
(***************************************************************************)
(* Instances of Approvals for TLC.  Each configuration picks the requests  *)
(* among the ones below; kinds and scopes are the ones the names say.      *)
(***************************************************************************)
EXTENDS Approvals, TLC

CONSTANTS write1, ruled, memory, plan, escape, mcp, prefix, question

\* A tool's grant covers its writer and its ruled calls alike; the two trust
\* decisions and the escape have rules of their own.
MCKind ==
    [r \in Requests |->
        CASE r = write1 -> "writer"
          [] r = ruled -> "ruled"
          [] r = memory -> "memory"
          [] r = plan -> "plan"
          [] r = escape -> "escape"
          [] r = mcp -> "mcpTrust"
          [] r = prefix -> "bashTrust"
          [] r = question -> "ask"]

MCScope ==
    [r \in Requests |->
        CASE MCKind[r] \in {"writer", "ruled"} -> "Edit"
          [] OTHER -> MCKind[r]]
=============================================================================
