----------------------------- MODULE MCBotQueue -----------------------------
(***************************************************************************)
(* Instances of BotQueue for TLC: one chat.  Messages are numbered in the  *)
(* order they arrive, so their number is the bound.                        *)
(***************************************************************************)
EXTENDS BotQueue
=============================================================================
