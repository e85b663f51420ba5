---------------------------- MODULE TurnPrompts ----------------------------
(***************************************************************************)
(* Turns and prompts together: what Controller.Cancel promises about a     *)
(* goroutine blocked on a prompt, and how far the approved-plan window     *)
(* reaches.                                                                *)
(*                                                                         *)
(* TurnAdmission, which this module extends, and Approvals, the instance   *)
(* P, are composed on two points.  A request belongs to a turn: it begins  *)
(* inside the turn's agent loop (a plan request: after it), the loop waits *)
(* for it, and its context is the turn's.  And Cancel runs through both:   *)
(* the capture and the CancelFunc are the turn's, the clearAll between     *)
(* them is the prompts'.                                                   *)
(***************************************************************************)
EXTENDS TurnAdmission

CONSTANTS
    Requests, Kind, Scope, Answers, Switches, Free,  \* as in Approvals
    TurnOf                                           \* the turn of each request

VARIABLES
    mode, gate, granted, trusted, planAutoApprove, approvals, asks, promptMu, pc, reply,
    outcome, via, answerAt, answered, answer, switchAt, switchTo, drained

promptVars == <<mode, gate, granted, trusted, planAutoApprove, approvals, asks, promptMu, pc,
                reply, outcome, via, answerAt, answered, answer, switchAt, switchTo, drained>>
systemVars == <<vars, promptVars>>

\* Requests whose context is cancelled: it derives from the turn's.
Cancelled == {r \in Requests : ctx[TurnOf[r]] = "cancelled"}

P == INSTANCE Approvals WITH cancelled <- Cancelled, Guardian <- FALSE, Timeouts <- FALSE

ASSUME PromptAssumption == TurnOf \in [Requests -> Turns] /\ P!ApprovalAssumption

SystemInit == Init /\ P!Init

-----------------------------------------------------------------------------
Idle(r) == pc[r] \in {"new", "done"}

\* What a turn waits for before it moves on: the tool calls it started, and the plan it
\* proposed unless the plan is the reason it runs again.
Settled(t) ==
    \A r \in Requests : TurnOf[r] = t => Idle(r) \/ (Kind[r] = "plan" /\ pc[r] = "executing")

Finished(t) == \A r \in Requests : TurnOf[r] = t => Idle(r)

\* A turn's own step.  Leaving the body takes every request to be finished.
TurnMoves(t) ==
    /\ TurnStep(t)
    /\ phase[t] \in InBody /\ phase'[t] # phase[t] => Settled(t)
    /\ phase[t] \in InBody /\ phase'[t] \notin InBody => Finished(t)
    /\ UNCHANGED promptVars

\* Tool calls begin in the loop, the plan request after a loop that ended well.
BeginRequest(r) ==
    /\ phase[TurnOf[r]] = IF Kind[r] = "plan" THEN "between" ELSE "loop"
    /\ UNCHANGED vars
    /\ P!Begin(r)

\* The rest of a request; the plan window closes when the execution run has returned.
RequestStep(r) ==
    /\ pc[r] # "new"
    /\ pc[r] = "executing" => phase[TurnOf[r]] \in {"between", "failed"}
    /\ UNCHANGED vars
    /\ P!RequestStep(r)

\* Cancel captures the turn's CancelFunc, or calls it.
CancelMoves(k) ==
    /\ CancelCaptures(k) \/ CancelFires(k)
    /\ UNCHANGED promptVars

\* Cancel drops every pending prompt in between.
CancelDrops(k) ==
    /\ CancelClears(k)
    /\ approvals' = {} /\ asks' = {}
    /\ UNCHANGED <<mode, gate, granted, trusted, planAutoApprove, promptMu, pc, reply, outcome,
                   via, answerAt, answered, answer, switchAt, switchTo, drained>>

\* Frontends answer and switch, or rotate the session, which leaves prompts, grants and the
\* posture alone.
FrontendStep ==
    \/ \E a \in Answers : UNCHANGED vars /\ P!AnswerStep(a)
    \/ \E w \in Switches : UNCHANGED vars /\ P!SwitchStep(w)
    \/ \E r \in Rotations : RotationStep(r) /\ UNCHANGED promptVars

SystemNext ==
    \/ \E t \in Turns : TurnMoves(t)
    \/ \E r \in Requests : BeginRequest(r) \/ RequestStep(r)
    \/ \E k \in Cancels : CancelMoves(k) \/ CancelDrops(k)
    \/ FrontendStep

SystemSpec == SystemInit /\ [][SystemNext]_systemVars

(***************************************************************************)
(* Goroutines run on: a Cancel that has begun completes, a rotation ends,  *)
(* a request that can move moves, a cancelled turn goes on to its end.     *)
(* Nothing obliges a user to answer or a live turn to end.                 *)
(***************************************************************************)
SystemFairness ==
    /\ \A t \in Turns :
        /\ WF_systemVars(phase[t] \in {"emit", "unwind", "queueing", "converting"} /\ TurnMoves(t))
        /\ WF_systemVars(ctx[t] = "cancelled" /\ GoesOn(t) /\ TurnMoves(t))
    /\ \A r \in Requests : WF_systemVars(RequestStep(r))
    /\ \A k \in Cancels :
        /\ WF_systemVars(CancelDrops(k))
        /\ WF_systemVars(canceller[k] = "firing" /\ CancelMoves(k))
    /\ \A r \in Rotations : WF_systemVars(EndRotation(r) /\ UNCHANGED promptVars)
    /\ \A a \in Answers : WF_systemVars(UNCHANGED vars /\ P!Answer(a))

FairSystemSpec == SystemSpec /\ SystemFairness

-----------------------------------------------------------------------------
(* Properties *)

\* Cancel "aborts the in-flight turn. A goroutine blocked awaiting approval unblocks via
\* the cancelled context": a turn some Cancel found in flight ends, prompts included.
CancelUnwinds ==
    \A t \in Turns : (\E k \in Cancels : captured[k] = t) ~> (phase[t] = "done" /\ Finished(t))

\* The plan window auto-approves "for the duration of this execution turn only": it is open
\* only while the turn whose plan was approved is the running one.
PlanWindowInItsTurn ==
    planAutoApprove =>
        \E r \in Requests : Kind[r] = "plan" /\ pc[r] = "executing" /\ running /\ cancel = TurnOf[r]

\* Approvals lets one plan be decided at a time; that is what the turns give it: when a
\* turn is where it may propose a plan, no other turn has a plan being decided or executed.
PlansDoNotOverlap ==
    \A p, q \in Requests :
        /\ Kind[p] = "plan" /\ Kind[q] = "plan"
        /\ TurnOf[p] # TurnOf[q] /\ phase[TurnOf[p]] = "between"
        => Idle(q)

\* A plan is decided and executed within its turn, the window with it, and beside no
\* other turn's plan (runApprovedPlan).
PlansStayInTheirTurns ==
  /\ PlanWindowInItsTurn
  /\ PlansDoNotOverlap
=============================================================================
