--------------------------- MODULE TurnAdmission ---------------------------
(***************************************************************************)
(* Admission of foreground turns in control.Controller.                    *)
(*                                                                         *)
(* One controller serves several frontends at once.  Each of them may      *)
(* start a turn on its own goroutine (runGuarded) or on the caller's       *)
(* (RunTurn), cancel the turn in flight, push mid-turn guidance (Steer),   *)
(* or swap the session underneath (a rotation: NewSession, ClearSession,   *)
(* Compact, Rewind, Fork, ...).  Every critical section under c.mu is one  *)
(* action; what happens between two of them is open to interleaving.       *)
(*                                                                         *)
(* A turn, a steer, a rotation and a Cancel call are one-shot: each value  *)
(* of the constants below is one call of the API.                          *)
(***************************************************************************)
EXTENDS Naturals, Sequences, FiniteSets

CONSTANTS
    Sends,      \* turns started through runGuarded: Send, Submit, RunShell ...
    Calls,      \* turns started through the blocking RunTurn: ACP, bots
    Steers,     \* Steer calls; one that finds no turn becomes a guarded turn
    Rotations,  \* calls that swap the session under beginRotation
    Cancels,    \* Cancel calls
    NoTurn      \* the nil of c.cancel

Turns == Sends \cup Calls \cup Steers

Guarded == Sends \cup Steers

ASSUME AdmissionAssumption ==
    /\ Sends \cap Calls = {} /\ Sends \cap Steers = {} /\ Calls \cap Steers = {}
    /\ NoTurn \notin Turns
    /\ NoTurn \notin Rotations

VARIABLES
    running,    \* c.running
    finishing,  \* c.finishing
    rotating,   \* c.rotating
    cancel,     \* c.cancel: the turn whose CancelFunc it holds, or NoTurn
    canceling,  \* c.canceling
    session,    \* the executor's session, named after the rotation that made it
    phase,      \* where each turn is
    ctx,        \* each turn's context
    seen,       \* the session each turn's body started on
    rotation,   \* where each rotation is
    canceller,  \* where each Cancel call is
    captured,   \* the CancelFunc a Cancel call read under the lock
    steerQueue, \* a.steerQueue of the executor
    steered     \* steers the model has seen

admissionVars == <<running, finishing, rotating, cancel, canceling>>
turnVars == <<phase, ctx, seen>>
cancelVars == <<canceller, captured>>
steerVars == <<steerQueue, steered>>
vars == <<admissionVars, session, turnVars, rotation, cancelVars, steerVars>>

(***************************************************************************)
(* A turn's phases.  "start": in the turn body, before Agent.Run.  "loop": *)
(* inside Agent.Run.  "settle": the loop saw an empty steer queue and is   *)
(* on its way out (maybeCompact).  "between": Agent.Run returned nil; a    *)
(* goal or an approved plan may run it again.  "failed": it returned an    *)
(* error.  "emit": TurnDone is delivered.  "unwind": only the deferred     *)
(* cancel() is left.  A steer is "queueing" or "converting" between its    *)
(* look at c.running and what it does about it.                            *)
(***************************************************************************)
InBody == {"start", "loop", "settle", "between", "failed"}

Phases == InBody \cup {"new", "queueing", "queued", "converting", "refused",
                      "emit", "unwind", "done"}

Init ==
    /\ running = FALSE /\ finishing = FALSE /\ rotating = FALSE
    /\ cancel = NoTurn /\ canceling = FALSE
    /\ session = NoTurn
    /\ phase = [t \in Turns |-> "new"]
    /\ ctx = [t \in Turns |-> "none"]
    /\ seen = [t \in Turns |-> NoTurn]
    /\ rotation = [r \in Rotations |-> "new"]
    /\ canceller = [k \in Cancels |-> "new"]
    /\ captured = [k \in Cancels |-> NoTurn]
    /\ steerQueue = <<>> /\ steered = {}

Goto(t, p) == phase' = [phase EXCEPT ![t] = p]

-----------------------------------------------------------------------------
(* Starting and finishing turns *)

\* The state a successful admission leaves, the same in runGuarded and RunTurn.
Admit(t) ==
    /\ running' = TRUE
    /\ cancel' = t
    /\ canceling' = FALSE
    /\ ctx' = [ctx EXCEPT ![t] = "live"]
    /\ seen' = [seen EXCEPT ![t] = session]
    /\ Goto(t, "start")

Refuse(t) ==
    /\ Goto(t, "refused")
    /\ UNCHANGED <<running, cancel, canceling, ctx, seen>>

\* runGuarded: a silent no-op unless all three flags are down.
RunGuarded(t) ==
    /\ t \in Guarded
    /\ phase[t] = IF t \in Steers THEN "converting" ELSE "new"
    /\ IF running \/ finishing \/ rotating THEN Refuse(t) ELSE Admit(t)
    /\ UNCHANGED <<finishing, rotating, session, rotation, cancelVars, steerVars>>

\* Mutant: RunTurn tests the rotation gate only.
RunTurnWhileRunning(t) ==
    /\ t \in Calls
    /\ phase[t] = "new"
    /\ IF rotating THEN Refuse(t) ELSE Admit(t)
    /\ UNCHANGED <<finishing, rotating, session, rotation, cancelVars, steerVars>>

\* RunTurn: ErrTurnRunning unless running and rotating are down.
RunTurn(t) ==
    /\ t \in Calls
    /\ phase[t] = "new"
    /\ IF running \/ rotating THEN Refuse(t) ELSE Admit(t)
    /\ UNCHANGED <<finishing, rotating, session, rotation, cancelVars, steerVars>>

\* The first half of finishGuardedTurn, before TurnDone is emitted.
FinishGuardedTurn(t) ==
    /\ t \in Guarded
    /\ phase[t] \in {"start", "between", "failed"}
    /\ running' = FALSE
    /\ finishing' = TRUE
    /\ cancel' = NoTurn
    /\ canceling' = FALSE
    /\ Goto(t, "emit")
    /\ UNCHANGED <<rotating, session, ctx, seen, rotation, cancelVars, steerVars>>

\* Its deferred half, once every sink has had TurnDone.
TurnDoneDelivered(t) ==
    /\ phase[t] = "emit"
    /\ finishing' = FALSE
    /\ Goto(t, "unwind")
    /\ UNCHANGED <<running, rotating, cancel, canceling, session, ctx, seen,
                   rotation, cancelVars, steerVars>>

\* Mutant: the deferred function leaves canceling as it was.
RunTurnReturnsCanceling(t) ==
    /\ t \in Calls
    /\ phase[t] \in {"start", "between", "failed"}
    /\ running' = FALSE
    /\ cancel' = NoTurn
    /\ Goto(t, "unwind")
    /\ UNCHANGED <<finishing, rotating, canceling, session, ctx, seen, rotation,
                   cancelVars, steerVars>>

\* The critical section of RunTurn's deferred function.
RunTurnReturns(t) ==
    /\ t \in Calls
    /\ phase[t] \in {"start", "between", "failed"}
    /\ running' = FALSE
    /\ cancel' = NoTurn
    /\ canceling' = FALSE
    /\ Goto(t, "unwind")
    /\ UNCHANGED <<finishing, rotating, session, ctx, seen, rotation, cancelVars,
                   steerVars>>

\* The deferred cancel() that releases a turn's context.
Unwind(t) ==
    /\ phase[t] = "unwind"
    /\ ctx' = [ctx EXCEPT ![t] = "cancelled"]
    /\ Goto(t, "done")
    /\ UNCHANGED <<admissionVars, session, seen, rotation, cancelVars, steerVars>>

-----------------------------------------------------------------------------
(* The agent loop, as far as it touches the steer queue *)

\* Agent.Run is entered: by the turn itself, a goal continuation or an approved
\* plan.
AgentRun(t) ==
    /\ phase[t] \in {"start", "between"}
    /\ Goto(t, "loop")
    /\ UNCHANGED <<admissionVars, session, ctx, seen, rotation, cancelVars, steerVars>>

\* One iteration consumes at most one queued steer.
ConsumeSteer(t) ==
    /\ phase[t] = "loop"
    /\ steerQueue # <<>>
    /\ steered' = steered \cup {Head(steerQueue)}
    /\ steerQueue' = Tail(steerQueue)
    /\ UNCHANGED <<admissionVars, session, turnVars, rotation, cancelVars>>

\* The model gave its final answer, which takes a live context, and no steer is
\* queued: compact, then return.
FinalAnswer(t) ==
    /\ phase[t] = "loop"
    /\ ctx[t] = "live"
    /\ steerQueue = <<>>
    /\ Goto(t, "settle")
    /\ UNCHANGED <<admissionVars, session, ctx, seen, rotation, cancelVars, steerVars>>

\* Agent.Run returns nil after a final answer; clearSteerQueue runs deferred.
AgentRunReturns(t) ==
    /\ phase[t] = "settle"
    /\ steerQueue' = <<>>
    /\ Goto(t, "between")
    /\ UNCHANGED <<admissionVars, session, ctx, seen, rotation, cancelVars, steered>>

\* Mutant: an error of Agent.Run does not stop the goal loop.
AgentRunFailsOn(t) ==
    /\ phase[t] = "loop"
    /\ steerQueue' = <<>>
    /\ Goto(t, "between")
    /\ UNCHANGED <<admissionVars, session, ctx, seen, rotation, cancelVars, steered>>

\* Agent.Run returns an error: a cancelled context, a provider failure, a step
\* limit.  The same deferred clearSteerQueue runs; no goal continuation follows.
AgentRunFails(t) ==
    /\ phase[t] = "loop"
    /\ steerQueue' = <<>>
    /\ Goto(t, "failed")
    /\ UNCHANGED <<admissionVars, session, ctx, seen, rotation, cancelVars, steered>>

\* Steer reads c.running and releases the lock.
SteerLooks(m) ==
    /\ m \in Steers
    /\ phase[m] = "new"
    /\ Goto(m, IF running THEN "queueing" ELSE "converting")
    /\ UNCHANGED <<admissionVars, session, ctx, seen, rotation, cancelVars, steerVars>>

\* exec.Steer
SteerQueues(m) ==
    /\ m \in Steers
    /\ phase[m] = "queueing"
    /\ steerQueue' = Append(steerQueue, m)
    /\ Goto(m, "queued")
    /\ UNCHANGED <<admissionVars, session, ctx, seen, rotation, cancelVars, steered>>

-----------------------------------------------------------------------------
(* Cancel *)

\* Mutant: Cancel does not test the CancelFunc for nil.
CancelCapturesNil(k) ==
    /\ canceller[k] = "new"
    /\ captured' = [captured EXCEPT ![k] = cancel]
    /\ canceller' = [canceller EXCEPT ![k] = "clearing"]
    /\ canceling' = TRUE
    /\ UNCHANGED <<running, finishing, rotating, cancel, session, turnVars, rotation,
                   steerVars>>

\* Cancel's critical section.  With no turn in flight only a goal is stopped.
CancelCaptures(k) ==
    /\ canceller[k] = "new"
    /\ captured' = [captured EXCEPT ![k] = cancel]
    /\ canceller' = [canceller EXCEPT ![k] = IF cancel = NoTurn THEN "done" ELSE "clearing"]
    /\ canceling' = (canceling \/ cancel # NoTurn)
    /\ UNCHANGED <<running, finishing, rotating, cancel, session, turnVars, rotation,
                   steerVars>>

\* c.approval.clearAll(), between the critical section and the CancelFunc.
CancelClears(k) ==
    /\ canceller[k] = "clearing"
    /\ canceller' = [canceller EXCEPT ![k] = "firing"]
    /\ UNCHANGED <<admissionVars, session, turnVars, rotation, captured, steerVars>>

\* The captured CancelFunc is called.
CancelFires(k) ==
    /\ canceller[k] = "firing"
    /\ ctx' = [ctx EXCEPT ![captured[k]] = "cancelled"]
    /\ canceller' = [canceller EXCEPT ![k] = "done"]
    /\ UNCHANGED <<admissionVars, session, phase, seen, rotation, captured, steerVars>>

\* The caller of RunTurn gives up on the context it passed in.
CallerGivesUp(t) ==
    /\ t \in Calls
    /\ phase[t] \in InBody
    /\ ctx[t] = "live"
    /\ ctx' = [ctx EXCEPT ![t] = "cancelled"]
    /\ UNCHANGED <<admissionVars, session, phase, seen, rotation, cancelVars, steerVars>>

-----------------------------------------------------------------------------
(* Rotations *)

\* Mutant: the gate refuses a running turn, but not another rotation.
BeginRotationTwice(r) ==
    /\ rotation[r] = "new"
    /\ IF running \/ finishing
       THEN /\ rotation' = [rotation EXCEPT ![r] = "refused"]
            /\ UNCHANGED rotating
       ELSE /\ rotation' = [rotation EXCEPT ![r] = "claimed"]
            /\ rotating' = TRUE
    /\ UNCHANGED <<running, finishing, cancel, canceling, session, turnVars,
                   cancelVars, steerVars>>

\* Mutant: the gate does not look for a running turn.
BeginRotationUnderTurn(r) ==
    /\ rotation[r] = "new"
    /\ IF finishing \/ rotating
       THEN /\ rotation' = [rotation EXCEPT ![r] = "refused"]
            /\ UNCHANGED rotating
       ELSE /\ rotation' = [rotation EXCEPT ![r] = "claimed"]
            /\ rotating' = TRUE
    /\ UNCHANGED <<running, finishing, cancel, canceling, session, turnVars,
                   cancelVars, steerVars>>

BeginRotation(r) ==
    /\ rotation[r] = "new"
    /\ IF running \/ finishing \/ rotating
       THEN /\ rotation' = [rotation EXCEPT ![r] = "refused"]
            /\ UNCHANGED rotating
       ELSE /\ rotation' = [rotation EXCEPT ![r] = "claimed"]
            /\ rotating' = TRUE
    /\ UNCHANGED <<running, finishing, cancel, canceling, session, turnVars,
                   cancelVars, steerVars>>

\* The snapshot succeeded: the executor gets another session.
SwapSession(r) ==
    /\ rotation[r] = "claimed"
    /\ session' = r
    /\ rotation' = [rotation EXCEPT ![r] = "swapped"]
    /\ UNCHANGED <<admissionVars, turnVars, cancelVars, steerVars>>

\* endRotation, deferred: after the swap, or after a snapshot that failed.
EndRotation(r) ==
    /\ rotation[r] \in {"claimed", "swapped"}
    /\ rotating' = FALSE
    /\ rotation' = [rotation EXCEPT ![r] = "done"]
    /\ UNCHANGED <<running, finishing, cancel, canceling, session, turnVars,
                   cancelVars, steerVars>>

-----------------------------------------------------------------------------
TurnStep(t) ==
    \/ RunGuarded(t) \/ RunTurn(t)
    \/ FinishGuardedTurn(t) \/ TurnDoneDelivered(t) \/ RunTurnReturns(t) \/ Unwind(t)
    \/ AgentRun(t) \/ ConsumeSteer(t) \/ FinalAnswer(t) \/ AgentRunReturns(t)
    \/ AgentRunFails(t)
    \/ SteerLooks(t) \/ SteerQueues(t)
    \/ CallerGivesUp(t)

CancelStep(k) == CancelCaptures(k) \/ CancelClears(k) \/ CancelFires(k)

RotationStep(r) == BeginRotation(r) \/ SwapSession(r) \/ EndRotation(r)

Next ==
    \/ \E t \in Turns : TurnStep(t)
    \/ \E k \in Cancels : CancelStep(k)
    \/ \E r \in Rotations : RotationStep(r)

Spec == Init /\ [][Next]_vars

(***************************************************************************)
(* Goroutines that are past a critical section keep running; a call that   *)
(* has begun completes.  A live turn may run for ever (the tool loop has   *)
(* no bound by default); once its context is cancelled Agent.Run fails and *)
(* the body goes on to its end.                                            *)
(***************************************************************************)
GoesOn(t) ==
    AgentRun(t) \/ AgentRunFails(t) \/ AgentRunReturns(t) \/ FinishGuardedTurn(t)
        \/ RunTurnReturns(t)

Fairness ==
    /\ \A t \in Turns :
        /\ WF_vars(TurnDoneDelivered(t))
        /\ WF_vars(Unwind(t))
        /\ WF_vars(ctx[t] = "cancelled" /\ GoesOn(t))
        /\ WF_vars(SteerQueues(t))
        /\ WF_vars(t \in Steers /\ RunGuarded(t))
    /\ \A k \in Cancels : WF_vars(CancelClears(k)) /\ WF_vars(CancelFires(k))
    /\ \A r \in Rotations : WF_vars(EndRotation(r))

FairSpec == Spec /\ Fairness

-----------------------------------------------------------------------------
(* Properties *)

\* Every variable keeps its type, and the CancelFunc a Cancel is about to call is
\* never nil.
TypeOK ==
    /\ running \in BOOLEAN /\ finishing \in BOOLEAN /\ rotating \in BOOLEAN
    /\ canceling \in BOOLEAN
    /\ cancel \in Turns \cup {NoTurn}
    /\ session \in Rotations \cup {NoTurn}
    /\ phase \in [Turns -> Phases]
    /\ ctx \in [Turns -> {"none", "live", "cancelled"}]
    /\ seen \in [Turns -> Rotations \cup {NoTurn}]
    /\ rotation \in [Rotations -> {"new", "refused", "claimed", "swapped", "done"}]
    /\ canceller \in [Cancels -> {"new", "clearing", "firing", "done"}]
    /\ captured \in [Cancels -> Turns \cup {NoTurn}]
    /\ \A k \in Cancels : canceller[k] \in {"clearing", "firing"} => captured[k] \in Turns
    /\ steerQueue \in Seq(Steers)
    /\ steered \subseteq Steers

\* runGuarded and RunTurn "guard against concurrent turns": two turn bodies never
\* overlap, and c.cancel always holds the CancelFunc of the body that is running,
\* so Cancel can never be a no-op on a live turn nor reach a turn that is over.
OneTurn ==
    \A t \in Turns : phase[t] \in InBody <=> running /\ cancel = t

\* beginRotation "closes the TOCTOU window": the session a turn started on is the
\* session it runs on until its body returns.
SessionStable ==
    \A t \in Turns : phase[t] \in InBody => session = seen[t]

\* Two rotations never overlap, and none overlaps a turn or the delivery of its
\* TurnDone.
RotationExclusive ==
    \A r \in Rotations : rotation[r] \in {"claimed", "swapped"} =>
        /\ \A s \in Rotations \ {r} : rotation[s] \notin {"claimed", "swapped"}
        /\ \A t \in Turns : phase[t] \notin InBody \cup {"emit"}

\* CancelRequested, which makes the turn strip what it added to the session, is
\* only ever true of the turn in flight, and only if the cancellation of that very
\* turn has happened or is under way.
CancelRequestedIsCurrent ==
    canceling =>
        /\ running
        /\ \/ ctx[cancel] = "cancelled"
           \/ \E k \in Cancels : captured[k] = cancel /\ canceller[k] \in {"clearing", "firing"}

\* A Cancel that found a turn ends it: the turn leaves its body and its TurnDone
\* is delivered, whatever the other frontends do.
CancelEndsTurn ==
    \A t \in Turns : (\E k \in Cancels : captured[k] = t) ~> phase[t] = "done"

\* What belongs to the turn in flight stays its own: no rotation takes the session from
\* under it (beginRotation), rotations exclude each other, and a cancel request is its
\* (CancelRequested).  The variables have their types.
TurnsKeepTheirSession ==
  /\ TypeOK
  /\ SessionStable
  /\ RotationExclusive
  /\ CancelRequestedIsCurrent
=============================================================================
