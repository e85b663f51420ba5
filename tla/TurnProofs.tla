----------------------------- MODULE TurnProofs -----------------------------
(***************************************************************************)
(* For every set of calls and requests: turn admission keeps its safety    *)
(* invariants, and turns with prompts are a composition of the two         *)
(* components, so that what is proved of each of them holds of both        *)
(* together; the plans of a turn stay within it.                           *)
(***************************************************************************)
EXTENDS TurnPrompts, TLAPS

(***************************************************************************)
(* Turn admission alone.                                                   *)
(***************************************************************************)
\* The flags say what the turns and the rotations are doing: a guarded body excludes
\* a delivery, a delivery is of one guarded turn and holds finishing up, a rotation
\* holds rotating up and the other two flags down.
Gates ==
    /\ running <=> cancel # NoTurn
    /\ \A t \in Turns : phase[t] \in InBody /\ t \in Guarded => ~finishing
    /\ \A t \in Turns : phase[t] = "emit" => t \in Guarded /\ finishing
    /\ \A t, u \in Turns : phase[t] = "emit" /\ phase[u] = "emit" => t = u
    /\ \A r \in Rotations : rotation[r] \in {"claimed", "swapped"} => rotating
    /\ \A r, s \in Rotations :
            /\ rotation[r] \in {"claimed", "swapped"}
            /\ rotation[s] \in {"claimed", "swapped"}
            => r = s
    /\ rotating => ~running /\ ~finishing

\* The inductive invariant.
IInv == TypeOK /\ OneTurn /\ Gates /\ SessionStable /\ CancelRequestedIsCurrent

\* The initial state satisfies the inductive invariant.
LEMMA InitIInv == Init => IInv
<1> SUFFICES ASSUME Init PROVE IInv
    OBVIOUS
<1>1. TypeOK
  <2>1. steerQueue \in Seq(Steers)
    BY DEF Init
  <2> QED BY <2>1 DEF Init, TypeOK, InBody, Phases
<1>2. OneTurn /\ Gates /\ SessionStable /\ CancelRequestedIsCurrent
  BY DEF Init, OneTurn, Gates, SessionStable, CancelRequestedIsCurrent, InBody
<1> QED BY <1>1, <1>2 DEF IInv

\* Every step keeps the types.
LEMMA TypeStep == IInv /\ [Next]_vars => TypeOK'
<1> SUFFICES ASSUME IInv, [Next]_vars PROVE TypeOK'
    OBVIOUS
<1> USE DEF IInv, TypeOK, InBody, Phases, admissionVars, turnVars, cancelVars, steerVars, Goto
<1>1. ASSUME NEW t \in Turns, TurnStep(t) PROVE TypeOK'
  <2>1. CASE RunGuarded(t)
    BY <2>1 DEF RunGuarded, Admit, Refuse
  <2>2. CASE RunTurn(t)
    BY <2>2 DEF RunTurn, Admit, Refuse
  <2>3. CASE FinishGuardedTurn(t) \/ TurnDoneDelivered(t) \/ RunTurnReturns(t) \/ Unwind(t)
    BY <2>3 DEF FinishGuardedTurn, TurnDoneDelivered, RunTurnReturns, Unwind
  <2>4. CASE AgentRun(t) \/ FinalAnswer(t) \/ AgentRunReturns(t) \/ AgentRunFails(t)
    <3>1. <<>> \in Seq(Steers)
      OBVIOUS
    <3> QED BY <3>1, <2>4 DEF AgentRun, FinalAnswer, AgentRunReturns, AgentRunFails
  <2>5. CASE ConsumeSteer(t)
    <3>1. Head(steerQueue) \in Steers /\ Tail(steerQueue) \in Seq(Steers)
      BY <2>5 DEF ConsumeSteer
    <3> QED BY <3>1, <2>5 DEF ConsumeSteer
  <2>6. CASE SteerLooks(t)
    BY <2>6 DEF SteerLooks
  <2>7. CASE SteerQueues(t)
    BY <2>7 DEF SteerQueues
  <2>8. CASE CallerGivesUp(t)
    BY <2>8 DEF CallerGivesUp
  <2> QED BY <1>1, <2>1, <2>2, <2>3, <2>4, <2>5, <2>6, <2>7, <2>8 DEF TurnStep
<1>2. ASSUME NEW k \in Cancels, CancelStep(k) PROVE TypeOK'
  <2>1. CASE CancelCaptures(k)
    BY <2>1 DEF CancelCaptures
  <2>2. CASE CancelClears(k) \/ CancelFires(k)
    BY <2>2 DEF CancelClears, CancelFires
  <2> QED BY <1>2, <2>1, <2>2 DEF CancelStep
<1>3. ASSUME NEW r \in Rotations, RotationStep(r) PROVE TypeOK'
  BY <1>3 DEF RotationStep, BeginRotation, SwapSession, EndRotation
<1>4. CASE UNCHANGED vars
  BY <1>4 DEF vars
<1> QED BY <1>1, <1>2, <1>3, <1>4 DEF Next

\* Every step keeps the other conjuncts.
LEMMA SafetyStep ==
    IInv /\ [Next]_vars =>
        OneTurn' /\ Gates' /\ SessionStable' /\ CancelRequestedIsCurrent'
<1> SUFFICES ASSUME IInv, TypeOK', [Next]_vars
             PROVE OneTurn' /\ Gates' /\ SessionStable' /\ CancelRequestedIsCurrent'
    BY TypeStep
<1> USE DEF IInv, TypeOK, OneTurn, Gates, SessionStable, CancelRequestedIsCurrent,
            InBody, admissionVars, turnVars, cancelVars, steerVars, Goto
<1>1. ASSUME NEW t \in Turns, TurnStep(t)
      PROVE OneTurn' /\ Gates' /\ SessionStable' /\ CancelRequestedIsCurrent'
  <2>1. CASE RunGuarded(t)
    <3>1. CASE Refuse(t)
      BY <3>1, <2>1 DEF RunGuarded, Refuse
    <3>2. CASE Admit(t) /\ ~running /\ ~finishing /\ ~rotating
      <4>1. t # NoTurn
        BY AdmissionAssumption DEF AdmissionAssumption
      <4> QED BY <4>1, <3>2, <2>1 DEF RunGuarded, Admit
    <3> QED BY <3>1, <3>2, <2>1 DEF RunGuarded
  <2>2. CASE RunTurn(t)
    BY <2>2, AdmissionAssumption DEF RunTurn, Admit, Refuse, AdmissionAssumption, Guarded
  <2>3. CASE FinishGuardedTurn(t)
    BY <2>3 DEF FinishGuardedTurn
  <2>4. CASE TurnDoneDelivered(t)
    BY <2>4 DEF TurnDoneDelivered
  <2>5. CASE RunTurnReturns(t)
    BY <2>5 DEF RunTurnReturns
  <2>6. CASE Unwind(t)
    BY <2>6 DEF Unwind
  <2>7. CASE AgentRun(t) \/ FinalAnswer(t) \/ AgentRunReturns(t) \/ AgentRunFails(t)
    BY <2>7 DEF AgentRun, FinalAnswer, AgentRunReturns, AgentRunFails
  <2>8. CASE ConsumeSteer(t) \/ SteerLooks(t) \/ SteerQueues(t)
    BY <2>8 DEF ConsumeSteer, SteerLooks, SteerQueues
  <2>9. CASE CallerGivesUp(t)
    BY <2>9 DEF CallerGivesUp
  <2> QED BY <1>1, <2>1, <2>2, <2>3, <2>4, <2>5, <2>6, <2>7, <2>8, <2>9 DEF TurnStep
<1>2. ASSUME NEW k \in Cancels, CancelStep(k)
      PROVE OneTurn' /\ Gates' /\ SessionStable' /\ CancelRequestedIsCurrent'
  <2>1. CASE CancelCaptures(k)
    BY <2>1 DEF CancelCaptures
  <2>2. CASE CancelClears(k)
    BY <2>2 DEF CancelClears
  <2>3. CASE CancelFires(k)
    BY <2>3 DEF CancelFires
  <2> QED BY <1>2, <2>1, <2>2, <2>3 DEF CancelStep
<1>3. ASSUME NEW r \in Rotations, RotationStep(r)
      PROVE OneTurn' /\ Gates' /\ SessionStable' /\ CancelRequestedIsCurrent'
  <2>1. CASE BeginRotation(r)
    BY <2>1 DEF BeginRotation
  <2>2. CASE SwapSession(r)
    BY <2>2 DEF SwapSession
  <2>3. CASE EndRotation(r)
    BY <2>3 DEF EndRotation
  <2> QED BY <1>3, <2>1, <2>2, <2>3 DEF RotationStep
<1>4. CASE UNCHANGED vars
  BY <1>4 DEF vars
<1> QED BY <1>1, <1>2, <1>3, <1>4 DEF Next

\* The inductive invariant holds in every reachable state.
LEMMA IInvHolds == Spec => []IInv
<1>1. IInv /\ [Next]_vars => IInv'
  BY TypeStep, SafetyStep DEF IInv
<1> QED BY <1>1, InitIInv, PTL DEF Spec

\* The types, for every set of calls; a nil CancelFunc is never called.
THEOREM TypeCorrect == Spec => []TypeOK
<1>1. IInv => TypeOK
  BY DEF IInv
<1> QED BY <1>1, IInvHolds, PTL

\* runGuarded and RunTurn admit one turn body at a time, whatever the number of
\* frontends, and c.cancel is always the CancelFunc of that body.
THEOREM OneTurnAtATime == Spec => []OneTurn
<1>1. IInv => OneTurn
  BY DEF IInv
<1> QED BY <1>1, IInvHolds, PTL

\* beginRotation keeps the session of a running turn in place.
THEOREM SessionStableUnderTurn == Spec => []SessionStable
<1>1. IInv => SessionStable
  BY DEF IInv
<1> QED BY <1>1, IInvHolds, PTL

\* Rotations exclude each other, turn bodies and TurnDone deliveries.
THEOREM RotationsExclude == Spec => []RotationExclusive
<1>1. IInv => RotationExclusive
  BY DEF IInv, Gates, OneTurn, RotationExclusive, InBody
<1> QED BY <1>1, IInvHolds, PTL

\* CancelRequested is only ever true of the turn in flight.
THEOREM CancelRequestedCurrent == Spec => []CancelRequestedIsCurrent
<1>1. IInv => CancelRequestedIsCurrent
  BY DEF IInv
<1> QED BY <1>1, IInvHolds, PTL

\* Session, rotations and cancel requests are the turn's, whatever the number of calls.
THEOREM SessionsAreKept == Spec => []TurnsKeepTheirSession
  BY TypeCorrect, SessionStableUnderTurn, RotationsExclude, CancelRequestedCurrent, PTL DEF TurnsKeepTheirSession

(***************************************************************************)
(* Turns with prompts.                                                     *)
(***************************************************************************)
\* Before a turn is admitted it has no context, and no Cancel call knows it.
NotAdmitted == {"new", "queueing", "queued", "converting", "refused"}
ContextsAreFresh ==
    \A t \in Turns : phase[t] \in NotAdmitted =>
        /\ ctx[t] = "none"
        /\ \A k \in Cancels : captured[k] # t

\* A turn with a request under way is in its body: it waits for its requests.
BodyWaits == \A r \in Requests : ~Idle(r) => phase[TurnOf[r]] \in InBody

\* Only plans are approved and executed, and an open window has one that executes.
PlanPlaces ==
    /\ pc \in [Requests -> P!PCs]
    /\ \A r \in Requests : pc[r] \in {"approved", "executing"} => Kind[r] = "plan"
    /\ planAutoApprove => \E r \in Requests : pc[r] = "executing"

\* The inductive invariant of the composition.
SystemInv == IInv /\ ContextsAreFresh /\ BodyWaits /\ PlanPlaces

\* The constants of the prompts, as Approvals assumes them.
LEMMA RequestsHaveTurns ==
    /\ TurnOf \in [Requests -> Turns]
    /\ \A r \in Requests : Kind[r] \in P!Kinds
  BY PromptAssumption DEF PromptAssumption, P!ApprovalAssumption

\* A turn's step moves that turn alone, and takes no admitted turn back.
LEMMA StepsOfTurns ==
    ASSUME IInv, NEW t \in Turns, TurnStep(t)
    PROVE  /\ \A u \in Turns \ {t} : phase'[u] = phase[u]
           /\ phase'[t] \in NotAdmitted => phase[t] \in NotAdmitted /\ ctx'[t] = ctx[t]
           /\ \A u \in Turns : ctx'[u] # ctx[u] =>
                \/ ctx'[u] = "cancelled"
                \/ u = t /\ phase[t] \in NotAdmitted /\ ctx'[u] = "live"
           /\ \A u \in Turns \ {t} : ctx'[u] = ctx[u]
           /\ captured' = captured
<1> USE DEF IInv, TypeOK, Goto, NotAdmitted, InBody, admissionVars, turnVars, cancelVars, steerVars
<1>1. CASE RunGuarded(t) \/ RunTurn(t)
  BY <1>1 DEF RunGuarded, RunTurn, Admit, Refuse
<1>2. CASE FinishGuardedTurn(t) \/ TurnDoneDelivered(t) \/ RunTurnReturns(t) \/ Unwind(t)
  BY <1>2 DEF FinishGuardedTurn, TurnDoneDelivered, RunTurnReturns, Unwind
<1>3. CASE AgentRun(t) \/ ConsumeSteer(t) \/ FinalAnswer(t) \/ AgentRunReturns(t) \/ AgentRunFails(t)
  BY <1>3 DEF AgentRun, ConsumeSteer, FinalAnswer, AgentRunReturns, AgentRunFails
<1>4. CASE SteerLooks(t) \/ SteerQueues(t)
  BY <1>4 DEF SteerLooks, SteerQueues
<1>5. CASE CallerGivesUp(t)
  BY <1>5 DEF CallerGivesUp
<1> QED BY <1>1, <1>2, <1>3, <1>4, <1>5 DEF TurnStep

\* The composition starts in the invariant.
LEMMA InitSystemInv == SystemInit => SystemInv
<1> SUFFICES ASSUME SystemInit PROVE SystemInv
    OBVIOUS
<1>1. IInv
  BY InitIInv DEF SystemInit
<1>2. ContextsAreFresh
  <2>1. \A k \in Cancels : captured[k] = NoTurn
    BY DEF SystemInit, Init
  <2>2. NoTurn \notin Turns
    BY AdmissionAssumption DEF AdmissionAssumption
  <2> QED BY <2>1, <2>2 DEF SystemInit, Init, ContextsAreFresh
<1>3. BodyWaits /\ PlanPlaces
  BY DEF SystemInit, P!Init, BodyWaits, Idle, PlanPlaces, P!PCs
<1> QED BY <1>1, <1>2, <1>3 DEF SystemInv

\* Every step of the composition is a step of TurnAdmission or leaves its variables alone.
LEMMA StepAdmits == SystemNext => [Next]_vars
  BY DEF SystemNext, TurnMoves, BeginRequest, RequestStep, CancelMoves, CancelDrops,
         FrontendStep, Next, CancelStep

\* What a request's own step does to the places of the requests and to the plan window.
LEMMA StepsOfRequests ==
    ASSUME NEW r \in Requests, PlanPlaces, P!RequestStep(r)
    PROVE  /\ pc[r] # "done" /\ \A q \in Requests \ {r} : pc'[q] = pc[q]
           /\ PlanPlaces'
<1> USE DEF P!Goto, PlanPlaces, P!PCs
<1>1. CASE P!Begin(r)
  BY <1>1 DEF P!Begin, P!managerVars, P!ThroughGate
<1>2. CASE P!Screen(r) \/ P!Review(r) \/ P!Check(r)
  BY <1>2 DEF P!Screen, P!Review, P!Check, P!managerVars
<1>3. CASE P!Lock(r) \/ P!Recheck(r) \/ P!Register(r)
  BY <1>3 DEF P!Lock, P!Recheck, P!Register, P!managerVars
<1>4. CASE P!Receive(r) \/ P!WaitDone(r) \/ P!Unlock(r) \/ P!Grant(r)
  BY <1>4 DEF P!Receive, P!WaitDone, P!Unlock, P!Grant, P!managerVars
<1>5. CASE P!OpenPlanWindow(r)
  BY <1>5 DEF P!OpenPlanWindow
<1>6. CASE P!ClosePlanWindow(r)
  BY <1>6 DEF P!ClosePlanWindow
<1> QED BY <1>1, <1>2, <1>3, <1>4, <1>5, <1>6 DEF P!RequestStep

\* Answers and switches leave the places of the requests and the plan window alone.
LEMMA StepsOfFrontends ==
    ASSUME \/ \E a \in Answers : P!AnswerStep(a)
           \/ \E w \in Switches : P!SwitchStep(w)
    PROVE  UNCHANGED <<pc, planAutoApprove>>
  BY DEF P!AnswerStep, P!Resolve, P!Answer, P!SwitchStep, P!SetMode, P!ReadMode, P!SetGate,
         P!SendDrained, P!managerVars

\* Every step of the composition keeps its invariant.
LEMMA StepSystemInv == SystemInv /\ [SystemNext]_systemVars => SystemInv'
<1> SUFFICES ASSUME SystemInv, [SystemNext]_systemVars PROVE SystemInv'
    OBVIOUS
<1>1. IInv'
  <2>1. [Next]_vars
    BY StepAdmits DEF systemVars
  <2> QED BY <2>1, TypeStep, SafetyStep DEF SystemInv, IInv
<1>2. ASSUME NEW t \in Turns, TurnMoves(t) PROVE ContextsAreFresh' /\ BodyWaits' /\ PlanPlaces'
  <2>1. TurnStep(t) /\ UNCHANGED promptVars
    BY <1>2 DEF TurnMoves
  <2>2. /\ \A u \in Turns \ {t} : phase'[u] = phase[u] /\ ctx'[u] = ctx[u]
        /\ phase'[t] \in NotAdmitted => phase[t] \in NotAdmitted /\ ctx'[t] = ctx[t]
        /\ captured' = captured
    BY <2>1, StepsOfTurns DEF SystemInv
  <2>3. ContextsAreFresh'
    BY <2>2 DEF SystemInv, ContextsAreFresh
  <2>4. BodyWaits'
    <3> SUFFICES ASSUME NEW r \in Requests, ~Idle(r)' PROVE phase'[TurnOf[r]] \in InBody
      BY DEF BodyWaits
    <3>1. ~Idle(r) /\ TurnOf[r] \in Turns
      BY <2>1, RequestsHaveTurns DEF Idle, promptVars
    <3>2. phase[TurnOf[r]] \in InBody
      BY <3>1 DEF SystemInv, BodyWaits
    <3>3. CASE TurnOf[r] = t
      BY <1>2, <3>1, <3>2, <3>3 DEF TurnMoves, Finished
    <3>4. CASE TurnOf[r] # t
      BY <2>2, <3>1, <3>2, <3>4
    <3> QED BY <3>3, <3>4
  <2>5. PlanPlaces'
    BY <2>1 DEF SystemInv, PlanPlaces, promptVars
  <2> QED BY <2>3, <2>4, <2>5
<1>3. ASSUME NEW r \in Requests, BeginRequest(r) \/ RequestStep(r)
      PROVE ContextsAreFresh' /\ BodyWaits' /\ PlanPlaces'
  <2>1. P!RequestStep(r) /\ UNCHANGED vars
    BY <1>3 DEF BeginRequest, RequestStep, P!RequestStep
  <2>2. /\ pc[r] # "done" /\ \A q \in Requests \ {r} : pc'[q] = pc[q]
        /\ PlanPlaces'
    BY <2>1, StepsOfRequests DEF SystemInv
  <2>3. phase' = phase /\ ctx' = ctx /\ captured' = captured
    BY <2>1 DEF vars, turnVars, cancelVars
  <2>4. ContextsAreFresh'
    BY <2>3 DEF SystemInv, ContextsAreFresh
  <2>5. phase[TurnOf[r]] \in InBody
    BY <1>3, <2>2 DEF BeginRequest, RequestStep, SystemInv, BodyWaits, Idle, InBody
  <2>6. BodyWaits'
    BY <2>2, <2>3, <2>5 DEF SystemInv, BodyWaits, Idle
  <2> QED BY <2>2, <2>4, <2>6
<1>4. ASSUME NEW k \in Cancels, CancelMoves(k) \/ CancelDrops(k)
      PROVE ContextsAreFresh' /\ BodyWaits' /\ PlanPlaces'
  <2>1. UNCHANGED <<phase, pc, planAutoApprove>>
    BY <1>4 DEF CancelMoves, CancelDrops, CancelCaptures, CancelFires, CancelClears, promptVars,
                turnVars
  <2>2. ContextsAreFresh'
    <3> USE DEF SystemInv, ContextsAreFresh, NotAdmitted
    <3>1. CASE CancelCaptures(k)
      <4>1. cancel \in Turns => phase[cancel] \in InBody
        BY AdmissionAssumption DEF AdmissionAssumption, IInv, OneTurn, Gates
      <4> QED BY <2>1, <3>1, <4>1 DEF CancelCaptures, turnVars, InBody, IInv, TypeOK
    <3>2. CASE CancelClears(k)
      BY <3>2 DEF CancelClears, turnVars
    <3>3. CASE CancelFires(k)
      BY <3>3 DEF CancelFires, IInv, TypeOK
    <3> QED BY <1>4, <3>1, <3>2, <3>3 DEF CancelMoves, CancelDrops
  <2>3. BodyWaits' /\ PlanPlaces'
    BY <2>1 DEF SystemInv, BodyWaits, Idle, PlanPlaces
  <2> QED BY <2>2, <2>3
<1>5. ASSUME FrontendStep PROVE ContextsAreFresh' /\ BodyWaits' /\ PlanPlaces'
  <2>1. UNCHANGED <<phase, ctx, captured, pc, planAutoApprove>>
    <3>1. CASE \E r \in Rotations : RotationStep(r) /\ UNCHANGED promptVars
      BY <3>1 DEF RotationStep, BeginRotation, SwapSession, EndRotation, turnVars, cancelVars,
                  promptVars
    <3>2. CASE UNCHANGED vars /\ (\/ \E a \in Answers : P!AnswerStep(a)
                                  \/ \E w \in Switches : P!SwitchStep(w))
      BY <3>2, StepsOfFrontends DEF vars, turnVars, cancelVars
    <3> QED BY <1>5, <3>1, <3>2 DEF FrontendStep
  <2> QED BY <2>1 DEF SystemInv, ContextsAreFresh, BodyWaits, Idle, PlanPlaces
<1>6. ASSUME UNCHANGED systemVars PROVE ContextsAreFresh' /\ BodyWaits' /\ PlanPlaces'
  BY <1>6 DEF SystemInv, ContextsAreFresh, BodyWaits, Idle, PlanPlaces, systemVars, vars, turnVars,
              cancelVars, promptVars
<1>7. ContextsAreFresh' /\ BodyWaits' /\ PlanPlaces'
  BY <1>2, <1>3, <1>4, <1>5, <1>6 DEF SystemNext
<1> QED BY <1>1, <1>7 DEF SystemInv

\* The inductive invariant of the composition holds in every reachable state.
LEMMA SystemInvHolds == SystemSpec => []SystemInv
  BY InitSystemInv, StepSystemInv, PTL DEF SystemSpec

\* The turns of the composition behave as TurnAdmission says: what is proved of them alone
\* holds when their tool calls ask (runGuarded, RunTurn, Cancel).
THEOREM TurnsAreAdmitted == SystemSpec => Spec
<1>1. SystemInit => Init
  BY DEF SystemInit
<1>2. [SystemNext]_systemVars => [Next]_vars
  BY StepAdmits DEF systemVars
<1> QED BY <1>1, <1>2, PTL DEF SystemSpec, Spec

\* A step of the composition is a step of the prompts, whose contexts are their turns':
\* no turn's context is replaced by a live one, and Cancel's clearAll is theirs.
LEMMA StepPrompts == SystemInv /\ [SystemNext]_systemVars => [P!Next]_(P!vars)
<1> SUFFICES ASSUME SystemInv, [SystemNext]_systemVars PROVE [P!Next]_(P!vars)
    OBVIOUS
<1>1. ASSUME UNCHANGED promptVars, \A r \in Requests : ctx[TurnOf[r]] = "cancelled" => ctx'[TurnOf[r]] = "cancelled"
      PROVE [P!Next]_(P!vars)
  <2>1. Cancelled \subseteq Cancelled' /\ Cancelled' \subseteq Requests
    BY <1>1 DEF Cancelled
  <2>2. CASE Cancelled' = Cancelled
    BY <1>1, <2>2 DEF promptVars, P!vars, P!managerVars, P!decisionVars, P!answerVars, P!switchVars
  <2>3. CASE Cancelled' # Cancelled
    <3>1. ~(Cancelled' \subseteq Cancelled) /\ Cancelled' = Cancelled \cup Cancelled'
      BY <2>1, <2>3
    <3>2. P!ContextsCancelled
      BY <1>1, <2>1, <3>1 DEF promptVars, P!ContextsCancelled, P!managerVars, P!decisionVars,
                              P!answerVars, P!switchVars
    <3> QED BY <3>2 DEF P!Next
  <2> QED BY <2>2, <2>3
<1>2. ASSUME NEW t \in Turns, TurnMoves(t) PROVE [P!Next]_(P!vars)
  <2>1. TurnStep(t) /\ UNCHANGED promptVars
    BY <1>2 DEF TurnMoves
  <2>2. ASSUME NEW u \in Turns, ctx[u] = "cancelled" PROVE ctx'[u] = "cancelled"
    BY <2>1, <2>2, StepsOfTurns DEF SystemInv, ContextsAreFresh
  <2> QED BY <1>1, <2>1, <2>2, RequestsHaveTurns
<1>3. ASSUME NEW r \in Requests, BeginRequest(r) \/ RequestStep(r) PROVE [P!Next]_(P!vars)
  BY <1>3 DEF BeginRequest, RequestStep, P!Next, P!RequestStep
<1>4. ASSUME NEW k \in Cancels, CancelMoves(k) PROVE [P!Next]_(P!vars)
  <2>1. \A u \in Turns : ctx[u] = "cancelled" => ctx'[u] = "cancelled"
    BY <1>4 DEF CancelMoves, CancelCaptures, CancelFires, turnVars, SystemInv, IInv, TypeOK
  <2> QED BY <1>1, <1>4, <2>1, RequestsHaveTurns DEF CancelMoves
<1>5. ASSUME NEW k \in Cancels, CancelDrops(k) PROVE [P!Next]_(P!vars)
  <2>1. Cancelled' = Cancelled
    BY <1>5 DEF CancelDrops, CancelClears, turnVars, Cancelled
  <2>2. CASE approvals \cup asks # {}
    <3>1. P!ClearAll
      BY <1>5, <2>1, <2>2 DEF CancelDrops, P!ClearAll, P!decisionVars, P!answerVars, P!switchVars
    <3> QED BY <3>1 DEF P!Next
  <2>3. CASE approvals \cup asks = {}
    BY <1>5, <2>1, <2>3 DEF CancelDrops, P!vars, P!managerVars, P!decisionVars, P!answerVars,
                            P!switchVars
  <2> QED BY <2>2, <2>3
<1>6. ASSUME FrontendStep PROVE [P!Next]_(P!vars)
  <2>1. CASE \E r \in Rotations : RotationStep(r) /\ UNCHANGED promptVars
    <3>1. ctx' = ctx
      BY <2>1 DEF RotationStep, BeginRotation, SwapSession, EndRotation, turnVars
    <3> QED BY <1>1, <2>1, <3>1
  <2>2. CASE \/ \E a \in Answers : P!AnswerStep(a)
             \/ \E w \in Switches : P!SwitchStep(w)
    BY <2>2 DEF P!Next
  <2> QED BY <1>6, <2>1, <2>2 DEF FrontendStep
<1>7. CASE UNCHANGED systemVars
  BY <1>1, <1>7 DEF systemVars, vars, turnVars
<1> QED BY <1>2, <1>3, <1>4, <1>5, <1>6, <1>7 DEF SystemNext

\* The prompts of the composition behave as Approvals says, with the contexts of their turns
\* for its cancelled requests: what is proved of prompts alone holds within turns.
THEOREM PromptsAreApprovals == SystemSpec => P!Spec
<1>1. SystemInit => P!Init
  BY DEF SystemInit
<1>2. SystemInv /\ [SystemNext]_systemVars => [P!Next]_(P!vars)
  BY StepPrompts
<1> QED BY <1>1, <1>2, SystemInvHolds, PTL DEF SystemSpec, P!Spec

\* Approvals with what is proved of it.
A == INSTANCE ApprovalsProofs WITH cancelled <- Cancelled, Guardian <- FALSE, Timeouts <- FALSE

\* Both instances have the same steps ...
LEMMA SameSteps == [P!Next]_(P!vars) = [A!Next]_(A!vars)
  BY DEF P!Begin, A!Begin, P!Screen, A!Screen, P!Review, A!Review, P!Check, A!Check,
         P!Lock, A!Lock, P!Recheck, A!Recheck, P!Register, A!Register, P!Receive, A!Receive,
         P!WaitDone, A!WaitDone, P!Unlock, A!Unlock, P!Grant, A!Grant,
         P!OpenPlanWindow, A!OpenPlanWindow, P!ClosePlanWindow, A!ClosePlanWindow,
         P!RequestStep, A!RequestStep, P!Resolve, A!Resolve, P!Answer, A!Answer,
         P!AnswerStep, A!AnswerStep, P!SetMode, A!SetMode, P!ReadMode, A!ReadMode,
         P!SetGate, A!SetGate, P!SendDrained, A!SendDrained, P!SwitchStep, A!SwitchStep,
         P!ClearAll, A!ClearAll, P!ContextsCancelled, A!ContextsCancelled, P!Next, A!Next,
         P!vars, A!vars, P!managerVars, A!managerVars, P!decisionVars, A!decisionVars,
         P!answerVars, A!answerVars, P!switchVars, A!switchVars, P!Goto, A!Goto,
         P!Decide, A!Decide, P!PlanIdle, A!PlanIdle, P!ThroughGate, A!ThroughGate,
         P!PreApproved, A!PreApproved, P!PreApprovedBy, A!PreApprovedBy,
         P!GrantCovers, A!GrantCovers, P!Bypass, A!Bypass, P!FreshTool, A!FreshTool,
         P!FreshGrantable, A!FreshGrantable, P!FreshDecision, A!FreshDecision,
         P!Grants, A!Grants, P!Drained, A!Drained, P!AutoDrain, A!AutoDrain, P!Modes, A!Modes,
         P!Values, A!Values

\* ... and the same behaviours.
LEMMA SamePrompts == P!Spec => A!Spec
<1>1. P!Init => A!Init
  BY DEF P!Init, A!Init, P!Modes, A!Modes, P!Undecided, A!Undecided
<1>2. [P!Next]_(P!vars) => [A!Next]_(A!vars)
  BY SameSteps
<1> QED BY <1>1, <1>2, PTL DEF P!Spec, A!Spec

\* Within turns, whatever they do and whoever cancels them: prompts come one at a time and no
\* sender blocks, what only the user may decide the user decides, a denial is final, and auto
\* approval keeps ask rules.
THEOREM PromptsAreSafeInTurns ==
    SystemSpec => [](A!PromptsAreOrderly /\ A!UserDecides /\ A!DenialIsFinal) /\ A!AutoKeepsAskRules
<1>1. A!ApprovalAssumption
  BY PromptAssumption
     DEF PromptAssumption, P!ApprovalAssumption, A!ApprovalAssumption, P!Kinds, A!Kinds
<1>2. A!Spec => []A!PromptsAreOrderly
  BY <1>1, A!OrderIsKept
<1>3. A!Spec => []A!UserDecides
  BY <1>1, A!DecisionsAreTheUsers
<1>4. A!Spec => []A!DenialIsFinal
  BY <1>1, A!DenialsAreFinal
<1>5. A!Spec => A!AutoKeepsAskRules
  BY <1>1, A!AskRulesAreKept
<1> QED BY <1>2, <1>3, <1>4, <1>5, PromptsAreApprovals, SamePrompts, PTL

\* The approved-plan window is open only while its turn runs, and no turn's plan is decided
\* or executed while another turn may propose one (runApprovedPlan).
THEOREM PlansKeepToTheirTurns == SystemSpec => []PlansStayInTheirTurns
<1>1. SystemInv => PlanWindowInItsTurn
  BY RequestsHaveTurns
     DEF SystemInv, IInv, OneTurn, BodyWaits, Idle, PlanPlaces, PlanWindowInItsTurn
<1>2. SystemInv => PlansDoNotOverlap
  BY RequestsHaveTurns DEF SystemInv, IInv, OneTurn, BodyWaits, InBody, PlansDoNotOverlap
<1> QED BY <1>1, <1>2, SystemInvHolds, PTL DEF PlansStayInTheirTurns
=============================================================================
