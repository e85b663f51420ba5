-------------------------- MODULE ApprovalsProofs --------------------------
(***************************************************************************)
(* The safety of the prompts for any number of requests, answers and       *)
(* switches.  The invariant follows one request through its life: before   *)
(* it registers nobody can be about to answer it; afterwards at most one   *)
(* party has taken it out of the maps, and that party's value is the only  *)
(* one that ever reaches its channel.                                      *)
(***************************************************************************)
EXTENDS Approvals, TLAPS

\* Before the prompt was registered, and before anything was decided.
Early == {"new", "screen", "review", "check", "lock", "recheck", "register"}

\* The places a kind of request can be at, and what is undecided there.
Places ==
    \A r \in Requests :
        /\ pc[r] \in {"screen", "review"} => ThroughGate(r)
        /\ pc[r] \in {"check", "recheck", "unlockGrant", "grant"} => Kind[r] # "ask"
        /\ pc[r] \in {"approved", "executing"} => Kind[r] = "plan"
        /\ pc[r] \in Early \cup {"wait"} => outcome[r] = Undecided
        /\ promptMu = r <=> pc[r] \in Prompting

\* A pending prompt waits, is in the map of its kind, and nobody has resolved it.
Pending ==
    /\ \A r \in approvals \cup asks : pc[r] = "wait"
    /\ \A r \in approvals : Kind[r] # "ask"
    /\ \A r \in asks : Kind[r] = "ask"
    /\ \A r \in approvals \cup asks :
        /\ reply[r] = "empty"
        /\ \A a \in Answers : answerAt[a] # "new" => answered[a] # r
        /\ \A w \in Switches : r \notin drained[w]

\* Whoever took a prompt out of the maps is alone, and so is the value it sent.
Takers ==
    /\ \A a \in Answers : answerAt[a] # "new" => pc[answered[a]] \notin Early
    /\ \A w \in Switches : \A r \in drained[w] :
        /\ pc[r] \notin Early
        /\ Kind[r] \in {"writer", "ruled"}
        /\ reply[r] = "empty"
        /\ \A a \in Answers : answerAt[a] # "new" => answered[a] # r
        /\ \A x \in Switches : r \in drained[x] => x = w
    /\ \A a, b \in Answers :
        answerAt[a] # "new" /\ answerAt[b] # "new" /\ answered[a] = answered[b]
            => a = b
    /\ \A a \in Answers : answerAt[a] = "send" => reply[answered[a]] = "empty"
    /\ \A r \in Requests : reply[r] = "drain" =>
        /\ Kind[r] \in {"writer", "ruled"}
        /\ \A a \in Answers : answerAt[a] # "new" => answered[a] # r
    /\ \A r \in Requests : reply[r] \in Values =>
        \E a \in Answers : answerAt[a] = "done" /\ answered[a] = r
                            /\ answer[a] = reply[r]
    /\ \A r \in Requests : reply[r] # "empty" => pc[r] \notin Early

\* A grant about to be recorded is one the user gave.
Granting ==
    \A r \in Requests : pc[r] \in {"unlockGrant", "grant"} =>
        \E a \in Answers : answerAt[a] = "done" /\ answered[a] = r
                            /\ Grants(r, answer[a])

\* A switch that has not begun has drained nothing.
NewSwitches == \A w \in Switches : switchAt[w] = "new" => drained[w] = {}

\* One plan at a time is between its request and the end of its execution.
OnePlan ==
    \A p, q \in Requests :
        /\ Kind[p] = "plan" /\ Kind[q] = "plan"
        /\ pc[p] \notin {"new", "done"} /\ pc[q] \notin {"new", "done"}
        => p = q

\* The inductive invariant.
IInv ==
    /\ TypeOK /\ Places /\ Pending /\ Takers /\ Granting /\ NewSwitches /\ OnePlan
    /\ RightAuthority /\ DenialIsFinal /\ GrantsComeFromTheUser /\ PlanWindow

\* The initial state satisfies the inductive invariant.
LEMMA InitIInv == Init => IInv
<1> SUFFICES ASSUME Init PROVE IInv
    OBVIOUS
<1> USE ApprovalAssumption DEF ApprovalAssumption, Init, Early, Prompting
<1>1. TypeOK
  BY DEF TypeOK, Modes, PCs, Values, Undecided
<1>2. Places /\ Pending /\ Granting /\ NewSwitches /\ OnePlan
  BY DEF Places, Pending, Granting, NewSwitches, OnePlan, Undecided
<1>3. Takers
  BY DEF Takers, Values
<1>4. RightAuthority /\ DenialIsFinal /\ GrantsComeFromTheUser /\ PlanWindow
  BY DEF RightAuthority, DenialIsFinal, GrantsComeFromTheUser, PlanWindow, Undecided
<1> QED BY <1>1, <1>2, <1>3, <1>4 DEF IInv

\* Every step of a request keeps the types.
LEMMA TypeRequest == ASSUME TypeOK, NEW r \in Requests, RequestStep(r) PROVE TypeOK'
<1> USE ApprovalAssumption
    DEF ApprovalAssumption, TypeOK, Modes, PCs, Values, Undecided, managerVars,
        decisionVars, answerVars, switchVars, Goto, Decide, Scopes
<1>1. CASE Begin(r)
  BY <1>1 DEF Begin
<1>2. CASE Screen(r)
  BY <1>2 DEF Screen
<1>10. CASE Review(r)
  BY <1>10 DEF Review
<1>3. CASE Check(r) \/ Recheck(r)
  BY <1>3 DEF Check, Recheck, PreApprovedBy
<1>4. CASE Lock(r) \/ Unlock(r)
  BY <1>4 DEF Lock, Unlock
<1>5. CASE Register(r)
  BY <1>5 DEF Register
<1>6. CASE Receive(r)
  BY <1>6 DEF Receive
<1>7. CASE WaitDone(r)
  BY <1>7 DEF WaitDone
<1>8. CASE Grant(r)
  BY <1>8 DEF Grant
<1>9. CASE OpenPlanWindow(r)
  BY <1>9 DEF OpenPlanWindow
<1>11. CASE ClosePlanWindow(r)
  BY <1>11 DEF ClosePlanWindow
<1> QED BY <1>1, <1>2, <1>3, <1>4, <1>5, <1>6, <1>7, <1>8, <1>9, <1>10, <1>11
       DEF RequestStep

\* So does every step of a frontend or of the cancel path.
LEMMA TypeOther ==
    ASSUME TypeOK,
           \/ \E a \in Answers : AnswerStep(a)
           \/ \E w \in Switches : SwitchStep(w)
           \/ ClearAll \/ ContextsCancelled \/ UNCHANGED vars
    PROVE  TypeOK'
<1> USE ApprovalAssumption
    DEF ApprovalAssumption, TypeOK, Modes, PCs, Values, Undecided, managerVars, decisionVars,
        answerVars, switchVars
<1>1. ASSUME NEW a \in Answers, Resolve(a) PROVE TypeOK'
  BY <1>1 DEF Resolve
<1>2. ASSUME NEW a \in Answers, Answer(a) PROVE TypeOK'
  BY <1>2 DEF Answer
<1>3. ASSUME NEW w \in Switches, SetMode(w) PROVE TypeOK'
  BY <1>3 DEF SetMode, Drained
<1>4. ASSUME NEW w \in Switches, ReadMode(w) PROVE TypeOK'
  BY <1>4 DEF ReadMode
<1>5. ASSUME NEW w \in Switches, SetGate(w) PROVE TypeOK'
  BY <1>5 DEF SetGate
<1>6. ASSUME NEW w \in Switches, SendDrained(w) PROVE TypeOK'
  BY <1>6 DEF SendDrained
<1>7. CASE ClearAll
  BY <1>7 DEF ClearAll
<1>8. CASE ContextsCancelled
  BY <1>8 DEF ContextsCancelled
<1>9. CASE UNCHANGED vars
  BY <1>9 DEF vars
<1> QED BY <1>1, <1>2, <1>3, <1>4, <1>5, <1>6, <1>7, <1>8, <1>9 DEF AnswerStep, SwitchStep

\* Steps of the environment that move no request.
Elsewhere ==
    \/ \E a \in Answers : AnswerStep(a)
    \/ \E w \in Switches : SwitchStep(w)
    \/ ClearAll \/ ContextsCancelled \/ UNCHANGED vars

\* They leave every request where it is.
LEMMA ElsewhereStill ==
    Elsewhere => UNCHANGED <<pc, outcome, via, promptMu, granted, trusted, planAutoApprove>>
BY DEF Elsewhere, AnswerStep, SwitchStep, Resolve, Answer, SetMode, ReadMode, SetGate,
       SendDrained, ClearAll, ContextsCancelled, vars, managerVars, decisionVars,
        answerVars, switchVars

\* Requests keep to the places of their kind, and promptMu to one of them.
LEMMA PlacesStep == IInv /\ [Next]_vars => Places'
<1> SUFFICES ASSUME IInv, [Next]_vars PROVE Places'
    OBVIOUS
<1> USE ApprovalAssumption
    DEF ApprovalAssumption, IInv, TypeOK, Places, Early, Prompting, Goto, Decide, Undecided
<1>1. ASSUME NEW r \in Requests, RequestStep(r) PROVE Places'
  <2>1. Begin(r) => Places'
    BY DEF Begin, ThroughGate
  <2>2. Screen(r) => Places'
    BY DEF Screen, ThroughGate, decisionVars
  <2>3. Review(r) => Places'
    BY DEF Review, ThroughGate
  <2>4. Check(r) => Places'
    BY DEF Check
  <2>5. Lock(r) => Places'
    BY DEF Lock, decisionVars
  <2>6. Recheck(r) => Places'
    BY DEF Recheck
  <2>7. Register(r) => Places'
    BY DEF Register, decisionVars
  <2>8. Receive(r) => Places'
    BY DEF Receive
  <2>9. WaitDone(r) => Places'
    BY DEF WaitDone
  <2>10. Unlock(r) => Places'
    BY DEF Unlock, decisionVars
  <2>11. Grant(r) => Places'
    BY DEF Grant, decisionVars
  <2>12. OpenPlanWindow(r) => Places'
    BY DEF OpenPlanWindow, decisionVars
  <2>13. ClosePlanWindow(r) => Places'
    BY DEF ClosePlanWindow, decisionVars
  <2> QED BY <1>1, <2>1, <2>2, <2>3, <2>4, <2>5, <2>6, <2>7, <2>8, <2>9, <2>10, <2>11,
             <2>12, <2>13 DEF RequestStep
<1>2. CASE Elsewhere
  BY <1>2, ElsewhereStill
<1> QED BY <1>1, <1>2 DEF Next, Elsewhere

\* Pending prompts stay unresolved and stay where they wait.
LEMMA PendingStep == IInv /\ [Next]_vars => Pending'
<1> SUFFICES ASSUME IInv, [Next]_vars PROVE Pending'
    OBVIOUS
<1> USE ApprovalAssumption
    DEF ApprovalAssumption, IInv, TypeOK, Places, Pending, Early, Goto, managerVars, decisionVars,
        answerVars, switchVars
<1>1. ASSUME NEW r \in Requests, RequestStep(r) PROVE Pending'
  <2>1. Begin(r) \/ Screen(r) \/ Review(r) \/ Check(r) \/ Lock(r) \/ Recheck(r)
            \/ Unlock(r) \/ Grant(r) \/ OpenPlanWindow(r) \/ ClosePlanWindow(r) => Pending'
    BY DEF Begin, Screen, Review, Check, Lock, Recheck, Unlock, Grant, OpenPlanWindow,
           ClosePlanWindow
  <2>2. Register(r) => Pending'
    BY DEF Register, Takers, Values
  <2>3. Receive(r) => Pending'
    BY DEF Receive
  <2>4. WaitDone(r) => Pending'
    BY DEF WaitDone
  <2> QED BY <1>1, <2>1, <2>2, <2>3, <2>4 DEF RequestStep
<1>2. ASSUME NEW a \in Answers, Resolve(a) PROVE Pending'
  BY <1>2 DEF Resolve
<1>3. ASSUME NEW a \in Answers, Answer(a) PROVE Pending'
  BY <1>3 DEF Answer
<1>4. ASSUME NEW w \in Switches, SetMode(w) PROVE Pending'
  <2>1. PICK m \in Modes :
            /\ approvals' = approvals \ Drained(m)
            /\ drained' = [drained EXCEPT ![w] = Drained(m)]
    BY <1>4 DEF SetMode
  <2>2. Drained(m) \subseteq approvals
    BY DEF Drained
  <2> QED BY <1>4, <2>1, <2>2 DEF SetMode
<1>5. ASSUME NEW w \in Switches, ReadMode(w) \/ SetGate(w) PROVE Pending'
  BY <1>5 DEF ReadMode, SetGate
<1>6. ASSUME NEW w \in Switches, SendDrained(w) PROVE Pending'
  BY <1>6 DEF SendDrained
<1>7. CASE ClearAll \/ ContextsCancelled \/ UNCHANGED vars
  BY <1>7 DEF ClearAll, ContextsCancelled, vars
<1> QED BY <1>1, <1>2, <1>3, <1>4, <1>5, <1>6, <1>7 DEF Next, AnswerStep, SwitchStep

\* Whoever took a prompt stays alone, and so does the value it sends.
LEMMA TakersStep == IInv /\ [Next]_vars => Takers'
<1> SUFFICES ASSUME IInv, [Next]_vars PROVE Takers'
    OBVIOUS
<1> USE ApprovalAssumption
    DEF ApprovalAssumption, IInv, TypeOK, Takers, Early, Goto, managerVars, decisionVars,
        answerVars, switchVars, Values
<1>1. ASSUME NEW r \in Requests, RequestStep(r) PROVE Takers'
  <2>1. Begin(r) \/ Screen(r) \/ Review(r) \/ Check(r) => Takers'
    BY DEF Begin, Screen, Review, Check
  <2>2. Lock(r) \/ Recheck(r) \/ Register(r) => Takers'
    BY DEF Lock, Recheck, Register
  <2>3. Unlock(r) \/ Grant(r) \/ OpenPlanWindow(r) \/ ClosePlanWindow(r) => Takers'
    BY DEF Unlock, Grant, OpenPlanWindow, ClosePlanWindow
  <2>4. Receive(r) => Takers'
    BY DEF Receive
  <2>5. WaitDone(r) => Takers'
    BY DEF WaitDone
  <2> QED BY <1>1, <2>1, <2>2, <2>3, <2>4, <2>5 DEF RequestStep
<1>2. ASSUME NEW a \in Answers, Resolve(a) PROVE Takers'
  <2>1. PICK r \in approvals \cup asks :
            /\ answered' = [answered EXCEPT ![a] = r]
            /\ \E v \in Values : answer' = [answer EXCEPT ![a] = v]
    BY <1>2 DEF Resolve
  <2>2. reply[r] = "empty" /\ pc[r] = "wait"
    BY DEF Pending
  <2>3. \A b \in Answers : answerAt[b] # "new" => answered[b] # r
    BY DEF Pending
  <2>4. \A w \in Switches : r \notin drained[w]
    BY DEF Pending
  <2> QED BY <1>2, <2>1, <2>2, <2>3, <2>4 DEF Resolve
<1>3. ASSUME NEW a \in Answers, Answer(a) PROVE Takers'
  BY <1>3 DEF Answer
<1>4. ASSUME NEW w \in Switches, SetMode(w) PROVE Takers'
  <2>1. PICK m \in Modes : drained' = [drained EXCEPT ![w] = Drained(m)]
    BY <1>4 DEF SetMode
  <2>2. drained[w] = {}
    BY <1>4 DEF SetMode, NewSwitches
  <2>3. \A r \in Drained(m) : r \in approvals /\ Kind[r] \in {"writer", "ruled"}
    BY DEF Drained, Pending, FreshDecision, FreshTool, Kinds
  <2>4. \A r \in Drained(m) :
            /\ pc[r] = "wait" /\ reply[r] = "empty"
            /\ \A a \in Answers : answerAt[a] # "new" => answered[a] # r
            /\ \A x \in Switches : r \notin drained[x]
    BY <2>3 DEF Pending
  <2> QED BY <1>4, <2>1, <2>3, <2>4 DEF SetMode
<1>5. ASSUME NEW w \in Switches, ReadMode(w) \/ SetGate(w) PROVE Takers'
  BY <1>5 DEF ReadMode, SetGate
<1>6. ASSUME NEW w \in Switches, SendDrained(w) PROVE Takers'
  BY <1>6 DEF SendDrained
<1>7. CASE ClearAll \/ ContextsCancelled \/ UNCHANGED vars
  BY <1>7 DEF ClearAll, ContextsCancelled, vars
<1> QED BY <1>1, <1>2, <1>3, <1>4, <1>5, <1>6, <1>7 DEF Next, AnswerStep, SwitchStep

\* Only SetMode drains, and it begins the switch.
LEMMA NewSwitchesStep == IInv /\ [Next]_vars => NewSwitches'
<1> SUFFICES ASSUME IInv, [Next]_vars PROVE NewSwitches'
    OBVIOUS
<1> USE DEF IInv, TypeOK, NewSwitches, switchVars
<1>1. ASSUME NEW w \in Switches, SwitchStep(w) PROVE NewSwitches'
  BY <1>1 DEF SwitchStep, SetMode, ReadMode, SetGate, SendDrained
<1>2. CASE UNCHANGED switchVars
  BY <1>2
<1>3. ASSUME NEW r \in Requests, RequestStep(r) PROVE UNCHANGED switchVars
  BY <1>3 DEF RequestStep, Begin, Screen, Review, Check, Lock, Recheck, Register, Receive,
              WaitDone, Unlock, Grant, OpenPlanWindow, ClosePlanWindow
<1>4. ASSUME NEW a \in Answers, AnswerStep(a) PROVE UNCHANGED switchVars
  BY <1>4 DEF AnswerStep, Resolve, Answer
<1> QED BY <1>1, <1>2, <1>3, <1>4 DEF Next, ClearAll, ContextsCancelled, vars

\* A grant under way keeps its answer.
LEMMA GrantingStep == IInv /\ [Next]_vars => Granting'
<1> SUFFICES ASSUME IInv, [Next]_vars PROVE Granting'
    OBVIOUS
<1> USE ApprovalAssumption
    DEF ApprovalAssumption, IInv, TypeOK, Granting, Goto, managerVars, decisionVars,
        answerVars, switchVars
<1>1. ASSUME NEW r \in Requests, RequestStep(r) PROVE Granting'
  <2>1. Begin(r) \/ Screen(r) \/ Review(r) \/ Check(r) => Granting'
    BY DEF Begin, Screen, Review, Check
  <2>2. Lock(r) \/ Recheck(r) \/ Register(r) \/ WaitDone(r) => Granting'
    BY DEF Lock, Recheck, Register, WaitDone
  <2>3. Unlock(r) \/ Grant(r) \/ OpenPlanWindow(r) \/ ClosePlanWindow(r) => Granting'
    BY DEF Unlock, Grant, OpenPlanWindow, ClosePlanWindow
  <2>4. Receive(r) => Granting'
    <3>1. CASE reply[r] \in Values
      BY <3>1 DEF Receive, Takers
    <3>2. CASE reply[r] = "drain"
      BY <3>2 DEF Receive, Grants
    <3> QED BY <3>1, <3>2 DEF Receive
  <2> QED BY <1>1, <2>1, <2>2, <2>3, <2>4 DEF RequestStep
<1>2. ASSUME NEW a \in Answers, AnswerStep(a) PROVE Granting'
  BY <1>2 DEF AnswerStep, Resolve, Answer
<1>3. ASSUME NEW w \in Switches, SwitchStep(w) PROVE Granting'
  BY <1>3 DEF SwitchStep, SetMode, ReadMode, SetGate, SendDrained
<1>4. CASE ClearAll \/ ContextsCancelled \/ UNCHANGED vars
  BY <1>4 DEF ClearAll, ContextsCancelled, vars
<1> QED BY <1>1, <1>2, <1>3, <1>4 DEF Next

\* Plans do not overlap, and the window belongs to the one that executes.
LEMMA PlanStep == IInv /\ [Next]_vars => OnePlan' /\ PlanWindow'
<1> SUFFICES ASSUME IInv, [Next]_vars PROVE OnePlan' /\ PlanWindow'
    OBVIOUS
<1> USE ApprovalAssumption
    DEF ApprovalAssumption, IInv, TypeOK, Places, OnePlan, PlanWindow, Goto, managerVars,
        decisionVars
<1>1. ASSUME NEW r \in Requests, RequestStep(r) PROVE OnePlan' /\ PlanWindow'
  <2>1. Begin(r) => OnePlan' /\ PlanWindow'
    BY DEF Begin, PlanIdle
  <2>2. Screen(r) \/ Review(r) \/ Check(r) => OnePlan' /\ PlanWindow'
    BY DEF Screen, Review, Check
  <2>3. Lock(r) \/ Recheck(r) \/ Register(r) \/ WaitDone(r) => OnePlan' /\ PlanWindow'
    BY DEF Lock, Recheck, Register, WaitDone
  <2>4. Receive(r) \/ Unlock(r) \/ Grant(r) => OnePlan' /\ PlanWindow'
    BY DEF Receive, Unlock, Grant
  <2>5. OpenPlanWindow(r) => OnePlan' /\ PlanWindow'
    BY DEF OpenPlanWindow
  <2>6. ClosePlanWindow(r) => OnePlan' /\ PlanWindow'
    BY DEF ClosePlanWindow
  <2> QED BY <1>1, <2>1, <2>2, <2>3, <2>4, <2>5, <2>6 DEF RequestStep
<1>2. CASE Elsewhere
  BY <1>2, ElsewhereStill
<1> QED BY <1>1, <1>2 DEF Next, Elsewhere

\* Every allow is of an authority the kind of request admits.
LEMMA AuthorityStep == IInv /\ [Next]_vars => RightAuthority'
<1> SUFFICES ASSUME IInv, [Next]_vars PROVE RightAuthority'
    OBVIOUS
<1> USE ApprovalAssumption
    DEF ApprovalAssumption, IInv, TypeOK, Places, RightAuthority, DecidedBy, Decide,
        decisionVars, Kinds
<1>1. ASSUME NEW r \in Requests, RequestStep(r) PROVE RightAuthority'
  <2>1. Begin(r) => RightAuthority'
    BY DEF Begin
  <2>2. Screen(r) \/ Lock(r) \/ Register(r) => RightAuthority'
    BY DEF Screen, Lock, Register
  <2>3. Review(r) => RightAuthority'
    BY DEF Review, FreshTool, ThroughGate
  <2>4. PreApproved(r) /\ Kind[r] # "ask" => PreApprovedBy(r) \in DecidedBy(r)
    BY DEF PreApproved, PreApprovedBy, Bypass, GrantCovers, FreshTool, FreshGrantable,
           FreshDecision
  <2>5. Check(r) \/ Recheck(r) => RightAuthority'
    BY <2>4 DEF Check, Recheck
  <2>6. Receive(r) => RightAuthority'
    BY DEF Receive, Takers
  <2>7. WaitDone(r) => RightAuthority'
    BY DEF WaitDone
  <2>8. Unlock(r) \/ Grant(r) \/ OpenPlanWindow(r) \/ ClosePlanWindow(r) => RightAuthority'
    BY DEF Unlock, Grant, OpenPlanWindow, ClosePlanWindow
  <2> QED BY <1>1, <2>1, <2>2, <2>3, <2>5, <2>6, <2>7, <2>8 DEF RequestStep
<1>2. CASE Elsewhere
  BY <1>2, ElsewhereStill
<1> QED BY <1>1, <1>2 DEF Next, Elsewhere

\* What the user denied stays denied.
LEMMA DenialStep == IInv /\ [Next]_vars => DenialIsFinal'
<1> SUFFICES ASSUME IInv, [Next]_vars PROVE DenialIsFinal'
    OBVIOUS
<1> USE ApprovalAssumption
    DEF ApprovalAssumption, IInv, TypeOK, Takers, DenialIsFinal, Decide, decisionVars,
        answerVars, Early
<1>1. ASSUME NEW r \in Requests, RequestStep(r) PROVE DenialIsFinal'
  <2>1. Begin(r) \/ Screen(r) \/ Review(r) \/ Check(r) => DenialIsFinal'
    BY DEF Begin, Screen, Review, Check
  <2>2. Lock(r) \/ Recheck(r) \/ Register(r) \/ WaitDone(r) => DenialIsFinal'
    BY DEF Lock, Recheck, Register, WaitDone
  <2>3. Unlock(r) \/ Grant(r) \/ OpenPlanWindow(r) \/ ClosePlanWindow(r) => DenialIsFinal'
    BY DEF Unlock, Grant, OpenPlanWindow, ClosePlanWindow
  <2>4. Receive(r) => DenialIsFinal'
    <3>1. CASE reply[r] \in Values
      BY <3>1 DEF Receive
    <3>2. CASE reply[r] = "drain"
      BY <3>2 DEF Receive
    <3> QED BY <3>1, <3>2 DEF Receive
  <2> QED BY <1>1, <2>1, <2>2, <2>3, <2>4 DEF RequestStep
<1>2. ASSUME NEW a \in Answers, Resolve(a) PROVE DenialIsFinal'
  <2>1. \A r \in approvals \cup asks : outcome[r] = Undecided
    BY DEF Pending, Places
  <2> QED BY <1>2, <2>1 DEF Resolve, Undecided
<1>3. ASSUME NEW a \in Answers, Answer(a) PROVE DenialIsFinal'
  BY <1>3 DEF Answer
<1>4. ASSUME NEW w \in Switches, SwitchStep(w) PROVE DenialIsFinal'
  BY <1>4 DEF SwitchStep, SetMode, ReadMode, SetGate, SendDrained
<1>5. CASE ClearAll \/ ContextsCancelled \/ UNCHANGED vars
  BY <1>5 DEF ClearAll, ContextsCancelled, vars
<1> QED BY <1>1, <1>2, <1>3, <1>4, <1>5 DEF Next, AnswerStep

\* A grant is recorded only after the user's answer has been received.
LEMMA GrantsStep == IInv /\ [Next]_vars => GrantsComeFromTheUser'
<1> SUFFICES ASSUME IInv, [Next]_vars PROVE GrantsComeFromTheUser'
    OBVIOUS
<1> USE ApprovalAssumption
    DEF ApprovalAssumption, IInv, TypeOK, GrantsComeFromTheUser, managerVars, answerVars, Scopes
<1>1. ASSUME NEW r \in Requests, RequestStep(r) PROVE GrantsComeFromTheUser'
  <2>1. Begin(r) \/ Screen(r) \/ Review(r) \/ Check(r) => GrantsComeFromTheUser'
    BY DEF Begin, Screen, Review, Check
  <2>2. Lock(r) \/ Recheck(r) \/ Register(r) \/ WaitDone(r) \/ Receive(r) \/ Unlock(r)
            => GrantsComeFromTheUser'
    BY DEF Lock, Recheck, Register, WaitDone, Receive, Unlock
  <2>3. Grant(r) => GrantsComeFromTheUser'
    <3> SUFFICES ASSUME Grant(r) PROVE GrantsComeFromTheUser'
        OBVIOUS
    <3>1. PICK a \in Answers : answerAt[a] = "done" /\ answered[a] = r /\ Grants(r, answer[a])
      BY DEF Grant, Granting
    <3>2. Kind[r] \in Kinds \ {"ask"}
      BY DEF Grant, Places
    <3>3. CASE Kind[r] = "bashTrust"
      BY <3>1, <3>3 DEF Grant, Grants
    <3>4. CASE Kind[r] # "bashTrust"
      <4>1. answer[a] = "session" /\ Kind[r] \notin {"plan", "memory", "ask", "bashTrust"}
        BY <3>1, <3>2, <3>4 DEF Grants, FreshTool, FreshGrantable
      <4> QED BY <3>1, <3>4, <4>1 DEF Grant
    <3> QED BY <3>3, <3>4
  <2>4. OpenPlanWindow(r) \/ ClosePlanWindow(r) => GrantsComeFromTheUser'
    BY DEF OpenPlanWindow, ClosePlanWindow
  <2> QED BY <1>1, <2>1, <2>2, <2>3, <2>4 DEF RequestStep
<1>2. ASSUME NEW a \in Answers, AnswerStep(a) PROVE GrantsComeFromTheUser'
  BY <1>2 DEF AnswerStep, Resolve, Answer
<1>3. ASSUME NEW w \in Switches, SwitchStep(w) PROVE GrantsComeFromTheUser'
  BY <1>3 DEF SwitchStep, SetMode, ReadMode, SetGate, SendDrained
<1>4. CASE ClearAll \/ ContextsCancelled \/ UNCHANGED vars
  BY <1>4 DEF ClearAll, ContextsCancelled, vars
<1> QED BY <1>1, <1>2, <1>3, <1>4 DEF Next

\* The inductive invariant holds in every reachable state.
LEMMA IInvHolds == Spec => []IInv
<1>1. IInv /\ [Next]_vars => TypeOK'
  BY TypeRequest, TypeOther DEF Next, IInv
<1>2. IInv /\ [Next]_vars => IInv'
  BY <1>1, PlacesStep, PendingStep, TakersStep, GrantingStep, NewSwitchesStep, PlanStep,
     AuthorityStep, DenialStep, GrantsStep DEF IInv
<1> QED BY <1>2, InitIInv, PTL DEF Spec

\* The types, for any number of requests, answers and switches.
THEOREM TypeCorrect == Spec => []TypeOK
<1>1. IInv => TypeOK
  BY DEF IInv
<1> QED BY <1>1, IInvHolds, PTL

\* At most one user decision is in flight, and it is the one promptMu is held for.
THEOREM OnePromptAtATime == Spec => []OnePrompt
<1>1. IInv => OnePrompt
  BY DEF IInv, TypeOK, Pending, Places, Prompting, OnePrompt
<1> QED BY <1>1, IInvHolds, PTL

\* No posture, plan window or guardian ever answers what only the user may answer.
THEOREM AuthorityIsRight == Spec => []RightAuthority
<1>1. IInv => RightAuthority
  BY DEF IInv
<1> QED BY <1>1, IInvHolds, PTL

\* No send to a reply channel ever blocks its frontend.
THEOREM SendsDoNotBlock == Spec => []SendsNeverBlock
<1>1. IInv => SendsNeverBlock
  <2> SUFFICES ASSUME IInv, NEW r \in Requests
               PROVE  /\ Senders(r) # {} => reply[r] = "empty" /\ r \notin approvals \cup asks
                      /\ \A x, y \in Senders(r) : x = y
      BY DEF SendsNeverBlock
  <2>1. Senders(r) # {} => reply[r] = "empty" /\ r \notin approvals \cup asks
    BY DEF IInv, Takers, Pending, Senders
  <2>2. \A x, y \in Senders(r) : x = y
    BY DEF IInv, Takers, Senders
  <2> QED BY <2>1, <2>2
<1> QED BY <1>1, IInvHolds, PTL

\* A denial is never overtaken by a drain or a second answer.
THEOREM DenialsAreFinal == Spec => []DenialIsFinal
<1>1. IInv => DenialIsFinal
  BY DEF IInv
<1> QED BY <1>1, IInvHolds, PTL

\* No session grant appears without an answer of the user that says so.
THEOREM GrantsFromTheUser == Spec => []GrantsComeFromTheUser
<1>1. IInv => GrantsComeFromTheUser
  BY DEF IInv
<1> QED BY <1>1, IInvHolds, PTL

\* The auto-approval window never outlives the plan it was opened for.
THEOREM PlanWindowCloses == Spec => []PlanWindow
<1>1. IInv => PlanWindow
  BY DEF IInv
<1> QED BY <1>1, IInvHolds, PTL

\* However many requests, answers and switches there are, prompts are orderly.
THEOREM OrderIsKept == Spec => []PromptsAreOrderly
  BY TypeCorrect, OnePromptAtATime, SendsDoNotBlock, PlanWindowCloses, PTL DEF PromptsAreOrderly

\* What only the user may decide the user decided, then or earlier.
THEOREM DecisionsAreTheUsers == Spec => []UserDecides
  BY AuthorityIsRight, GrantsFromTheUser, PTL DEF UserDecides


\* Only a switch drains, and on the way to "auto" it drains writers alone: the
\* prompts an ask rule raised wait for the user, whatever else is under way.
THEOREM AskRulesAreKept == Spec => AutoKeepsAskRules
<1>1. ASSUME IInv, [Next]_vars
      PROVE  [\A r \in Requests, w \in Switches :
                r \in drained'[w] /\ r \notin drained[w] =>
                    mode' = "yolo" \/ (mode' = "auto" /\ Kind[r] = "writer")]_vars
  <2> SUFFICES ASSUME NEW r \in Requests, NEW w \in Switches, r \in drained'[w], r \notin drained[w]
               PROVE  mode' = "yolo" \/ (mode' = "auto" /\ Kind[r] = "writer")
    OBVIOUS
  <2>1. PICK x \in Switches : SwitchStep(x)
    <3>1. CASE \E q \in Requests : RequestStep(q)
      BY <3>1 DEF RequestStep, Begin, Screen, Review, Check, Lock, Recheck, Register, Receive, WaitDone,
         Unlock, Grant, OpenPlanWindow, ClosePlanWindow, Goto, Decide, switchVars
    <3>2. CASE (\E a \in Answers : AnswerStep(a)) \/ ClearAll \/ ContextsCancelled \/ UNCHANGED vars
      BY <3>2 DEF AnswerStep, Resolve, Answer, ClearAll, ContextsCancelled, switchVars, vars
    <3>3. QED
      BY <1>1, <3>1, <3>2 DEF Next
  <2>2. drained \in [Switches -> SUBSET Requests]
    BY <1>1 DEF IInv, TypeOK
  <2>3. SetMode(x) /\ w = x
    BY <2>1, <2>2 DEF SwitchStep, SetMode, ReadMode, SetGate, SendDrained
  <2>4. r \in Drained(mode')
    BY <2>2, <2>3 DEF SetMode
  <2>5. QED
    BY <2>4 DEF Drained, AutoDrain
<1>2. QED
  BY <1>1, IInvHolds, PTL DEF Spec, AutoKeepsAskRules
=============================================================================
