----------------------------- MODULE Approvals -----------------------------
(***************************************************************************)
(* Approval and question prompts of one Controller: control.approvalManager *)
(* and the paths of the Controller that drive it.                          *)
(*                                                                         *)
(* A request is one tool call, plan or question that needs a decision.  It *)
(* runs on the goroutine of its tool call, so requests interleave with one *)
(* another, with the frontends that answer them (Approve, AnswerQuestion), *)
(* with switches of the approval posture (SetToolApprovalMode), with the   *)
(* Cancel path (clearAll) and with the cancellation of their contexts.     *)
(* Every critical section under approvalManager.mu is one action; promptMu *)
(* is held across several.                                                 *)
(*                                                                         *)
(* Requests, answers and switches are one-shot; ids are the requests.      *)
(***************************************************************************)
EXTENDS Naturals, FiniteSets

CONSTANTS
    Requests,   \* decisions asked for
    Kind,       \* [Requests -> Kinds]
    Scope,      \* the session-grant rule each request falls under
    Answers,    \* Approve / AnswerQuestion calls of the frontends
    Switches,   \* SetToolApprovalMode calls
    Guardian,   \* TRUE when a guardian session reviews tool calls first
    Timeouts,   \* TRUE when approvalTimeout is set (bots)
    Free        \* promptMu is not held

(***************************************************************************)
(* What the code tells apart about a request.                              *)
(*   writer    a tool the policy answers through its writer fallback       *)
(*   ruled     a tool with an explicit Ask rule                            *)
(*   memory    remember / forget: ask rules of the interactive gate        *)
(*   plan      exit_plan_mode                                              *)
(*   escape    sandbox_escape and config_write                             *)
(*   mcpTrust  trust an MCP tool as read-only while planning               *)
(*   bashTrust trust a shell command prefix as read-only while planning    *)
(*   ask       the ask tool's question                                     *)
(***************************************************************************)
Kinds == {"writer", "ruled", "memory", "plan", "escape", "mcpTrust", "bashTrust", "ask"}

Scopes == {Scope[r] : r \in Requests}

ASSUME ApprovalAssumption ==
    /\ Kind \in [Requests -> Kinds]
    /\ DOMAIN Scope = Requests
    /\ Guardian \in BOOLEAN /\ Timeouts \in BOOLEAN
    /\ Free \notin Requests

ThroughGate(r) == Kind[r] \in {"writer", "ruled", "memory"}

\* requiresFreshApprovalTool
FreshTool(r) == Kind[r] \in {"plan", "memory", "escape"}

\* allowsFreshSessionGrantTool
FreshGrantable(r) == Kind[r] = "escape"

\* approvalDecisionOptions.fresh
FreshDecision(r) == Kind[r] \in {"escape", "mcpTrust", "bashTrust"}

\* autoApprovalWouldAllowLocked, at registration
AutoDrain(r) == Kind[r] = "writer"

Modes == {"ask", "auto", "yolo"}

\* "once", "session" and "always" allow; always persists the rule.
Values == {"deny", "once", "session", "always"}

VARIABLES
    mode,            \* toolApprovalMode
    gate,            \* Policy.Mode of the executor's gate: "ask" or "allow"
    granted,         \* session grants
    trusted,         \* planModeReadOnlyCommands
    planAutoApprove,
    approvals, asks, \* the two maps of pending prompts
    promptMu,        \* holder of promptMu, or Free
    pc,              \* where each request is
    reply,           \* content of each reply channel (capacity 1)
    outcome,         \* the decision the request's caller sees
    via,             \* what decided
    cancelled,       \* requests whose context is cancelled
    answerAt,        \* where each answer is,
    answered,        \* ... the request it resolved,
    answer,          \* ... and what it says
    switchAt,        \* where each switch is,
    switchTo,        \* ... the posture it set, or read for the gate,
    drained          \* ... and the prompts it has still to answer

managerVars == <<granted, trusted, approvals, asks, planAutoApprove>>
decisionVars == <<reply, outcome, via>>
answerVars == <<answerAt, answered, answer>>
switchVars == <<switchAt, switchTo, drained>>
vars == <<mode, gate, managerVars, promptMu, pc, decisionVars, cancelled, answerVars,
          switchVars>>

Undecided == "none"

Init ==
    /\ mode \in Modes
    /\ gate = IF mode = "ask" THEN "ask" ELSE "allow"
    /\ granted = {} /\ trusted = {} /\ planAutoApprove = FALSE
    /\ approvals = {} /\ asks = {} /\ promptMu = Free
    /\ pc = [r \in Requests |-> "new"]
    /\ reply = [r \in Requests |-> "empty"]
    /\ outcome = [r \in Requests |-> Undecided]
    /\ via = [r \in Requests |-> "nothing"]
    /\ cancelled = {}
    /\ answerAt = [a \in Answers |-> "new"]
    /\ answered = [a \in Answers |-> Free]
    /\ answer = [a \in Answers |-> "deny"]
    /\ switchAt = [w \in Switches |-> "new"]
    /\ switchTo = [w \in Switches |-> "ask"]
    /\ drained = [w \in Switches |-> {}]

Goto(r, l) == pc' = [pc EXCEPT ![r] = l]

Decide(r, o, v) ==
    /\ outcome' = [outcome EXCEPT ![r] = o]
    /\ via' = [via EXCEPT ![r] = v]

-----------------------------------------------------------------------------
(* What skips a prompt; evaluated under mu *)

\* Mutant: the bypass forgets the tools that need a fresh answer.
BypassAnyTool(r) == Kind[r] # "ask" /\ (mode = "yolo" \/ planAutoApprove)

\* bypassAllowsLocked
Bypass(r) == ~FreshTool(r) /\ (mode = "yolo" \/ planAutoApprove)

\* sessionGrantAllowsLocked
GrantCovers(r) == (FreshTool(r) => FreshGrantable(r)) /\ Scope[r] \in granted

\* preApprovedForDecision
PreApproved(r) == GrantCovers(r) \/ (~FreshDecision(r) /\ Bypass(r))

PreApprovedBy(r) ==
    IF ~FreshDecision(r) /\ Bypass(r)
    THEN IF mode = "yolo" THEN "yolo" ELSE "plan"
    ELSE "grant"

-----------------------------------------------------------------------------
(* A request, on the goroutine of its tool call *)

\* Foreground turns run one at a time, and so do plan approvals.
PlanIdle == \A p \in Requests : Kind[p] = "plan" => pc[p] \in {"new", "done"}

\* Gate.Check: the writer fallback follows the gate's mode; ask rules stay.  Trust of
\* a shell prefix is looked up before anything else.
Begin(r) ==
    /\ pc[r] = "new"
    /\ Kind[r] = "plan" => PlanIdle
    /\ CASE Kind[r] = "writer" /\ gate = "allow" -> Goto(r, "done") /\ Decide(r, "allowed", "gate")
         [] Kind[r] = "bashTrust" /\ Scope[r] \in trusted ->
                Goto(r, "done") /\ Decide(r, "allowed", "grant")
         [] OTHER ->
                /\ Goto(r, CASE ThroughGate(r) -> "screen"
                             [] Kind[r] = "ask" -> "lock"
                             [] OTHER -> "check")
                /\ UNCHANGED <<outcome, via>>
    /\ UNCHANGED <<mode, gate, managerVars, promptMu, reply, cancelled, answerVars, switchVars>>

\* ApproveWithReason: the guardian reviews what nothing pre-approves.
Screen(r) ==
    /\ pc[r] = "screen"
    /\ Goto(r, IF Guardian /\ ~(Bypass(r) \/ GrantCovers(r)) THEN "review" ELSE "check")
    /\ UNCHANGED <<mode, gate, managerVars, promptMu, decisionVars, cancelled, answerVars,
                   switchVars>>

\* The verdict of guardianSess.Review: allow settles an ordinary tool only, a denial
\* or a fresh tool goes to the user, an error aborts the call.
Review(r) ==
    /\ pc[r] = "review"
    /\ \/ ~FreshTool(r) /\ Goto(r, "done") /\ Decide(r, "allowed", "guardian")
       \/ Goto(r, "check") /\ UNCHANGED <<outcome, via>>
       \/ Goto(r, "done") /\ Decide(r, "aborted", "nothing")
    /\ UNCHANGED <<mode, gate, managerVars, promptMu, reply, cancelled, answerVars, switchVars>>

\* The first look, before promptMu.
Check(r) ==
    /\ pc[r] = "check"
    /\ IF PreApproved(r)
       THEN Goto(r, IF Kind[r] = "plan" THEN "approved" ELSE "done")
            /\ Decide(r, "allowed", PreApprovedBy(r))
       ELSE Goto(r, "lock") /\ UNCHANGED <<outcome, via>>
    /\ UNCHANGED <<mode, gate, managerVars, promptMu, reply, cancelled, answerVars, switchVars>>

\* Mutant: prompts are not serialized.
LockUnserialized(r) ==
    /\ pc[r] = "lock"
    /\ promptMu' = r
    /\ Goto(r, IF Kind[r] = "ask" THEN "register" ELSE "recheck")
    /\ UNCHANGED <<mode, gate, managerVars, decisionVars, cancelled, answerVars, switchVars>>

\* promptMu.Lock is not interrupted by the request's context.
Lock(r) ==
    /\ pc[r] = "lock"
    /\ promptMu = Free
    /\ promptMu' = r
    /\ Goto(r, IF Kind[r] = "ask" THEN "register" ELSE "recheck")
    /\ UNCHANGED <<mode, gate, managerVars, decisionVars, cancelled, answerVars, switchVars>>

\* The second look, under promptMu: a grant may have landed while it queued.
Recheck(r) ==
    /\ pc[r] = "recheck"
    /\ IF PreApproved(r)
       THEN Goto(r, "unlock") /\ Decide(r, "allowed", PreApprovedBy(r))
       ELSE Goto(r, "register") /\ UNCHANGED <<outcome, via>>
    /\ UNCHANGED <<mode, gate, managerVars, promptMu, reply, cancelled, answerVars, switchVars>>

\* registerDecision / registerAsk; the prompt becomes visible.
Register(r) ==
    /\ pc[r] = "register"
    /\ IF Kind[r] = "ask"
       THEN asks' = asks \cup {r} /\ UNCHANGED approvals
       ELSE approvals' = approvals \cup {r} /\ UNCHANGED asks
    /\ Goto(r, "wait")
    /\ UNCHANGED <<mode, gate, granted, trusted, planAutoApprove, promptMu, decisionVars,
                   cancelled, answerVars, switchVars>>

\* Mutant: a session grant is recorded for every tool.
GrantsAnyTool(r, v) ==
    \/ v = "session"
    \/ v = "always" /\ Kind[r] = "bashTrust"

Grants(r, v) ==
    \/ v = "session" /\ (FreshTool(r) => FreshGrantable(r))
    \/ v = "always" /\ Kind[r] = "bashTrust"

\* The reply arrives.  Reading the channel leaves the maps alone: whoever sent it has
\* removed the prompt.
Receive(r) ==
    /\ pc[r] = "wait"
    /\ reply[r] # "empty"
    /\ reply' = [reply EXCEPT ![r] = "empty"]
    /\ IF reply[r] = "deny"
       THEN Goto(r, "unlock") /\ Decide(r, "denied", "human")
       ELSE /\ Goto(r, IF Kind[r] # "ask" /\ Grants(r, reply[r]) THEN "unlockGrant" ELSE "unlock")
            /\ Decide(r, "allowed", IF reply[r] = "drain" THEN "drain" ELSE "human")
    /\ UNCHANGED <<mode, gate, managerVars, promptMu, cancelled, answerVars, switchVars>>

\* Mutant: only the approval timeout ends the wait.
WaitDoneTimeout(r) ==
    /\ pc[r] = "wait"
    /\ Timeouts
    /\ approvals' = approvals \ {r}
    /\ asks' = asks \ {r}
    /\ Goto(r, "unlock")
    /\ Decide(r, "aborted", "nothing")
    /\ UNCHANGED <<mode, gate, granted, trusted, planAutoApprove, promptMu, reply, cancelled,
                   answerVars, switchVars>>

\* The wait ends on the context or the approval timeout: cancel / cancelAsk.
WaitDone(r) ==
    /\ pc[r] = "wait"
    /\ r \in cancelled \/ Timeouts
    /\ approvals' = approvals \ {r}
    /\ asks' = asks \ {r}
    /\ Goto(r, "unlock")
    /\ Decide(r, "aborted", "nothing")
    /\ UNCHANGED <<mode, gate, granted, trusted, planAutoApprove, promptMu, reply, cancelled,
                   answerVars, switchVars>>

\* promptMu is released by the deferred unlock, before a grant is recorded.
Unlock(r) ==
    /\ pc[r] \in {"unlock", "unlockGrant"}
    /\ promptMu' = Free
    /\ Goto(r, CASE pc[r] = "unlockGrant" -> "grant"
                 [] Kind[r] = "plan" /\ outcome[r] = "allowed" -> "approved"
                 [] OTHER -> "done")
    /\ UNCHANGED <<mode, gate, managerVars, decisionVars, cancelled, answerVars, switchVars>>

\* grantSession / grantPlanModeReadOnlyCommand
Grant(r) ==
    /\ pc[r] = "grant"
    /\ IF Kind[r] = "bashTrust"
       THEN trusted' = trusted \cup {Scope[r]} /\ UNCHANGED granted
       ELSE granted' = granted \cup {Scope[r]} /\ UNCHANGED trusted
    /\ Goto(r, "done")
    /\ UNCHANGED <<mode, gate, approvals, asks, planAutoApprove, promptMu, decisionVars,
                   cancelled, answerVars, switchVars>>

\* The approved plan executes: writers are not asked about until it returns.
OpenPlanWindow(r) ==
    /\ pc[r] = "approved"
    /\ planAutoApprove' = TRUE
    /\ Goto(r, "executing")
    /\ UNCHANGED <<mode, gate, granted, trusted, approvals, asks, promptMu, decisionVars,
                   cancelled, answerVars, switchVars>>

\* Mutant: the window is closed on the normal return only, not deferred.
ClosePlanWindowNormally(r) ==
    /\ pc[r] = "executing"
    /\ planAutoApprove' = (r \in cancelled)
    /\ Goto(r, "done")
    /\ UNCHANGED <<mode, gate, granted, trusted, approvals, asks, promptMu, decisionVars,
                   cancelled, answerVars, switchVars>>

ClosePlanWindow(r) ==
    /\ pc[r] = "executing"
    /\ planAutoApprove' = FALSE
    /\ Goto(r, "done")
    /\ UNCHANGED <<mode, gate, granted, trusted, approvals, asks, promptMu, decisionVars,
                   cancelled, answerVars, switchVars>>

-----------------------------------------------------------------------------
(* The frontends *)

\* Mutant: the lookup does not take the prompt out of its map.
ResolveKeeps(a) ==
    /\ answerAt[a] = "new"
    /\ \E r \in approvals \cup asks, v \in Values :
        /\ r \in asks => v = "once"
        /\ answered' = [answered EXCEPT ![a] = r]
        /\ answer' = [answer EXCEPT ![a] = v]
    /\ answerAt' = [answerAt EXCEPT ![a] = "send"]
    /\ UNCHANGED <<mode, gate, managerVars, promptMu, pc, decisionVars, cancelled, switchVars>>

\* Mutant: an unknown id is not recognized.
ResolveUnknown(a) ==
    /\ answerAt[a] = "new"
    /\ answerAt' = [answerAt EXCEPT ![a] = "send"]
    /\ UNCHANGED <<mode, gate, managerVars, promptMu, pc, decisionVars, cancelled, answered,
                   answer, switchVars>>

\* Approve / AnswerQuestion, under mu: the prompt is taken out of its map.  An id that
\* is not pending is ignored.
Resolve(a) ==
    /\ answerAt[a] = "new"
    /\ \E r \in approvals \cup asks, v \in Values :
        /\ r \in asks => v = "once"
        /\ approvals' = approvals \ {r}
        /\ asks' = asks \ {r}
        /\ answered' = [answered EXCEPT ![a] = r]
        /\ answer' = [answer EXCEPT ![a] = v]
    /\ answerAt' = [answerAt EXCEPT ![a] = "send"]
    /\ UNCHANGED <<mode, gate, granted, trusted, planAutoApprove, promptMu, pc, decisionVars,
                   cancelled, switchVars>>

\* The buffered send, after the unlock.
Answer(a) ==
    /\ answerAt[a] = "send"
    /\ reply[answered[a]] = "empty"
    /\ reply' = [reply EXCEPT ![answered[a]] = answer[a]]
    /\ answerAt' = [answerAt EXCEPT ![a] = "done"]
    /\ UNCHANGED <<mode, gate, managerVars, promptMu, pc, outcome, via, cancelled, answered,
                   answer, switchVars>>

\* Mutant: the switch to auto drains whatever the switch to yolo would.
DrainedAll(m) == {r \in approvals : ~FreshDecision(r) /\ ~FreshTool(r) /\ m # "ask"}

\* drainLocked: what the new posture answers among the pending approvals.
Drained(m) ==
    {r \in approvals : /\ ~FreshDecision(r) /\ ~FreshTool(r)
                       /\ m = "yolo" \/ (m = "auto" /\ AutoDrain(r))}

\* SetToolApprovalMode: setMode, under mu.
SetMode(w) ==
    /\ switchAt[w] = "new"
    /\ \E m \in Modes :
        /\ mode' = m
        /\ approvals' = approvals \ Drained(m)
        /\ switchTo' = [switchTo EXCEPT ![w] = m]
        /\ drained' = [drained EXCEPT ![w] = Drained(m)]
    /\ switchAt' = [switchAt EXCEPT ![w] = "refresh"]
    /\ UNCHANGED <<gate, granted, trusted, planAutoApprove, asks, promptMu, pc, decisionVars,
                   cancelled, answerVars>>

\* refreshInteractiveGate, first half: newInteractiveGate reads the posture again.
ReadMode(w) ==
    /\ switchAt[w] = "refresh"
    /\ switchTo' = [switchTo EXCEPT ![w] = mode]
    /\ switchAt' = [switchAt EXCEPT ![w] = "setGate"]
    /\ UNCHANGED <<mode, gate, managerVars, promptMu, pc, decisionVars, cancelled, answerVars,
                   drained>>

\* Second half: the executor gets the gate built from what was read.
SetGate(w) ==
    /\ switchAt[w] = "setGate"
    /\ gate' = IF switchTo[w] = "ask" THEN "ask" ELSE "allow"
    /\ switchAt' = [switchAt EXCEPT ![w] = "send"]
    /\ UNCHANGED <<mode, managerVars, promptMu, pc, decisionVars, cancelled, answerVars,
                   switchTo, drained>>

\* Each drained prompt is sent its allow.
SendDrained(w) ==
    /\ switchAt[w] = "send"
    /\ \E r \in drained[w] :
        /\ reply[r] = "empty"
        /\ reply' = [reply EXCEPT ![r] = "drain"]
        /\ drained' = [drained EXCEPT ![w] = @ \ {r}]
    /\ UNCHANGED <<mode, gate, managerVars, promptMu, pc, outcome, via, cancelled, answerVars,
                   switchAt, switchTo>>

\* Cancel's first half: both maps are emptied and nobody is told.
ClearAll ==
    /\ approvals \cup asks # {}
    /\ approvals' = {} /\ asks' = {}
    /\ UNCHANGED <<mode, gate, granted, trusted, planAutoApprove, promptMu, pc, decisionVars,
                   cancelled, answerVars, switchVars>>

\* Contexts are cancelled by whoever owns the turns.
ContextsCancelled ==
    /\ \E S \in SUBSET Requests :
        /\ ~(S \subseteq cancelled)
        /\ cancelled' = cancelled \cup S
    /\ UNCHANGED <<mode, gate, managerVars, promptMu, pc, decisionVars, answerVars, switchVars>>

-----------------------------------------------------------------------------
RequestStep(r) ==
    \/ Begin(r) \/ Screen(r) \/ Review(r) \/ Check(r) \/ Lock(r) \/ Recheck(r)
    \/ Register(r) \/ Receive(r) \/ WaitDone(r) \/ Unlock(r) \/ Grant(r)
    \/ OpenPlanWindow(r) \/ ClosePlanWindow(r)

AnswerStep(a) == Resolve(a) \/ Answer(a)

SwitchStep(w) == SetMode(w) \/ ReadMode(w) \/ SetGate(w) \/ SendDrained(w)

Next ==
    \/ \E r \in Requests : RequestStep(r)
    \/ \E a \in Answers : AnswerStep(a)
    \/ \E w \in Switches : SwitchStep(w)
    \/ ClearAll
    \/ ContextsCancelled

Spec == Init /\ [][Next]_vars

-----------------------------------------------------------------------------
(* Properties *)

PCs == {"new", "screen", "review", "check", "lock", "recheck", "register", "wait", "unlock",
        "unlockGrant", "grant", "approved", "executing", "done"}

\* The places at which a request holds promptMu.
Prompting == {"recheck", "register", "wait", "unlock", "unlockGrant"}

\* Every variable keeps its type, and no reply is sent to a prompt that never was.
TypeOK ==
    /\ mode \in Modes /\ gate \in {"ask", "allow"}
    /\ granted \subseteq Scopes /\ trusted \subseteq Scopes
    /\ planAutoApprove \in BOOLEAN
    /\ approvals \subseteq Requests /\ asks \subseteq Requests
    /\ promptMu \in Requests \cup {Free}
    /\ pc \in [Requests -> PCs]
    /\ reply \in [Requests -> Values \cup {"empty", "drain"}]
    /\ outcome \in [Requests -> {Undecided, "allowed", "denied", "aborted"}]
    /\ via \in [Requests -> {"nothing", "gate", "guardian", "yolo", "plan", "grant", "human",
                             "drain"}]
    /\ cancelled \subseteq Requests
    /\ answerAt \in [Answers -> {"new", "send", "done"}]
    /\ answered \in [Answers -> Requests \cup {Free}]
    /\ answer \in [Answers -> Values]
    /\ \A a \in Answers : answerAt[a] # "new" => answered[a] \in Requests
    /\ switchAt \in [Switches -> {"new", "refresh", "setGate", "send"}]
    /\ switchTo \in [Switches -> Modes]
    /\ drained \in [Switches -> SUBSET Requests]

\* promptMu "serializes outstanding prompts so at most one user decision is in flight":
\* whatever is pending belongs to the one request that waits under promptMu.
OnePrompt ==
    \A r \in approvals \cup asks : promptMu = r /\ pc[r] = "wait"

\* "A fresh decision is never answered by YOLO, auto approval or the plan window", and
\* the guardian does not answer it either: a plan or a memory write only by the user,
\* an escape or a trust decision by the user or by a grant the user gave, a question
\* only by the user.  An explicit ask rule survives auto approval.
DecidedBy(r) ==
    CASE Kind[r] \in {"plan", "memory", "ask"} -> {"human"}
      [] Kind[r] \in {"escape", "mcpTrust", "bashTrust"} -> {"human", "grant"}
      [] Kind[r] = "ruled" -> {"human", "grant", "yolo", "plan", "drain", "guardian"}
      [] OTHER -> {"human", "grant", "yolo", "plan", "drain", "guardian", "gate"}

RightAuthority ==
    \A r \in Requests : outcome[r] = "allowed" => via[r] \in DecidedBy(r)

\* Auto approval preserves ask rules: a drain on the way to "auto" answers writers only.
AutoKeepsAskRules ==
    [][\A r \in Requests, w \in Switches :
        r \in drained'[w] /\ r \notin drained[w] =>
            mode' = "yolo" \/ (mode' = "auto" /\ Kind[r] = "writer")]_vars

\* The reply channels hold one value and "never block": nobody is about to send to a
\* channel that is full, and no two senders are about to send to the same one.
Senders(r) ==
    {a \in Answers : answerAt[a] = "send" /\ answered[a] = r}
        \cup {w \in Switches : r \in drained[w]}

SendsNeverBlock ==
    \A r \in Requests :
        /\ Senders(r) # {} => reply[r] = "empty" /\ r \notin approvals \cup asks
        /\ \A x, y \in Senders(r) : x = y

\* One decision per prompt: what the user denied is not allowed by a posture switch or a
\* second answer that races the first.
DenialIsFinal ==
    \A a \in Answers :
        answerAt[a] # "new" /\ answer[a] = "deny" =>
            outcome[answered[a]] # "allowed"

\* A session grant exists only where the user answered a request of that scope with
\* "for this session" (or "always", for a shell prefix), and never for a tool that
\* must be asked about every time.
GrantsComeFromTheUser ==
    /\ \A s \in granted : \E a \in Answers :
        /\ answerAt[a] = "done" /\ answer[a] = "session"
        /\ Scope[answered[a]] = s
        /\ Kind[answered[a]] \notin {"plan", "memory", "ask", "bashTrust"}
    /\ \A s \in trusted : \E a \in Answers :
        /\ answerAt[a] = "done" /\ answer[a] \in {"session", "always"}
        /\ Scope[answered[a]] = s
        /\ Kind[answered[a]] = "bashTrust"

\* The plan window is open exactly while an approved plan executes.
PlanWindow ==
    planAutoApprove <=> \E r \in Requests : Kind[r] = "plan" /\ pc[r] = "executing"

\* Prompts come one at a time under promptMu, nobody blocks on a reply channel, and the
\* plan window is open exactly while the approved plan executes.  The variables have
\* their types.
PromptsAreOrderly ==
  /\ TypeOK
  /\ OnePrompt
  /\ SendsNeverBlock
  /\ PlanWindow

\* What only the user may decide is allowed by the user alone, now (requiresFreshApprovalTool,
\* asks) or by a session grant or trusted prefix that the user gave earlier.
UserDecides ==
  /\ RightAuthority
  /\ GrantsComeFromTheUser
=============================================================================
