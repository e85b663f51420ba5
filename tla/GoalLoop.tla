------------------------------ MODULE GoalLoop ------------------------------
(***************************************************************************)
(* The goal of a session (control/goal.go, the goal loop of                *)
(* control/turn_orchestrator.go).  A turn is followed by synthetic turns   *)
(* until the model claims the goal complete, reports it blocked often      *)
(* enough or a limit ends it.  Frontends set, clear, tighten and stop the  *)
(* goal meanwhile.  A state is built under mu and written to the sidecar   *)
(* later, off the lock; a restart restores a running goal from it.         *)
(***************************************************************************)
EXTENDS Integers

CONSTANTS
  Goals, NoGoal,
  Fronts,      \* frontends that call SetGoal, GoalStrict and Cancel
  Loop,        \* the goroutine of the turn, as a writer of states
  Reasons,     \* what a goal may be blocked on
  NoReason,
  MaxTurns,    \* maxGoalAutoTurns
  MaxIdle,     \* maxGoalIdleTurns
  MaxBlocks,   \* how often the same reason blocks a goal for good
  MaxCalls,    \* bound on the frontends' calls
  MaxFaults    \* bound on turns that fail by themselves and on crashes

ASSUME GoalAssumption ==
  /\ NoGoal \notin Goals /\ NoReason \notin Reasons /\ Loop \notin Fronts
  /\ MaxTurns \in Nat \ {0} /\ MaxIdle \in Nat \ {0} /\ MaxBlocks \in Nat \ {0}
  /\ MaxCalls \in Nat /\ MaxFaults \in Nat

VARIABLES
  machine,   \* the machine: goalMachine's fields
  file,      \* the sidecar
  writer,    \* who -> the state it has built and not written yet
  pc,        \* where the turn's goroutine is
  answer,    \* the marker of the last assistant message
  tool,      \* whether that message called a tool
  todos,     \* whether the executor's list has incomplete items
  cancelled, \* whether the running turn's context is
  calls, faults,
  warned,    \* history: reminders this goal's turns were asked to act on
  overlap    \* history: whether a state was ever built while another waited

vars == <<machine, file, writer, pc, answer, tool, todos, cancelled, calls, faults,
          warned, overlap>>
transcript == <<answer, tool, todos>>

Writers == Fronts \cup {Loop}
Statuses == {"none", "running", "complete", "blocked", "stopped"}
Intercepts == {"none", "todos", "check", "idle"}
Markers == {"continue", "complete"} \cup Reasons

Idle == [goal |-> NoGoal, status |-> "none", turns |-> 0, blocks |-> 0, block |-> NoReason,
         msg |-> "none", intercepts |-> 0, checked |-> FALSE, idle |-> 0, strict |-> FALSE]
NoState == [status |-> "absent"]
State(m, open) == [goal |-> m.goal, status |-> m.status, turns |-> m.turns, blocks |-> m.blocks,
                   block |-> m.block, strict |-> m.strict, open |-> open]
Running(m) == m.goal # NoGoal /\ m.status = "running"

Init ==
  /\ machine = Idle /\ file = NoState
  /\ writer = [w \in Writers |-> NoState]
  /\ pc = "idle"
  /\ answer = "continue" /\ tool = FALSE /\ todos = FALSE /\ cancelled = FALSE
  /\ calls = 0 /\ faults = 0 /\ warned = {} /\ overlap = FALSE

Free(w) == writer[w] = NoState
Builds(w, m, open) ==
  /\ writer' = [writer EXCEPT ![w] = State(m, open)]
  /\ overlap' = (overlap \/ \E v \in Writers \ {w} : ~Free(v))
KeepsStates == UNCHANGED <<writer, overlap>>

Write(w) ==
  /\ ~Free(w)
  /\ file' = writer[w] /\ writer' = [writer EXCEPT ![w] = NoState]
  /\ UNCHANGED <<machine, pc, transcript, cancelled, calls, faults, warned, overlap>>

(***************************************************************************)
(* Frontends.                                                              *)
(***************************************************************************)
Calls(f) == Free(f) /\ calls < MaxCalls /\ calls' = calls + 1
Fresh(goal) == [Idle EXCEPT !.goal = goal, !.status = IF goal = NoGoal THEN "stopped" ELSE "running"]

SetGoal(f, goal) ==
  /\ Calls(f) /\ ~(Running(machine) /\ machine.goal = goal)
  /\ machine' = Fresh(goal) /\ Builds(f, machine', todos)
  /\ warned' = {}
  /\ UNCHANGED <<file, pc, transcript, cancelled, faults>>

GoalStrict(f, strict) ==
  /\ Calls(f) /\ machine.strict # strict
  /\ machine' = [machine EXCEPT !.strict = strict] /\ Builds(f, machine', todos)
  /\ UNCHANGED <<file, pc, transcript, cancelled, faults, warned>>

StoppedOnPaper(m) == [m EXCEPT !.msg = "none", !.intercepts = 0]
Stopped(m) == [m EXCEPT !.status = IF Running(m) THEN "stopped" ELSE @, !.msg = "none",
                        !.intercepts = 0, !.checked = FALSE, !.idle = 0]

(* With a turn running only its context is cancelled.                      *)
Cancel(f) ==
  /\ Calls(f)
  /\ \/ pc # "idle" /\ cancelled' = TRUE /\ KeepsStates /\ UNCHANGED machine
     \/ pc = "idle" /\ Running(machine) /\ machine' = Stopped(machine) /\ Builds(f, machine', todos) /\ UNCHANGED cancelled
  /\ UNCHANGED <<file, pc, transcript, faults, warned>>

(***************************************************************************)
(* The turn's goroutine.                                                   *)
(***************************************************************************)
Begin ==
  /\ pc = "idle" /\ Free(Loop)
  /\ pc' = "turn" /\ cancelled' = FALSE
  /\ UNCHANGED <<machine, file, writer, transcript, calls, faults, warned, overlap>>

(* The model answers; its todo list changes only by a tool call.           *)
Answers ==
  /\ pc = "turn" /\ pc' = "advance"
  /\ answer' \in Markers /\ tool' \in BOOLEAN
  /\ todos' \in IF tool' THEN BOOLEAN ELSE {todos}
  /\ UNCHANGED <<machine, file, writer, cancelled, calls, faults, warned, overlap>>

(* A hook may refuse the prompt: the loop goes on with the last answer.    *)
IsRefused ==
  /\ pc = "turn" /\ pc' = "advance" /\ faults < MaxFaults /\ faults' = faults + 1
  /\ UNCHANGED <<machine, file, writer, transcript, cancelled, calls, warned, overlap>>

Fails ==
  /\ pc = "turn" /\ pc' = "idle"
  /\ IF cancelled
     THEN machine' = Stopped(machine) /\ Builds(Loop, machine', todos) /\ UNCHANGED faults
     ELSE faults < MaxFaults /\ faults' = faults + 1 /\ KeepsStates /\ UNCHANGED machine
  /\ UNCHANGED <<file, transcript, cancelled, calls, warned>>

(* advance: what the marker does, then idle detection, then the limit.     *)
Intercepted(m) == todos /\ (m.strict \/ m.intercepts = 0)
ClaimedUnchecked(m) ==
  IF Intercepted(m) THEN [m EXCEPT !.intercepts = @ + 1, !.msg = "todos"]
  ELSE [m EXCEPT !.goal = NoGoal, !.status = "complete"]
Claimed(m) ==
  IF Intercepted(m) THEN [m EXCEPT !.intercepts = @ + 1, !.msg = "todos"]
  ELSE IF m.strict /\ ~m.checked THEN [m EXCEPT !.checked = TRUE, !.msg = "check"]
  ELSE [m EXCEPT !.goal = NoGoal, !.status = "complete", !.blocks = 0, !.block = NoReason,
                 !.intercepts = 0, !.checked = FALSE, !.idle = 0, !.msg = "none"]

BlockedOn(m, reason) ==
  LET n == IF m.block = reason THEN m.blocks + 1 ELSE 1 IN
  [m EXCEPT !.blocks = n, !.block = reason, !.status = IF n >= MaxBlocks THEN "blocked" ELSE @]

Progressed(m) == [m EXCEPT !.blocks = 0, !.block = NoReason, !.intercepts = 0, !.checked = FALSE,
                           !.idle = 0]
Marked(m) == IF answer = "complete" THEN Claimed(m)
             ELSE IF answer \in Reasons THEN BlockedOn(m, answer) ELSE Progressed(m)

Watched(m) ==
  IF ~Running(m) \/ m.msg # "none" THEN m
  ELSE IF tool THEN [m EXCEPT !.idle = 0]
  ELSE IF m.idle + 1 >= MaxIdle THEN [m EXCEPT !.idle = 0, !.msg = "idle"]
  ELSE [m EXCEPT !.idle = @ + 1]

LimitedRestarts(m) == IF ~Running(m) \/ m.turns < MaxTurns THEN m ELSE [m EXCEPT !.turns = 0]
LimitedLate(m) == IF ~Running(m) \/ m.turns <= MaxTurns THEN m ELSE [m EXCEPT !.status = "blocked"]
Limited(m) ==
  IF ~Running(m) \/ m.turns < MaxTurns THEN m
  ELSE [m EXCEPT !.status = "blocked", !.block = NoReason, !.intercepts = 0, !.checked = FALSE,
                 !.msg = "none", !.idle = 0]

Advanced == Limited(Watched(Marked([machine EXCEPT !.turns = @ + 1])))

Advance ==
  /\ pc = "advance"
  /\ IF Running(machine)
     THEN /\ machine' = Advanced
          /\ IF Running(machine') THEN pc' = "next" /\ KeepsStates
             ELSE pc' = (IF machine'.status = "complete" THEN "finish" ELSE "idle")
                  /\ Builds(Loop, machine', todos)
     ELSE pc' = "idle" /\ KeepsStates /\ UNCHANGED machine
  /\ UNCHANGED <<file, transcript, cancelled, calls, faults, warned>>

Continue ==
  /\ pc = "next"
  /\ IF cancelled
     THEN machine' = Stopped(machine) /\ Builds(Loop, machine', todos) /\ pc' = "idle" /\ UNCHANGED warned
     ELSE /\ machine' = [machine EXCEPT !.msg = "none"] /\ pc' = "turn"
          /\ warned' = warned \cup ({machine.msg} \cap {"todos", "check"}) /\ KeepsStates
  /\ UNCHANGED <<file, transcript, cancelled, calls, faults>>

(* A completed goal completes the todo list it left open, and says so in   *)
(* the sidecar, with whatever goal is set by then.                         *)
Finish ==
  /\ pc = "finish" /\ Free(Loop) /\ pc' = "idle"
  /\ IF todos THEN todos' = FALSE /\ Builds(Loop, machine, FALSE) ELSE KeepsStates /\ UNCHANGED todos
  /\ UNCHANGED <<machine, file, answer, tool, cancelled, calls, faults, warned>>

(***************************************************************************)
(* The process dies and the session is resumed.  A write in progress may   *)
(* leave a sidecar that does not parse.                                    *)
(***************************************************************************)
RestoredWhole(s) == IF s = NoState THEN Idle
                    ELSE [Idle EXCEPT !.goal = s.goal, !.status = "running"]
Restored(s) ==
  IF s.status # "running" THEN Idle
  ELSE [Idle EXCEPT !.goal = s.goal, !.status = "running", !.turns = s.turns, !.blocks = s.blocks,
                    !.block = s.block, !.strict = s.strict]

Crash ==
  /\ faults < MaxFaults /\ faults' = faults + 1
  /\ \/ file' = file
     \/ file' = NoState /\ \E w \in Writers : ~Free(w)
  /\ machine' = Restored(file')
  /\ todos' \in IF file'.status \in {"complete", "blocked", "stopped"}
               THEN (IF file'.open THEN {TRUE} ELSE {FALSE, todos}) ELSE {todos}
  /\ writer' = [w \in Writers |-> NoState]
  /\ pc' = "idle" /\ cancelled' = FALSE
  /\ warned' = {}
  /\ UNCHANGED <<answer, tool, calls, overlap>>

Steps == Answers \/ Fails \/ Advance \/ Continue \/ Finish \/ Write(Loop)
Next ==
  \/ \E f \in Fronts : \/ \E goal \in Goals \cup {NoGoal} : SetGoal(f, goal)
                       \/ \E strict \in BOOLEAN : GoalStrict(f, strict)
                       \/ Cancel(f) \/ Write(f)
  \/ Begin \/ IsRefused \/ Steps \/ Crash

(* A turn answers or fails, and the goroutine goes on.                     *)
Spec == Init /\ [][Next]_vars /\ WF_vars(Steps)

(***************************************************************************)
(* Properties.                                                             *)
(***************************************************************************)
StateOK(s) ==
  s = NoState \/ s \in [goal : Goals \cup {NoGoal}, status : Statuses, turns : 0..MaxTurns,
                        blocks : 0..MaxBlocks, block : Reasons \cup {NoReason}, strict : BOOLEAN,
                        open : BOOLEAN]
TypeOK ==
  /\ machine \in [goal : Goals \cup {NoGoal}, status : Statuses, turns : 0..MaxTurns,
            blocks : 0..MaxBlocks, block : Reasons \cup {NoReason}, msg : Intercepts,
            intercepts : Nat, checked : BOOLEAN, idle : 0..(MaxIdle - 1), strict : BOOLEAN]
  /\ StateOK(file) /\ \A w \in Writers : StateOK(writer[w])
  /\ pc \in {"idle", "turn", "advance", "next", "finish"}
  /\ answer \in Markers /\ tool \in BOOLEAN /\ todos \in BOOLEAN /\ cancelled \in BOOLEAN

(* No sequence of turns, sets, failures and restarts lets a running goal   *)
(* spend its turns or its blocks: the limits end it first.                 *)
Spent(s) == s.turns >= MaxTurns \/ s.blocks >= MaxBlocks
LimitsHold ==
  /\ Running(machine) => ~Spent(machine)
  /\ \A s \in {file} \cup {writer[w] : w \in Writers} : s.status = "running" => ~Spent(s)

(* A goal is not completed over an open todo list, and a strict one not at *)
(* all, before its model was asked to look again.                          *)
Completes == Running(machine) /\ machine'.status = "complete"
CompletionWasChallenged ==
  [][Completes => /\ machine.strict => ~todos /\ "check" \in warned
                  /\ todos => "todos" \in warned]_vars

(* At rest, and unless two states ever overlapped, a restart restores the  *)
(* goal that is running, and none that is not.                             *)
RestartRestoresTheGoal ==
  overlap \/ (\E w \in Writers : ~Free(w))
  \/ IF Running(machine) THEN file.status = "running" /\ file.goal = machine.goal ELSE file.status # "running"

(* The loop ends, whatever the model answers.                              *)
LoopEnds == []<>(pc = "idle")

(* A cancelled turn's goal stops, however the turn ends.                   *)
CancelStopsTheGoal ==
  (cancelled /\ pc \in {"turn", "advance", "next"}) ~> (~cancelled \/ ~Running(machine))

\* A running goal is within its limits, here and after a restart, and a restart brings
\* back exactly a running one (goalMachine, restore).  The variables have their types.
GoalIsSound ==
  /\ TypeOK
  /\ LimitsHold
  /\ RestartRestoresTheGoal
=============================================================================
