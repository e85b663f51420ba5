--------------------------- MODULE NextTurnProofs ---------------------------
(***************************************************************************)
(* What runs next when a turn ends, for every value of the constants: the  *)
(* goal that goes on (GoalLoop) and the next message of a chat (BotQueue). *)
(* The two components share no state: each has a part of this module.      *)
(***************************************************************************)
EXTENDS GoalLoop, BotQueue, TLAPS, WellFoundedInduction, SequenceTheorems, FiniteSetTheorems

(***************************************************************************)
(* The goal machine, for any goals, frontends and limits: a running goal   *)
(* stays below its limits across sets, failures and restarts, it is        *)
(* completed only after its model was challenged, and restarts restore it. *)
(***************************************************************************)
Machines == [goal : Goals \cup {NoGoal}, status : Statuses, turns : 0..MaxTurns,
             blocks : 0..MaxBlocks, block : Reasons \cup {NoReason}, msg : Intercepts,
             intercepts : Nat, checked : BOOLEAN, idle : 0..(MaxIdle - 1), strict : BOOLEAN]
Saves == [goal : Goals \cup {NoGoal}, status : Statuses, turns : 0..MaxTurns,
          blocks : 0..MaxBlocks, block : Reasons \cup {NoReason}, strict : BOOLEAN,
          open : BOOLEAN]

\* The loop's own variables.
LoopOK ==
  /\ pc \in {"idle", "turn", "advance", "next", "finish"}
  /\ answer \in Markers /\ tool \in BOOLEAN /\ todos \in BOOLEAN /\ cancelled \in BOOLEAN

\* A state that says a goal runs names it, and is below the limits.
Sound(s) == s = NoState \/ (s \in Saves /\ (s.status = "running" => s.goal # NoGoal /\ ~Spent(s)))
SavesSound == Sound(file) /\ \A w \in Writers : Sound(writer[w])
GoalSound == machine \in Machines /\ (machine.status = "running" => machine.goal # NoGoal /\ ~Spent(machine))

\* What a message asks of the model it asks in the next turn.
MessageIsNext == machine.msg # "none" => pc = "next"

\* The loop's goroutine has written its last state before it runs a turn.
LoopIsFree == pc \in {"turn", "advance", "next"} => Free(Loop)

\* What the machine remembers of its challenges the model was, or will be, told.
Told ==
  /\ machine.checked => "check" \in warned \/ machine.msg = "check"
  /\ machine.intercepts > 0 => "todos" \in warned \/ machine.msg = "todos"

\* A state agrees with the machine on what runs.
Agrees(s) == IF Running(machine) THEN s.status = "running" /\ s.goal = machine.goal ELSE s.status # "running"

\* Unless two states overlapped, the last one built agrees with the machine.
LastAgrees ==
  \/ overlap
  \/ (\A w \in Writers : Free(w)) /\ Agrees(file)
  \/ \E w \in Writers : ~Free(w) /\ Agrees(writer[w]) /\ \A v \in Writers \ {w} : Free(v)

\* The inductive invariant.
IInv == LoopOK /\ GoalSound /\ SavesSound /\ writer \in [Writers -> {NoState} \cup Saves]
        /\ overlap \in BOOLEAN /\ MessageIsNext /\ LoopIsFree /\ Told /\ LastAgrees

\* A state is told from none by its status.
LEMMA StatesDiffer == \A s \in Saves : s # NoState /\ s.status # "absent"
  BY DEF Saves, NoState, Statuses

\* The state built of a sound machine is sound and agrees with it.
LEMMA StateIsSound ==
  ASSUME NEW m \in Machines, m.status = "running" => m.goal # NoGoal /\ ~Spent(m), NEW open \in BOOLEAN
  PROVE  /\ State(m, open) \in Saves /\ Sound(State(m, open))
         /\ State(m, open).status = m.status /\ State(m, open).goal = m.goal
  BY DEF State, Machines, Saves, Sound, Spent

\* Setting a field to a value of its type keeps a machine a machine.
LEMMA Updates ==
  ASSUME NEW m \in Machines
  PROVE  /\ \A v \in Goals \cup {NoGoal} : [m EXCEPT !.goal = v] \in Machines
         /\ \A v \in Statuses : [m EXCEPT !.status = v] \in Machines
         /\ \A v \in 0..MaxTurns : [m EXCEPT !.turns = v] \in Machines
         /\ \A v \in 0..MaxBlocks : [m EXCEPT !.blocks = v] \in Machines
         /\ \A v \in Reasons \cup {NoReason} : [m EXCEPT !.block = v] \in Machines
         /\ \A v \in Intercepts : [m EXCEPT !.msg = v] \in Machines
         /\ \A v \in Nat : [m EXCEPT !.intercepts = v] \in Machines
         /\ \A v \in BOOLEAN : [m EXCEPT !.checked = v] \in Machines
         /\ \A v \in 0..(MaxIdle-1) : [m EXCEPT !.idle = v] \in Machines
         /\ \A v \in BOOLEAN : [m EXCEPT !.strict = v] \in Machines
  BY DEF Machines

\* The values the code sets fields to are of their types.
LEMMA Constants ==
  /\ NoGoal \in Goals \cup {NoGoal} /\ NoReason \in Reasons \cup {NoReason}
  /\ 0 \in 0..MaxTurns /\ 0 \in 0..MaxBlocks /\ 0 \in Nat /\ 0 \in 0..(MaxIdle-1)
  /\ TRUE \in BOOLEAN /\ FALSE \in BOOLEAN
  /\ {"none", "todos", "check", "idle"} \subseteq Intercepts
  /\ {"none", "running", "complete", "blocked", "stopped"} \subseteq Statuses
  BY GoalAssumption DEF GoalAssumption, Intercepts, Statuses

\* What the code makes of a machine is a machine.
LEMMA MadeOfAMachine ==
  ASSUME NEW m \in Machines
  PROVE  /\ [m EXCEPT !.intercepts = m.intercepts + 1, !.msg = "todos"] \in Machines
         /\ [m EXCEPT !.checked = TRUE, !.msg = "check"] \in Machines
         /\ [m EXCEPT !.goal = NoGoal, !.status = "complete", !.blocks = 0, !.block = NoReason,
                     !.intercepts = 0, !.checked = FALSE, !.idle = 0, !.msg = "none"] \in Machines
         /\ [m EXCEPT !.blocks = 0, !.block = NoReason, !.intercepts = 0, !.checked = FALSE, !.idle = 0] \in Machines
         /\ [m EXCEPT !.idle = 0] \in Machines
         /\ [m EXCEPT !.idle = 0, !.msg = "idle"] \in Machines
         /\ [m EXCEPT !.status = "blocked", !.block = NoReason, !.intercepts = 0, !.checked = FALSE,
                     !.msg = "none", !.idle = 0] \in Machines
         /\ \A n \in 0..MaxBlocks, r \in Reasons \cup {NoReason}, st \in {"blocked", "running"} :
              [m EXCEPT !.blocks = n, !.block = r, !.status = st] \in Machines
<1>1. [m EXCEPT !.intercepts = m.intercepts + 1, !.msg = "todos"] \in Machines
  <2>1. m.intercepts + 1 \in Nat
    BY DEF Machines
  <2> QED BY <2>1, Updates, Constants
<1>2. [m EXCEPT !.checked = TRUE, !.msg = "check"] \in Machines
  BY Updates, Constants
<1>3. [m EXCEPT !.goal = NoGoal, !.status = "complete", !.blocks = 0, !.block = NoReason,
              !.intercepts = 0, !.checked = FALSE, !.idle = 0, !.msg = "none"] \in Machines
  BY Updates, Constants
<1>4. [m EXCEPT !.blocks = 0, !.block = NoReason, !.intercepts = 0, !.checked = FALSE, !.idle = 0] \in Machines
  BY Updates, Constants
<1>5. [m EXCEPT !.idle = 0] \in Machines
  BY Updates, Constants
<1>6. [m EXCEPT !.idle = 0, !.msg = "idle"] \in Machines
  BY Updates, Constants
<1>7. [m EXCEPT !.status = "blocked", !.block = NoReason, !.intercepts = 0, !.checked = FALSE,
              !.msg = "none", !.idle = 0] \in Machines
  BY Updates, Constants
<1>8. ASSUME NEW n \in 0..MaxBlocks, NEW r \in Reasons \cup {NoReason}, NEW st \in {"blocked", "running"}
      PROVE  [m EXCEPT !.blocks = n, !.block = r, !.status = st] \in Machines
  BY Updates, Constants
<1> QED BY <1>1, <1>2, <1>3, <1>4, <1>5, <1>6, <1>7, <1>8

\* What the marker of an answer makes of a running goal.
LEMMA MarkedIsSound ==
  ASSUME NEW m \in Machines, m.status = "running", m.msg = "none", m.blocks < MaxBlocks,
         answer \in Markers, todos \in BOOLEAN
  PROVE  /\ Marked(m) \in Machines /\ Marked(m).turns = m.turns
         /\ Marked(m).status = "running" => Marked(m).goal = m.goal /\ Marked(m).blocks < MaxBlocks
         /\ Marked(m).status # "running" => Marked(m).msg = "none"
         /\ Marked(m).checked => m.checked \/ Marked(m).msg = "check"
         /\ Marked(m).intercepts > 0 => m.intercepts > 0 \/ Marked(m).msg = "todos"
         /\ Marked(m).status = "complete" =>
              (m.strict => ~todos /\ m.checked) /\ (todos => m.intercepts > 0)
<1>0. m.intercepts \in Nat /\ m.blocks \in 0..MaxBlocks /\ m.checked \in BOOLEAN /\ MaxBlocks \in Nat \ {0}
  BY GoalAssumption DEF Machines, GoalAssumption
<1>1. CASE answer = "complete"
  <2>1. Marked(m) = Claimed(m)
    BY <1>1 DEF Marked
  <2>2. CASE Intercepted(m)
    <3>1. Marked(m) = [m EXCEPT !.intercepts = m.intercepts + 1, !.msg = "todos"]
      BY <2>1, <2>2 DEF Claimed
    <3>2. Marked(m) \in Machines
      BY <3>1, MadeOfAMachine
    <3>3. /\ Marked(m).turns = m.turns /\ Marked(m).status = m.status /\ Marked(m).goal = m.goal
          /\ Marked(m).blocks = m.blocks /\ Marked(m).checked = m.checked /\ Marked(m).msg = "todos"
      BY <3>1 DEF Machines
    <3> QED BY <3>2, <3>3
  <2>3. CASE ~Intercepted(m) /\ m.strict /\ ~m.checked
    <3>1. Marked(m) = [m EXCEPT !.checked = TRUE, !.msg = "check"]
      BY <2>1, <2>3 DEF Claimed
    <3>2. Marked(m) \in Machines
      BY <3>1, MadeOfAMachine
    <3>3. /\ Marked(m).turns = m.turns /\ Marked(m).status = m.status /\ Marked(m).goal = m.goal
          /\ Marked(m).blocks = m.blocks /\ Marked(m).intercepts = m.intercepts /\ Marked(m).msg = "check"
      BY <3>1 DEF Machines
    <3> QED BY <3>2, <3>3
  <2>4. CASE ~Intercepted(m) /\ ~(m.strict /\ ~m.checked)
    <3>1. Marked(m) = [m EXCEPT !.goal = NoGoal, !.status = "complete", !.blocks = 0, !.block = NoReason,
                                !.intercepts = 0, !.checked = FALSE, !.idle = 0, !.msg = "none"]
      BY <2>1, <2>4 DEF Claimed
    <3>2. Marked(m) \in Machines
      BY <3>1, MadeOfAMachine
    <3>3. /\ Marked(m).status = "complete" /\ Marked(m).turns = m.turns /\ Marked(m).msg = "none"
          /\ Marked(m).checked = FALSE /\ Marked(m).intercepts = 0
      BY <3>1 DEF Machines
    <3>4. (m.strict => ~todos /\ m.checked) /\ (todos => m.intercepts > 0)
      BY <1>0, <2>4 DEF Intercepted
    <3> QED BY <3>2, <3>3, <3>4
  <2> QED BY <2>2, <2>3, <2>4
<1>2. CASE answer # "complete" /\ answer \in Reasons
  <2> DEFINE n == IF m.block = answer THEN m.blocks + 1 ELSE 1
             st == IF n >= MaxBlocks THEN "blocked" ELSE m.status
  <2>1. n \in 0..MaxBlocks
    BY <1>0
  <2>2. Marked(m) = [m EXCEPT !.blocks = n, !.block = answer, !.status = st]
    BY <1>2 DEF Marked, BlockedOn
  <2>3. st \in {"blocked", "running"} /\ (st = "running" => n < MaxBlocks)
    BY <1>0, <2>1
  <2> HIDE DEF n, st
  <2>4. Marked(m) \in Machines
    <3>1. answer \in Reasons \cup {NoReason} /\ n \in 0..MaxBlocks /\ st \in {"blocked", "running"}
      BY <1>2, <2>1, <2>3
    <3>2. [m EXCEPT !.blocks = n, !.block = answer, !.status = st] \in Machines
      BY ONLY <3>1, m \in Machines, MadeOfAMachine
    <3> QED BY <2>2, <3>2
  <2>5. /\ Marked(m).turns = m.turns /\ Marked(m).status = st /\ Marked(m).goal = m.goal
        /\ Marked(m).blocks = n /\ Marked(m).checked = m.checked
        /\ Marked(m).intercepts = m.intercepts /\ Marked(m).msg = m.msg
    BY <2>2 DEF Machines
  <2> QED BY <2>3, <2>4, <2>5
<1>3. CASE answer # "complete" /\ answer \notin Reasons
  <2>1. Marked(m) = [m EXCEPT !.blocks = 0, !.block = NoReason, !.intercepts = 0, !.checked = FALSE,
                              !.idle = 0]
    BY <1>3 DEF Marked, Progressed
  <2>2. Marked(m) \in Machines
    BY <2>1, MadeOfAMachine
  <2>3. /\ Marked(m).turns = m.turns /\ Marked(m).status = m.status /\ Marked(m).goal = m.goal
        /\ Marked(m).blocks = 0 /\ Marked(m).checked = FALSE /\ Marked(m).intercepts = 0
    BY <2>1 DEF Machines
  <2> QED BY <1>0, <2>2, <2>3
<1> QED BY <1>1, <1>2, <1>3

\* Idle detection touches the idle turns and the message only.
LEMMA WatchedIsSound ==
  ASSUME NEW m \in Machines
  PROVE  /\ Watched(m) \in Machines
         /\ Watched(m).turns = m.turns /\ Watched(m).status = m.status /\ Watched(m).goal = m.goal
         /\ Watched(m).blocks = m.blocks /\ Watched(m).checked = m.checked
         /\ Watched(m).intercepts = m.intercepts
         /\ m.msg # "none" \/ ~Running(m) => Watched(m).msg = m.msg
<1> DEFINE Kept(w) ==
      /\ w.turns = m.turns /\ w.status = m.status /\ w.goal = m.goal
      /\ w.blocks = m.blocks /\ w.checked = m.checked /\ w.intercepts = m.intercepts
<1>1. \/ Watched(m) = m
      \/ Running(m) /\ m.msg = "none" /\ Watched(m) = [m EXCEPT !.idle = 0]
      \/ Running(m) /\ m.msg = "none" /\ Watched(m) = [m EXCEPT !.idle = 0, !.msg = "idle"]
      \/ /\ Running(m) /\ m.msg = "none" /\ Watched(m) = [m EXCEPT !.idle = m.idle + 1]
         /\ ~(m.idle + 1 >= MaxIdle)
  BY DEF Watched
<1>2. CASE Watched(m) = m
  BY <1>2
<1>3. CASE Running(m) /\ m.msg = "none" /\ Watched(m) = [m EXCEPT !.idle = 0]
  <2>1. Watched(m) \in Machines
    BY <1>3, MadeOfAMachine
  <2>2. Kept(Watched(m))
    BY <1>3 DEF Machines
  <2> QED BY <1>3, <2>1, <2>2
<1>4. CASE Running(m) /\ m.msg = "none" /\ Watched(m) = [m EXCEPT !.idle = 0, !.msg = "idle"]
  <2>1. Watched(m) \in Machines
    BY <1>4, MadeOfAMachine
  <2>2. Kept(Watched(m))
    BY <1>4 DEF Machines
  <2> QED BY <1>4, <2>1, <2>2
<1>5. CASE /\ Running(m) /\ m.msg = "none" /\ Watched(m) = [m EXCEPT !.idle = m.idle + 1]
           /\ ~(m.idle + 1 >= MaxIdle)
  <2>1. m.idle + 1 \in 0..(MaxIdle - 1)
    BY <1>5, GoalAssumption DEF Machines, GoalAssumption
  <2>2. Watched(m) \in Machines
    BY <1>5, <2>1, Updates
  <2>3. Kept(Watched(m))
    BY <1>5 DEF Machines
  <2> QED BY <1>5, <2>2, <2>3
<1> QED BY <1>1, <1>2, <1>3, <1>4, <1>5

\* The limit ends a goal that has spent its turns.
LEMMA LimitedIsSound ==
  ASSUME NEW m \in Machines
  PROVE  /\ Limited(m) \in Machines
         /\ Limited(m).status = "running" => Limited(m) = m /\ (Running(m) => m.turns < MaxTurns)
         /\ Limited(m).status = "complete" => m.status = "complete"
         /\ m.status # "running" => Limited(m) = m
         /\ Limited(m).checked => Limited(m) = m
         /\ Limited(m).intercepts > 0 => Limited(m) = m
         /\ Limited(m).msg # "none" => Limited(m) = m
<1>1. CASE ~Running(m) \/ m.turns < MaxTurns
  <2>1. Limited(m) = m
    BY <1>1 DEF Limited
  <2> QED BY <2>1, <1>1 DEF Running
<1>2. CASE Running(m) /\ ~(m.turns < MaxTurns)
  <2>1. Limited(m) = [m EXCEPT !.status = "blocked", !.block = NoReason, !.intercepts = 0, !.checked = FALSE,
                               !.msg = "none", !.idle = 0]
    BY <1>2 DEF Limited
  <2>2. Limited(m) \in Machines
    BY <2>1, MadeOfAMachine
  <2>3. /\ Limited(m).status = "blocked" /\ Limited(m).checked = FALSE /\ Limited(m).intercepts = 0
        /\ Limited(m).msg = "none"
    BY <2>1 DEF Machines
  <2> QED BY <2>2, <2>3, <1>2 DEF Running
<1> QED BY <1>1, <1>2

\* What a turn makes of a running goal.
LEMMA AdvancedIsSound ==
  ASSUME GoalSound, Running(machine), machine.msg = "none", answer \in Markers, todos \in BOOLEAN
  PROVE  /\ Advanced \in Machines
         /\ Advanced.status = "running" => Advanced.goal = machine.goal /\ ~Spent(Advanced)
         /\ Advanced.status # "running" => Advanced.msg = "none"
         /\ Advanced.checked => machine.checked \/ Advanced.msg = "check"
         /\ Advanced.intercepts > 0 => machine.intercepts > 0 \/ Advanced.msg = "todos"
         /\ Advanced.status = "complete" =>
              (machine.strict => ~todos /\ machine.checked) /\ (todos => machine.intercepts > 0)
<1> DEFINE h == [machine EXCEPT !.turns = @ + 1]
           m == Marked(h)
           w == Watched(m)
<1>1. /\ h \in Machines /\ h.status = "running" /\ h.msg = "none" /\ h.blocks < MaxBlocks
      /\ h.goal = machine.goal /\ h.goal # NoGoal
      /\ h.checked = machine.checked /\ h.intercepts = machine.intercepts /\ h.strict = machine.strict
  BY GoalAssumption DEF GoalSound, Machines, Spent, Running, GoalAssumption
<1> HIDE DEF h
<1>2. /\ m \in Machines
      /\ m.status = "running" => m.goal = h.goal /\ m.blocks < MaxBlocks
      /\ m.status # "running" => m.msg = "none"
      /\ m.checked => h.checked \/ m.msg = "check"
      /\ m.intercepts > 0 => h.intercepts > 0 \/ m.msg = "todos"
      /\ m.status = "complete" => (h.strict => ~todos /\ h.checked) /\ (todos => h.intercepts > 0)
  BY <1>1, MarkedIsSound
<1> HIDE DEF m
<1>3. /\ w \in Machines
      /\ w.status = m.status /\ w.goal = m.goal
      /\ w.blocks = m.blocks /\ w.checked = m.checked /\ w.intercepts = m.intercepts
      /\ m.msg # "none" \/ ~Running(m) => w.msg = m.msg
  BY <1>2, WatchedIsSound
<1>4. Advanced = Limited(w)
  BY DEF Advanced, h, m
<1> HIDE DEF w
<1>5. /\ Advanced \in Machines
      /\ Advanced.status = "running" => Advanced = w /\ (Running(w) => w.turns < MaxTurns)
      /\ Advanced.status = "complete" => w.status = "complete"
      /\ w.status # "running" => Advanced = w
      /\ Advanced.checked => Advanced = w
      /\ Advanced.intercepts > 0 => Advanced = w
      /\ Advanced.msg # "none" => Advanced = w
  BY <1>3, <1>4, LimitedIsSound
<1>6. Advanced.status = "running" => Advanced.goal = machine.goal /\ ~Spent(Advanced)
  <2>1. SUFFICES ASSUME Advanced.status = "running" PROVE Advanced.goal = machine.goal /\ ~Spent(Advanced)
    OBVIOUS
  <2>2. Advanced = w /\ w.status = "running" /\ m.status = "running"
    BY <2>1, <1>3, <1>5
  <2>3. w.goal = machine.goal /\ w.goal # NoGoal
    BY <2>2, <1>1, <1>2, <1>3
  <2>4. w.turns < MaxTurns /\ w.blocks < MaxBlocks
    BY <2>2, <2>3, <1>2, <1>3, <1>5 DEF Running
  <2>5. w.turns \in Nat /\ w.blocks \in Nat
    BY <1>3 DEF Machines
  <2> QED BY <2>2, <2>3, <2>4, <2>5, GoalAssumption DEF Spent, GoalAssumption
<1>7. Advanced.status # "running" => Advanced.msg = "none"
  BY <1>2, <1>3, <1>5 DEF Running
<1>8. Advanced.checked => machine.checked \/ Advanced.msg = "check"
  BY <1>1, <1>2, <1>3, <1>5
<1>9. Advanced.intercepts > 0 => machine.intercepts > 0 \/ Advanced.msg = "todos"
  BY <1>1, <1>2, <1>3, <1>5
<1>10. Advanced.status = "complete" => (machine.strict => ~todos /\ machine.checked) /\ (todos => machine.intercepts > 0)
  BY <1>1, <1>2, <1>3, <1>5
<1> QED BY <1>5, <1>6, <1>7, <1>8, <1>9, <1>10

\* A fresh, a stopped and a restored goal.
LEMMA FreshIsSound ==
  ASSUME NEW goal \in Goals \cup {NoGoal}
  PROVE  /\ Fresh(goal) \in Machines /\ Fresh(goal).msg = "none" /\ Fresh(goal).checked = FALSE
         /\ Fresh(goal).intercepts = 0
         /\ Fresh(goal).status = "running" => Fresh(goal).goal # NoGoal /\ ~Spent(Fresh(goal))
<1> DEFINE st == IF goal = NoGoal THEN "stopped" ELSE "running"
<1>1. Fresh(goal) = [Idle EXCEPT !.goal = goal, !.status = st]
  BY DEF Fresh
<1>2. Idle \in Machines /\ st \in Statuses
  BY GoalAssumption DEF GoalAssumption, Machines, Statuses, Intercepts, Idle
<1>3. st = "running" => goal # NoGoal
  OBVIOUS
<1> HIDE DEF st
<1>4. [Idle EXCEPT !.goal = goal, !.status = st] \in Machines
  BY ONLY <1>2, goal \in Goals \cup {NoGoal}, Updates
<1>5. /\ Fresh(goal).msg = "none" /\ Fresh(goal).checked = FALSE /\ Fresh(goal).intercepts = 0
      /\ Fresh(goal).status = st /\ Fresh(goal).goal = goal
      /\ Fresh(goal).turns = 0 /\ Fresh(goal).blocks = 0
  BY <1>1 DEF Idle
<1> QED BY <1>1, <1>3, <1>4, <1>5, GoalAssumption DEF GoalAssumption, Spent

\* Stopping a goal keeps the limits.
LEMMA StoppedIsSound ==
  ASSUME GoalSound
  PROVE  /\ Stopped(machine) \in Machines /\ Stopped(machine).msg = "none" /\ Stopped(machine).checked = FALSE
         /\ Stopped(machine).intercepts = 0 /\ Stopped(machine).status # "running"
<1> DEFINE st == IF Running(machine) THEN "stopped" ELSE machine.status
<1>1. machine \in Machines
  BY DEF GoalSound
<1>2. st \in Statuses /\ st # "running"
  BY DEF GoalSound, Running, Machines, Statuses
<1>3. Stopped(machine) = [machine EXCEPT !.status = st, !.msg = "none", !.intercepts = 0, !.checked = FALSE, !.idle = 0]
  BY DEF Stopped
<1> HIDE DEF st
<1>4. [machine EXCEPT !.status = st, !.msg = "none", !.intercepts = 0, !.checked = FALSE, !.idle = 0] \in Machines
  BY ONLY <1>1, <1>2, Updates, Constants
<1>5. /\ Stopped(machine).msg = "none" /\ Stopped(machine).checked = FALSE /\ Stopped(machine).intercepts = 0
      /\ Stopped(machine).status = st
  BY <1>1, <1>3 DEF Machines
<1> QED BY <1>2, <1>3, <1>4, <1>5

\* What a restart restores is within the limits.
LEMMA RestoredIsSound ==
  ASSUME NEW s, Sound(s)
  PROVE  /\ Restored(s) \in Machines /\ Restored(s).msg = "none" /\ Restored(s).checked = FALSE
         /\ Restored(s).intercepts = 0
         /\ Restored(s).status = "running" => Restored(s).goal # NoGoal /\ ~Spent(Restored(s))
         /\ IF Running(Restored(s)) THEN s.status = "running" /\ s.goal = Restored(s).goal
            ELSE s.status # "running"
<1>1. CASE s.status # "running"
  BY <1>1, GoalAssumption DEF GoalAssumption, Restored, Idle, Machines, Statuses, Intercepts, Running
<1>2. CASE s.status = "running"
  <2>1. s \in Saves /\ s.goal # NoGoal /\ ~Spent(s)
    BY <1>2 DEF Sound, NoState
  <2>2. Restored(s) = [goal |-> s.goal, status |-> "running", turns |-> s.turns, blocks |-> s.blocks,
                       block |-> s.block, msg |-> "none", intercepts |-> 0, checked |-> FALSE,
                       idle |-> 0, strict |-> s.strict]
    BY <1>2 DEF Restored, Idle
  <2>3. Restored(s) \in Machines
    BY <2>1, <2>2, GoalAssumption DEF GoalAssumption, Machines, Saves, Statuses, Intercepts
  <2> QED BY <1>2, <2>1, <2>2, <2>3 DEF Spent, Running
<1> QED BY <1>1, <1>2

SavesOK == SavesSound /\ writer \in [Writers -> {NoState} \cup Saves] /\ overlap \in BOOLEAN /\ LastAgrees

\* Building a state records what the machine is.
LEMMA BuildsAgree ==
  ASSUME IInv, NEW w \in Writers, NEW open \in BOOLEAN, Builds(w, machine', open), GoalSound', UNCHANGED file
  PROVE  SavesOK'
<1> DEFINE s == State(machine', open)
<1>1. s \in Saves /\ Sound(s) /\ s.status = machine'.status /\ s.goal = machine'.goal /\ s # NoState
  BY StateIsSound, StatesDiffer DEF GoalSound
<1>2. /\ writer' \in [Writers -> {NoState} \cup Saves] /\ writer'[w] = s
      /\ \A v \in Writers \ {w} : writer'[v] = writer[v]
  BY <1>1 DEF IInv, Builds
<1> HIDE DEF s
<1>3. SavesSound'
  BY <1>1, <1>2 DEF IInv, SavesSound, Sound, Spent
<1>4. overlap' \in BOOLEAN /\ (~overlap' => \A v \in Writers \ {w} : writer'[v] = NoState)
  BY <1>2 DEF IInv, Builds, Free
<1>5. ~overlap' => ~Free(w)' /\ Agrees(writer[w])' /\ \A v \in Writers \ {w} : Free(v)'
  BY <1>1, <1>2, <1>4 DEF Free, Agrees, Running, GoalSound
<1>6. LastAgrees'
  BY <1>5 DEF LastAgrees
<1> QED BY <1>2, <1>3, <1>4, <1>6 DEF SavesOK

\* A step that builds nothing changes nothing a state says.
LEMMA KeepsAgree ==
  ASSUME IInv, UNCHANGED <<file, writer, overlap>>,
         Running(machine') <=> Running(machine), Running(machine) => machine'.goal = machine.goal
  PROVE  SavesOK'
<1>1. \A s : Agrees(s) => IF Running(machine') THEN s.status = "running" /\ s.goal = machine'.goal ELSE s.status # "running"
  BY DEF Agrees
<1>2. SavesSound' /\ writer' \in [Writers -> {NoState} \cup Saves] /\ overlap' \in BOOLEAN
  BY DEF IInv, SavesSound, Sound, Spent
<1>3. (\A w \in Writers : Free(w)) /\ Agrees(file) => LastAgrees'
  BY <1>1 DEF LastAgrees, Agrees, Free
<1>4. ASSUME NEW w \in Writers, ~Free(w), Agrees(writer[w]), \A v \in Writers \ {w} : Free(v)
      PROVE  LastAgrees'
  BY <1>1, <1>4 DEF LastAgrees, Agrees, Free
<1>5. LastAgrees'
  BY <1>3, <1>4 DEF IInv, LastAgrees
<1> QED BY <1>2, <1>5 DEF SavesOK

\* Writing a state moves what it says to the file.
LEMMA WriteAgrees ==
  ASSUME IInv, NEW w \in Writers, Write(w)
  PROVE  SavesOK'
<1>1. /\ writer' \in [Writers -> {NoState} \cup Saves] /\ writer'[w] = NoState /\ file' = writer[w]
      /\ \A v \in Writers \ {w} : writer'[v] = writer[v]
      /\ overlap' = overlap /\ machine' = machine /\ ~Free(w)
  BY DEF IInv, Write
<1>2. SavesSound'
  BY <1>1 DEF IInv, SavesSound, Sound, Spent
<1>3. ASSUME NEW x \in Writers, ~Free(x), Agrees(writer[x]), \A v \in Writers \ {x} : Free(v)
      PROVE  LastAgrees'
  <2>1. x = w
    BY <1>1, <1>3
  <2>2. \A v \in Writers : writer'[v] = NoState
    BY <1>1, <1>3, <2>1 DEF Free
  <2> QED BY <1>1, <1>3, <2>1, <2>2 DEF LastAgrees, Agrees, Free
<1>4. LastAgrees'
  BY <1>1, <1>3 DEF IInv, LastAgrees
<1> QED BY <1>1, <1>2, <1>4 DEF IInv, SavesOK

\* A restart restores what the file says.
LEMMA CrashAgrees ==
  ASSUME IInv, Crash
  PROVE  SavesOK' /\ GoalSound' /\ machine'.msg = "none" /\ machine'.checked = FALSE /\ machine'.intercepts = 0
<1>1. Sound(file')
  BY DEF IInv, Crash, SavesSound, Sound
<1>2. machine' = Restored(file') /\ writer' = [w \in Writers |-> NoState] /\ overlap' = overlap
  BY DEF Crash
<1>3. GoalSound' /\ machine'.msg = "none" /\ machine'.checked = FALSE /\ machine'.intercepts = 0 /\ Agrees(file)'
  BY <1>1, <1>2, RestoredIsSound DEF GoalSound, Agrees
<1>4. SavesSound'
  BY <1>1, <1>2 DEF SavesSound, Sound, Spent
<1>5. LastAgrees'
  BY <1>2, <1>3 DEF LastAgrees, Free
<1> QED BY <1>2, <1>3, <1>4, <1>5 DEF IInv, SavesOK

\* The initial state satisfies the inductive invariant.
LEMMA InitIInv == Init => IInv
<1> SUFFICES ASSUME Init PROVE IInv
    OBVIOUS
<1> USE DEF Init
<1>1. LoopOK /\ machine.msg = "none" /\ pc = "idle"
  BY DEF LoopOK, Markers, Idle
<1>2. GoalSound
  BY GoalAssumption DEF GoalSound, Machines, Idle, Statuses, Intercepts, GoalAssumption
<1>3. SavesSound /\ writer \in [Writers -> {NoState} \cup Saves] /\ overlap \in BOOLEAN
  BY DEF SavesSound, Sound
<1>4. Told /\ MessageIsNext /\ LoopIsFree
  BY <1>1 DEF Told, MessageIsNext, LoopIsFree, Idle
<1>5. LastAgrees
  BY DEF LastAgrees, Free, Agrees, Running, Idle, NoState
<1> QED BY <1>1, <1>2, <1>3, <1>4, <1>5 DEF IInv

\* What is left of the invariant.
LoopInv == LoopOK /\ GoalSound /\ MessageIsNext /\ LoopIsFree /\ Told

\* Steps of the frontends.
LEMMA FrontStep ==
  ASSUME IInv, NEW f \in Fronts, NEW goal \in Goals \cup {NoGoal}, NEW strict \in BOOLEAN,
         SetGoal(f, goal) \/ GoalStrict(f, strict) \/ Cancel(f)
  PROVE  LoopInv' /\ SavesOK'
<1>0. /\ f \in Writers /\ f # Loop /\ LoopOK /\ GoalSound /\ todos \in BOOLEAN
      /\ MessageIsNext /\ LoopIsFree /\ Told
  BY GoalAssumption DEF GoalAssumption, Writers, IInv, LoopOK, transcript
<1>1. CASE SetGoal(f, goal)
  <2>1. /\ GoalSound' /\ machine'.msg = "none" /\ machine'.checked = FALSE /\ machine'.intercepts = 0
    BY <1>1, FreshIsSound DEF SetGoal, GoalSound, Spent
  <2>2. SavesOK'
    BY <1>0, <1>1, <2>1, BuildsAgree DEF SetGoal
  <2>3. LoopOK' /\ LoopIsFree'
    BY <1>0, <1>1 DEF SetGoal, Builds, Free, LoopOK, transcript, LoopIsFree, IInv
  <2> QED BY <2>1, <2>2, <2>3 DEF LoopInv, MessageIsNext, Told
<1>2. CASE GoalStrict(f, strict)
  <2>1. /\ GoalSound' /\ machine'.msg = machine.msg /\ machine'.checked = machine.checked /\ machine'.intercepts = machine.intercepts
    BY <1>0, <1>2 DEF GoalStrict, GoalSound, Machines, Spent
  <2>2. SavesOK'
    BY <1>0, <1>2, <2>1, BuildsAgree DEF GoalStrict
  <2>3. LoopOK' /\ LoopIsFree' /\ MessageIsNext' /\ Told'
    BY <1>0, <1>2, <2>1 DEF GoalStrict, Builds, Free, LoopOK, transcript, LoopIsFree, MessageIsNext, Told, IInv
  <2> QED BY <2>1, <2>2, <2>3 DEF LoopInv
<1>3. CASE Cancel(f) /\ KeepsStates /\ UNCHANGED machine
  <2>1. SavesOK'
    BY <1>3, KeepsAgree DEF Cancel, KeepsStates
  <2>2. LoopInv'
    BY <1>0, <1>3 DEF Cancel, KeepsStates, LoopInv, LoopOK, transcript, GoalSound, Spent, MessageIsNext, LoopIsFree, Free, Told
  <2> QED BY <2>1, <2>2
<1>4. CASE Cancel(f) /\ pc = "idle" /\ machine' = Stopped(machine) /\ Builds(f, machine', todos) /\ UNCHANGED cancelled
  <2>1. /\ GoalSound' /\ machine'.msg = "none" /\ machine'.checked = FALSE /\ machine'.intercepts = 0
    BY <1>0, <1>4, StoppedIsSound DEF GoalSound, Spent
  <2>2. SavesOK'
    BY <1>0, <1>4, <2>1, BuildsAgree DEF Cancel
  <2>3. LoopOK' /\ LoopIsFree'
    BY <1>0, <1>4 DEF Cancel, LoopOK, transcript, LoopIsFree
  <2> QED BY <2>1, <2>2, <2>3 DEF LoopInv, MessageIsNext, Told
<1> QED BY <1>1, <1>2, <1>3, <1>4 DEF Cancel

\* Steps of the loop that leave the goal alone.
LEMMA QuietStep ==
  ASSUME IInv, Begin \/ Answers \/ IsRefused
  PROVE  LoopInv' /\ SavesOK'
<1>1. SavesOK'
  BY KeepsAgree DEF Begin, Answers, IsRefused
<1>2. LoopInv'
  BY DEF IInv, Begin, Answers, IsRefused, LoopInv, LoopOK, transcript, GoalSound, Spent, MessageIsNext, LoopIsFree,
         Free, Told
<1> QED BY <1>1, <1>2

\* A turn that fails.
LEMMA FailStep ==
  ASSUME IInv, Fails
  PROVE  LoopInv' /\ SavesOK'
<1>0. Loop \in Writers /\ LoopOK /\ GoalSound /\ todos \in BOOLEAN /\ MessageIsNext /\ Told
  BY DEF Writers, IInv, LoopOK
<1>1. CASE machine' = Stopped(machine) /\ Builds(Loop, machine', todos)
  <2>1. /\ GoalSound' /\ machine'.msg = "none" /\ machine'.checked = FALSE /\ machine'.intercepts = 0
    BY <1>0, <1>1, StoppedIsSound DEF GoalSound, Spent
  <2>2. SavesOK'
    BY <1>0, <1>1, <2>1, BuildsAgree DEF Fails
  <2>3. LoopOK' /\ LoopIsFree'
    BY <1>0, <1>1 DEF Fails, LoopOK, transcript, LoopIsFree
  <2> QED BY <2>1, <2>2, <2>3 DEF LoopInv, MessageIsNext, Told
<1>2. CASE KeepsStates /\ UNCHANGED machine
  <2>1. SavesOK'
    BY <1>2, KeepsAgree DEF Fails, KeepsStates
  <2>2. LoopInv'
    BY <1>0, <1>2 DEF Fails, LoopInv, LoopOK, transcript, GoalSound, Spent, MessageIsNext, LoopIsFree, Told
  <2> QED BY <2>1, <2>2
<1> QED BY <1>1, <1>2 DEF Fails

\* A turn that advances the goal.
LEMMA AdvanceStep ==
  ASSUME IInv, Advance
  PROVE  LoopInv' /\ SavesOK'
<1>0. /\ Loop \in Writers /\ LoopOK /\ GoalSound /\ todos \in BOOLEAN /\ answer \in Markers
      /\ machine.msg = "none" /\ Told /\ pc = "advance" /\ Free(Loop)
  BY DEF Writers, IInv, LoopOK, Advance, MessageIsNext, LoopIsFree
<1>1. CASE ~Running(machine)
  <2>1. pc' = "idle" /\ KeepsStates /\ UNCHANGED <<machine, file, transcript, cancelled, warned>>
    BY <1>1 DEF Advance
  <2>2. SavesOK'
    BY <2>1, KeepsAgree DEF KeepsStates
  <2>3. LoopInv'
    BY <1>0, <2>1 DEF LoopInv, LoopOK, GoalSound, Spent, MessageIsNext, LoopIsFree, Told, transcript
  <2> QED BY <2>2, <2>3
<1>2. CASE Running(machine)
  <2>1. machine' = Advanced /\ UNCHANGED <<file, transcript, cancelled, warned>>
    BY <1>2 DEF Advance
  <2>2. /\ machine' \in Machines
        /\ machine'.status = "running" => machine'.goal = machine.goal /\ ~Spent(machine')
        /\ machine'.status # "running" => machine'.msg = "none"
        /\ machine'.checked => machine.checked \/ machine'.msg = "check"
        /\ machine'.intercepts > 0 => machine.intercepts > 0 \/ machine'.msg = "todos"
    BY <1>0, <1>2, <2>1, AdvancedIsSound
  <2>3. GoalSound' /\ Told'
    BY <1>0, <1>2, <2>1, <2>2 DEF GoalSound, Spent, Told, Running
  <2>4. CASE Running(machine')
    <3>1. pc' = "next" /\ KeepsStates
      BY <1>2, <2>4 DEF Advance
    <3>2. SavesOK'
      BY <1>2, <2>1, <2>2, <2>4, <3>1, KeepsAgree DEF KeepsStates, Running
    <3>3. LoopOK' /\ MessageIsNext' /\ LoopIsFree'
      BY <1>0, <2>1, <3>1 DEF LoopOK, MessageIsNext, LoopIsFree, Free, KeepsStates, transcript
    <3> QED BY <2>3, <3>2, <3>3 DEF LoopInv
  <2>5. CASE ~Running(machine')
    <3>1. pc' \in {"finish", "idle"} /\ Builds(Loop, machine', todos)
      BY <1>2, <2>5 DEF Advance
    <3>2. SavesOK'
      BY <1>0, <2>1, <2>3, <3>1, BuildsAgree
    <3>3. machine'.msg = "none"
      BY <1>2, <2>2, <2>5 DEF Running
    <3>4. LoopOK' /\ MessageIsNext' /\ LoopIsFree'
      BY <1>0, <2>1, <3>1, <3>3 DEF LoopOK, MessageIsNext, LoopIsFree, transcript
    <3> QED BY <2>3, <3>2, <3>4 DEF LoopInv
  <2> QED BY <2>4, <2>5
<1> QED BY <1>1, <1>2

\* The loop goes on, or stops a cancelled goal.
LEMMA ContinueStep ==
  ASSUME IInv, Continue
  PROVE  LoopInv' /\ SavesOK'
<1>0. /\ Loop \in Writers /\ LoopOK /\ GoalSound /\ todos \in BOOLEAN
      /\ Told /\ pc = "next" /\ Free(Loop)
  BY DEF Writers, IInv, LoopOK, Continue, LoopIsFree
<1>1. CASE cancelled
  <2>1. machine' = Stopped(machine) /\ Builds(Loop, machine', todos) /\ pc' = "idle"
    BY <1>1 DEF Continue
  <2>2. /\ GoalSound' /\ machine'.msg = "none" /\ machine'.checked = FALSE /\ machine'.intercepts = 0
    BY <1>0, <2>1, StoppedIsSound DEF GoalSound, Spent
  <2>3. SavesOK'
    BY <1>0, <2>1, <2>2, BuildsAgree DEF Continue
  <2>4. LoopOK' /\ LoopIsFree'
    BY <1>0, <2>1 DEF Continue, LoopOK, LoopIsFree, transcript
  <2> QED BY <2>2, <2>3, <2>4 DEF LoopInv, MessageIsNext, Told
<1>2. CASE ~cancelled
  <2>1. /\ machine' = [machine EXCEPT !.msg = "none"] /\ pc' = "turn" /\ KeepsStates
        /\ warned' = warned \cup ({machine.msg} \cap {"todos", "check"}) /\ UNCHANGED <<file, transcript, cancelled>>
    BY <1>2 DEF Continue
  <2>2. machine' \in Machines
    BY <1>0, <2>1, Updates, Constants DEF GoalSound
  <2>3. /\ machine'.msg = "none" /\ machine'.checked = machine.checked /\ machine'.intercepts = machine.intercepts
        /\ machine'.status = machine.status /\ machine'.goal = machine.goal /\ machine'.turns = machine.turns /\ machine'.blocks = machine.blocks
    BY <1>0, <2>1 DEF GoalSound, Machines
  <2>4. GoalSound' /\ MessageIsNext'
    BY <1>0, <2>2, <2>3 DEF GoalSound, Spent, MessageIsNext
  <2>5. Told'
    BY <1>0, <2>1, <2>3 DEF Told
  <2>6. SavesOK'
    BY <2>1, <2>3, KeepsAgree DEF KeepsStates, Running
  <2>7. LoopOK' /\ LoopIsFree'
    BY <1>0, <2>1 DEF LoopOK, LoopIsFree, Free, KeepsStates, transcript
  <2> QED BY <2>4, <2>5, <2>6, <2>7 DEF LoopInv
<1> QED BY <1>1, <1>2

\* A completed goal's loop ends.
LEMMA FinishStep ==
  ASSUME IInv, Finish
  PROVE  LoopInv' /\ SavesOK'
<1>0. Loop \in Writers /\ LoopOK /\ GoalSound /\ MessageIsNext /\ Told /\ pc = "finish"
  BY DEF Writers, IInv, Finish
<1>1. GoalSound' /\ MessageIsNext' /\ Told' /\ LoopIsFree' /\ LoopOK'
  BY <1>0 DEF Finish, GoalSound, Spent, MessageIsNext, Told, LoopIsFree, LoopOK
<1>2. CASE Builds(Loop, machine, FALSE)
  <2>1. Builds(Loop, machine', FALSE)
    BY <1>2 DEF Finish
  <2> QED BY <1>0, <1>1, <2>1, BuildsAgree DEF Finish, LoopInv
<1>3. CASE KeepsStates
  BY <1>1, <1>3, KeepsAgree DEF Finish, KeepsStates, LoopInv
<1> QED BY <1>2, <1>3 DEF Finish

\* A state is written.
LEMMA WriteStep ==
  ASSUME IInv, NEW w \in Writers, Write(w)
  PROVE  LoopInv' /\ SavesOK'
<1>1. SavesOK'
  BY WriteAgrees
<1>2. LoopInv'
  BY DEF IInv, Write, LoopInv, LoopOK, GoalSound, Spent, MessageIsNext, LoopIsFree, Free, Told, transcript
<1> QED BY <1>1, <1>2

\* The process dies and the session is resumed.
LEMMA CrashStep ==
  ASSUME IInv, Crash
  PROVE  LoopInv' /\ SavesOK'
<1>1. SavesOK' /\ GoalSound' /\ machine'.msg = "none" /\ machine'.checked = FALSE /\ machine'.intercepts = 0
  BY CrashAgrees
<1>2. LoopOK' /\ LoopIsFree'
  BY DEF IInv, Crash, LoopOK, LoopIsFree
<1> QED BY <1>1, <1>2 DEF LoopInv, MessageIsNext, Told

\* Every step preserves the inductive invariant.
LEMMA StepIInv == IInv /\ [Next]_vars => IInv'
<1> SUFFICES ASSUME IInv, [Next]_vars PROVE LoopInv' /\ SavesOK'
    BY DEF IInv, LoopInv, SavesOK
<1>1. ASSUME NEW f \in Fronts, \/ \E goal \in Goals \cup {NoGoal} : SetGoal(f, goal)
                               \/ \E strict \in BOOLEAN : GoalStrict(f, strict)
                               \/ Cancel(f)
      PROVE  LoopInv' /\ SavesOK'
  BY <1>1, FrontStep
<1>2. ASSUME NEW w \in Writers, Write(w) PROVE LoopInv' /\ SavesOK'
  BY <1>2, WriteStep
<1>3. CASE Begin \/ IsRefused \/ Steps
  BY <1>2, <1>3, QuietStep, FailStep, AdvanceStep, ContinueStep, FinishStep DEF Steps, Writers
<1>4. CASE Crash
  BY <1>4, CrashStep
<1>5. CASE UNCHANGED vars
  <2>1. SavesOK'
    BY <1>5, KeepsAgree DEF vars
  <2>2. LoopInv'
    BY <1>5 DEF vars, IInv, LoopInv, LoopOK, GoalSound, Spent, MessageIsNext, LoopIsFree, Free, Told, transcript
  <2> QED BY <2>1, <2>2
<1> QED BY <1>1, <1>2, <1>3, <1>4, <1>5 DEF Next, Writers

\* The inductive invariant holds throughout.
THEOREM Invariant == Spec => []IInv
  BY InitIInv, StepIInv, PTL DEF Spec

\* The machine, the sidecar and the loop have their types, whatever the limits.
THEOREM TypeCorrect == Spec => []TypeOK
<1>1. IInv => TypeOK
  BY DEF IInv, TypeOK, LoopOK, GoalSound, SavesSound, Sound, StateOK, Machines, Saves
<1> QED BY Invariant, <1>1, PTL

\* No running goal, in memory or on disk, has spent its turns or blocks.
THEOREM LimitsAreKept == Spec => []LimitsHold
<1>1. IInv => LimitsHold
  BY DEF IInv, GoalSound, SavesSound, Sound, NoState, LimitsHold, Running
<1> QED BY Invariant, <1>1, PTL

\* Unless two states overlapped, a restart restores the goal that runs.
THEOREM RestartIsFaithful == Spec => []RestartRestoresTheGoal
<1>1. IInv => RestartRestoresTheGoal
  BY DEF IInv, LastAgrees, Agrees, RestartRestoresTheGoal
<1> QED BY Invariant, <1>1, PTL

\* A goal is completed only after the challenges its mode asks for.
THEOREM CompletionIsChallenged == Spec => CompletionWasChallenged
<1>1. IInv /\ [Next]_vars =>
        [Completes => /\ machine.strict => ~todos /\ "check" \in warned
                      /\ todos => "todos" \in warned]_vars
  <2> SUFFICES ASSUME IInv, Next, Running(machine), machine'.status = "complete"
               PROVE  (machine.strict => ~todos /\ "check" \in warned) /\ (todos => "todos" \in warned)
      BY DEF Completes, vars
  <2>1. ASSUME NEW f \in Fronts, NEW goal \in Goals \cup {NoGoal} PROVE ~SetGoal(f, goal)
    BY <2>1, FreshIsSound DEF SetGoal, Fresh, Idle
  <2>2. ASSUME NEW f \in Fronts, NEW strict \in BOOLEAN PROVE ~GoalStrict(f, strict)
    BY DEF GoalStrict, IInv, GoalSound, Machines, Running
  <2>3. machine' # machine /\ machine' # Stopped(machine) /\ machine' # [machine EXCEPT !.msg = "none"]
    BY DEF IInv, GoalSound, Machines, Running, Stopped
  <2>4. ASSUME NEW f \in Fronts PROVE ~Cancel(f)
    BY <2>3 DEF Cancel
  <2>5. ASSUME NEW w \in Writers PROVE ~Write(w)
    BY <2>3 DEF Write
  <2>6. ~(Begin \/ IsRefused \/ Answers \/ Fails \/ Continue \/ Finish)
    BY <2>3 DEF Begin, IsRefused, Answers, Fails, Continue, Finish
  <2>7. ~Crash
    <3>1. \A s : Restored(s).status \in {"none", "running"}
      <4>1. ASSUME NEW s PROVE Restored(s).status \in {"none", "running"}
        <5>1. CASE s.status # "running"
          BY <5>1 DEF Restored, Idle
        <5>2. CASE s.status = "running"
          <6>1. Restored(s) = [goal |-> s.goal, status |-> "running", turns |-> s.turns, blocks |-> s.blocks,
                               block |-> s.block, msg |-> "none", intercepts |-> 0, checked |-> FALSE,
                               idle |-> 0, strict |-> s.strict]
            BY <5>2 DEF Restored, Idle
          <6> QED BY <6>1
        <5> QED BY <5>1, <5>2
      <4> QED BY <4>1
    <3> QED BY <3>1 DEF Crash
  <2>8. Advance
    BY <2>1, <2>2, <2>4, <2>5, <2>6, <2>7 DEF Next, Steps, Writers
  <2>9. machine' = Advanced /\ machine.msg = "none" /\ answer \in Markers /\ todos \in BOOLEAN /\ GoalSound
    BY <2>8 DEF Advance, IInv, LoopOK, MessageIsNext
  <2>10. (machine.strict => ~todos /\ machine.checked) /\ (todos => machine.intercepts > 0)
    BY <2>9, AdvancedIsSound
  <2> QED BY <2>9, <2>10 DEF IInv, Told
<1> QED BY Invariant, <1>1, PTL DEF Spec, CompletionWasChallenged

\* A running goal is within its limits and survives a restart, whatever the limits.
THEOREM GoalsAreSound == Spec => []GoalIsSound
  BY TypeCorrect, LimitsAreKept, RestartIsFaithful, PTL DEF GoalIsSound

(***************************************************************************)
(* The chat's queue, for any number of messages, any cap, any number of    *)
(* forced releases and of sessions that fail: whatever waits has a turn    *)
(* that will come to it, no session leaks, and until a key is released by  *)
(* force the messages are served in their order, one turn at a time.       *)
(***************************************************************************)
Entries == [msgs : Seq(Msg) \ {<<>>}, mode : Modes]
Owners == (0..Messages) \X Nat
Sessions == [profile : Nat, open : BOOLEAN, cancel : Owners, runs : Owners]
TurnSteps == {"none", "profile", "look", "build", "register", "arm", "admit", "run", "release", "over"}
Turns == [pc : TurnSteps, msgs : Seq(Msg), round : Nat, at : Nat, wants : Nat, cancelled : BOOLEAN]
DispSteps == {"idle", "steer", "interrupt", "replace", "acquire", "release"}

\* The variables' types.  A live turn has messages, and one past its lookup has a session.
QueueTypes ==
  /\ next \in 1..(Messages + 1) /\ drop \in {"old", "new", "summarize"}
  /\ disp \in [pc : DispSteps, msg : 0..Messages, mode : Modes]
  /\ pending \in Seq(Entries) /\ Len(pending) <= Cap /\ dropped \in Seq(Msg)
  /\ profile \in Nat /\ forced \in Nat /\ fails \in Nat
  /\ served \in Seq(Msg) /\ excused \subseteq Msg
FlagTypes == active \in BOOLEAN /\ orphaned \in BOOLEAN
TurnTypes ==
  /\ turn \in [Msg -> Turns] /\ session \in Seq(Sessions) /\ current \in 0..Len(session)
  /\ \A g \in Live : turn[g].at \in 0..Len(session) /\ turn[g].msgs # <<>>
  /\ \A g \in Live : turn[g].pc \in {"register", "arm", "admit", "run"} => turn[g].at # 0
Types == QueueTypes /\ FlagTypes /\ TurnTypes

\* The dispatch loop has taken the messages below next; the last one may still be its own.
DispInv ==
  /\ disp.pc \in {"idle", "release"} => disp.msg = 0
  /\ disp.pc = "release" => forced # 0
  /\ disp.pc \notin {"idle", "release"} => disp.msg = next - 1 /\ disp.msg \in Msg /\ turn[disp.msg].pc = "none"
  /\ \A g \in Msg : g >= next => turn[g].pc = "none"

\* A free key has nothing behind it, and summaries go where messages wait.
QueueInv ==
  /\ ~active => pending = <<>>
  /\ KeyHasARunnerUnlessOrphaned /\ SummariesHaveATurn

\* Nothing vanishes: a turn that runs has its messages served, one that releases has them
\* served or excused.
AccountInv ==
  /\ NothingVanishes
  /\ \A g \in Live : turn[g].pc = "run" => ToSet(turn[g].msgs) \subseteq ToSet(served)
  /\ \A g \in Live : turn[g].pc = "release" => ToSet(turn[g].msgs) \subseteq ToSet(served) \cup excused

\* Until a release by force there is one turn, and from its look at the session on it has
\* the registered one.
AloneInv ==
  forced = 0 =>
    /\ \A g, h \in Live : g = h
    /\ Live # {} => active
    /\ \A g \in Live : turn[g].pc \in {"arm", "admit", "run"} => current = turn[g].at
    /\ \A g \in Live : turn[g].pc \in {"admit", "run"} =>
         session[turn[g].at].cancel = <<g, turn[g].round>>

\* What comes before what: the messages served, those of the turn, those that wait, the
\* loop's own and those still to come.
Ordered(s) == \A i, j \in DOMAIN s : i < j => s[i] < s[j]
Precede(S, T) == \A x \in S, y \in T : x < y
Limit == IF disp.pc \in {"idle", "release"} THEN next ELSE disp.msg
EntriesOrdered(q) ==
  /\ \A i \in DOMAIN q : Ordered(q[i].msgs)
  /\ \A i, j \in DOMAIN q : i < j => Precede(ToSet(q[i].msgs), ToSet(q[j].msgs))
OrderInv ==
  /\ EntriesOrdered(pending) /\ Precede(Waiting(pending), {Limit})
  /\ \A g \in Live : Ordered(turn[g].msgs)
  /\ forced = 0 =>
       /\ Ordered(served)
       /\ Precede(ToSet(served), Waiting(pending) \cup {Limit})
       /\ \A g \in Live : Precede(ToSet(turn[g].msgs), Waiting(pending) \cup {Limit})
       /\ \A g \in Live : turn[g].pc \notin {"run", "release"} =>
            Precede(ToSet(served), ToSet(turn[g].msgs))

BotInv == Types /\ DispInv /\ QueueInv /\ AccountInv /\ AloneInv /\ OrderInv /\ SessionsDoNotLeak

(***************************************************************************)
(* The elements of sequences, and of a queue of entries.                   *)
(***************************************************************************)
\* What a sequence holds after Append, concatenation, Head and Tail.
LEMMA Elements ==
  ASSUME NEW S, NEW s \in Seq(S), NEW t \in Seq(S), NEW x \in S
  PROVE  /\ ToSet(s) \subseteq S
         /\ ToSet(Append(s, x)) = ToSet(s) \cup {x}
         /\ ToSet(s \o t) = ToSet(s) \cup ToSet(t)
         /\ s # <<>> => ToSet(s) = {s[1]} \cup ToSet(Tail(s))
         /\ s # <<>> => s[1] \in S /\ Tail(s) \in Seq(S)
<1> USE DEF ToSet
<1>1. ToSet(s) \subseteq S
  OBVIOUS
<1>2. ToSet(Append(s, x)) = ToSet(s) \cup {x}
  <2>1. Len(s) + 1 \in DOMAIN Append(s, x) /\ Append(s, x)[Len(s) + 1] = x
    OBVIOUS
  <2>2. \A i \in DOMAIN s : i \in DOMAIN Append(s, x) /\ Append(s, x)[i] = s[i]
    OBVIOUS
  <2>3. \A i \in DOMAIN Append(s, x) : i \in DOMAIN s \/ i = Len(s) + 1
    OBVIOUS
  <2>4. QED
    BY <2>1, <2>2, <2>3
<1>3. ToSet(s \o t) = ToSet(s) \cup ToSet(t)
  <2>1. ASSUME NEW i \in DOMAIN (s \o t) PROVE (s \o t)[i] \in ToSet(s) \cup ToSet(t)
    <3>1. CASE i \in DOMAIN s
      BY <3>1
    <3>2. CASE i \notin DOMAIN s
      <4>1. (s \o t)[i] = t[i - Len(s)] /\ i - Len(s) \in DOMAIN t
        BY <3>2
      <4>2. QED
        BY <4>1
    <3>3. QED
      BY <3>1, <3>2
  <2>2. ASSUME NEW i \in DOMAIN s PROVE s[i] = (s \o t)[i] /\ i \in DOMAIN (s \o t)
    OBVIOUS
  <2>3. ASSUME NEW i \in DOMAIN t
        PROVE  t[i] = (s \o t)[Len(s) + i] /\ Len(s) + i \in DOMAIN (s \o t)
    OBVIOUS
  <2>4. ToSet(s \o t) \subseteq ToSet(s) \cup ToSet(t)
    BY <2>1
  <2>5. ToSet(s) \subseteq ToSet(s \o t)
    BY <2>2
  <2>6. ToSet(t) \subseteq ToSet(s \o t)
    BY <2>3
  <2>7. QED
    BY <2>4, <2>5, <2>6, Zenon
<1>4. s # <<>> => ToSet(s) = {s[1]} \cup ToSet(Tail(s))
  <2> SUFFICES ASSUME s # <<>> PROVE ToSet(s) = {s[1]} \cup ToSet(Tail(s))
    OBVIOUS
  <2>1. Len(Tail(s)) = Len(s) - 1 /\ \A i \in 1..Len(Tail(s)) : Tail(s)[i] = s[i + 1]
    OBVIOUS
  <2>2. ASSUME NEW i \in DOMAIN s PROVE s[i] \in {s[1]} \cup ToSet(Tail(s))
    <3>1. CASE i # 1
      <4>1. i - 1 \in 1..Len(Tail(s)) /\ Tail(s)[i - 1] = s[i]
        BY <2>1, <3>1
      <4>2. QED
        BY <4>1
    <3>2. QED
      BY <3>1
  <2>3. ASSUME NEW i \in DOMAIN Tail(s) PROVE Tail(s)[i] \in ToSet(s)
    BY <2>1
  <2>4. s[1] \in ToSet(s)
    OBVIOUS
  <2>5. QED
    BY <2>2, <2>3, <2>4
<1>5. s # <<>> => s[1] \in S /\ Tail(s) \in Seq(S)
  OBVIOUS
<1>6. QED
  BY <1>1, <1>2, <1>3, <1>4, <1>5

\* The small cases.
LEMMA FewElements == ToSet(<<>>) = {} /\ \A x : ToSet(<<x>>) = {x}
  BY DEF ToSet

\* A sequence stays in order under Tail, and under Append and concatenation when what
\* comes after is greater.
LEMMA Orders ==
  ASSUME NEW s \in Seq(Nat), NEW t \in Seq(Nat), NEW x \in Nat, Ordered(s)
  PROVE  /\ Precede(ToSet(s), {x}) => Ordered(Append(s, x))
         /\ Ordered(t) /\ Precede(ToSet(s), ToSet(t)) => Ordered(s \o t)
         /\ s # <<>> => Ordered(Tail(s))
<1> USE DEF Ordered, Precede, ToSet
<1>1. Precede(ToSet(s), {x}) => Ordered(Append(s, x))
  OBVIOUS
<1>2. ASSUME Ordered(t), Precede(ToSet(s), ToSet(t)) PROVE Ordered(s \o t)
  <2> SUFFICES ASSUME NEW i \in DOMAIN (s \o t), NEW j \in DOMAIN (s \o t), i < j
               PROVE (s \o t)[i] < (s \o t)[j]
    OBVIOUS
  <2>1. CASE i \in DOMAIN s /\ j \in DOMAIN s
    BY <2>1
  <2>2. CASE i \in DOMAIN s /\ j \notin DOMAIN s
    <3>1. (s \o t)[i] = s[i] /\ (s \o t)[j] = t[j - Len(s)] /\ j - Len(s) \in DOMAIN t
      BY <2>2
    <3>2. QED
      BY <3>1, <2>2, <1>2
  <2>3. CASE i \notin DOMAIN s /\ j \notin DOMAIN s
    <3>1. (s \o t)[i] = t[i - Len(s)] /\ (s \o t)[j] = t[j - Len(s)]
          /\ j - Len(s) \in DOMAIN t /\ i - Len(s) \in DOMAIN t
      BY <2>3
    <3>2. QED
      BY <3>1, <1>2
  <2>4. CASE i \notin DOMAIN s /\ j \in DOMAIN s
    BY <2>4
  <2>5. QED
    BY <2>1, <2>2, <2>3, <2>4
<1>3. s # <<>> => Ordered(Tail(s))
  OBVIOUS
<1>4. QED
  BY <1>1, <1>2, <1>3

\* A message waits in one of the entries.
LEMMA WaitingIn ==
  ASSUME NEW q, NEW x
  PROVE  x \in Waiting(q) <=> \E i \in DOMAIN q : x \in ToSet(q[i].msgs)
  BY DEF Waiting

\* What waits after an entry was queued, or taken from the front.
LEMMA Queues ==
  ASSUME NEW q \in Seq(Entries), NEW e \in Entries
  PROVE  /\ Waiting(q) \subseteq Msg
         /\ Append(q, e) \in Seq(Entries) /\ Waiting(Append(q, e)) = Waiting(q) \cup ToSet(e.msgs)
         /\ q # <<>> => /\ q[1] \in Entries /\ Tail(q) \in Seq(Entries)
                        /\ Waiting(q) = ToSet(q[1].msgs) \cup Waiting(Tail(q))
<1>1. \A i \in DOMAIN q : q[i] \in Entries
  OBVIOUS
<1>2. \A i \in DOMAIN q : ToSet(q[i].msgs) \subseteq Msg
  <2> SUFFICES ASSUME NEW i \in DOMAIN q PROVE ToSet(q[i].msgs) \subseteq Msg
    OBVIOUS
  <2>1. q[i].msgs \in Seq(Msg)
    BY <1>1 DEF Entries
  <2>2. QED
    BY <2>1 DEF ToSet
<1>3. Waiting(q) \subseteq Msg
  BY <1>2, WaitingIn
<1>4. Append(q, e) \in Seq(Entries)
  OBVIOUS
<1>5. Waiting(Append(q, e)) = Waiting(q) \cup ToSet(e.msgs)
  <2>1. Len(q) + 1 \in DOMAIN Append(q, e) /\ Append(q, e)[Len(q) + 1] = e
    OBVIOUS
  <2>2. \A i \in DOMAIN q : i \in DOMAIN Append(q, e) /\ Append(q, e)[i] = q[i]
    OBVIOUS
  <2>3. \A i \in DOMAIN Append(q, e) : i \in DOMAIN q \/ i = Len(q) + 1
    OBVIOUS
  <2>4. \A x : x \in Waiting(Append(q, e)) <=> x \in Waiting(q) \/ x \in ToSet(e.msgs)
    BY <2>1, <2>2, <2>3, WaitingIn
  <2>5. QED
    BY <2>4
<1>6. ASSUME q # <<>>
      PROVE  /\ q[1] \in Entries /\ Tail(q) \in Seq(Entries)
             /\ Waiting(q) = ToSet(q[1].msgs) \cup Waiting(Tail(q))
  <2>1. 1 \in DOMAIN q /\ q[1] \in Entries /\ Tail(q) \in Seq(Entries)
    BY <1>6
  <2>2. \A i \in DOMAIN Tail(q) : i + 1 \in DOMAIN q /\ Tail(q)[i] = q[i + 1]
    BY <1>6
  <2>3. \A i \in DOMAIN q : i = 1 \/ (i - 1 \in DOMAIN Tail(q) /\ Tail(q)[i - 1] = q[i])
    BY <1>6
  <2>4. \A x : x \in Waiting(q) <=> x \in ToSet(q[1].msgs) \/ x \in Waiting(Tail(q))
    <3> TAKE x
    <3>1. ASSUME x \in Waiting(q) PROVE x \in ToSet(q[1].msgs) \/ x \in Waiting(Tail(q))
      <4>1. PICK i \in DOMAIN q : x \in ToSet(q[i].msgs)
        BY <3>1, WaitingIn
      <4>2. QED
        BY <4>1, <2>3, WaitingIn
    <3>2. ASSUME x \in Waiting(Tail(q)) PROVE x \in Waiting(q)
      <4>1. PICK i \in DOMAIN Tail(q) : x \in ToSet(Tail(q)[i].msgs)
        BY <3>2, WaitingIn
      <4>2. QED
        BY <4>1, <2>2, WaitingIn
    <3>3. QED
      BY <3>1, <3>2, <2>1, WaitingIn
  <2>5. QED
    BY <2>1, <2>4
<1>7. QED
  BY <1>3, <1>4, <1>5, <1>6

\* What comes before what is a matter of pairs.
LEMMA Preceding ==
  ASSUME NEW S, NEW T, NEW U
  PROVE  /\ Precede(S \cup T, U) <=> Precede(S, U) /\ Precede(T, U)
         /\ Precede(S, T \cup U) <=> Precede(S, T) /\ Precede(S, U)
         /\ S \subseteq T /\ Precede(T, U) => Precede(S, U)
         /\ S \subseteq T /\ Precede(U, T) => Precede(U, S)
  BY DEF Precede

\* The first entry comes before the others, which stay in order without it; and an entry
\* that comes after all may be appended.
LEMMA QueueOrders ==
  ASSUME NEW q \in Seq(Entries), NEW e \in Entries, EntriesOrdered(q)
  PROVE  /\ q # <<>> => /\ Ordered(q[1].msgs) /\ EntriesOrdered(Tail(q))
                        /\ Precede(ToSet(q[1].msgs), Waiting(Tail(q)))
         /\ Ordered(e.msgs) /\ Precede(Waiting(q), ToSet(e.msgs)) => EntriesOrdered(Append(q, e))
<1>1. ASSUME q # <<>>
      PROVE  /\ Ordered(q[1].msgs) /\ EntriesOrdered(Tail(q))
             /\ Precede(ToSet(q[1].msgs), Waiting(Tail(q)))
  <2>1. 1 \in DOMAIN q
    BY <1>1
  <2>2. \A i \in DOMAIN Tail(q) : i + 1 \in DOMAIN q /\ i + 1 > 1 /\ Tail(q)[i] = q[i + 1]
    BY <1>1
  <2>3. EntriesOrdered(Tail(q))
    <3>1. \A i, j \in DOMAIN Tail(q) : i < j => i + 1 < j + 1
      OBVIOUS
    <3>2. QED
      BY <2>2, <3>1 DEF EntriesOrdered
  <2>4. Precede(ToSet(q[1].msgs), Waiting(Tail(q)))
    <3> SUFFICES ASSUME NEW x \in ToSet(q[1].msgs), NEW y \in Waiting(Tail(q)) PROVE x < y
      BY DEF Precede
    <3>1. PICK i \in DOMAIN Tail(q) : y \in ToSet(Tail(q)[i].msgs)
      BY WaitingIn
    <3>2. i + 1 \in DOMAIN q /\ 1 < i + 1 /\ y \in ToSet(q[i + 1].msgs)
      BY <3>1, <2>2
    <3>3. QED
      BY <2>1, <3>2 DEF EntriesOrdered, Precede
  <2>5. QED
    BY <2>1, <2>3, <2>4 DEF EntriesOrdered
<1>2. ASSUME Ordered(e.msgs), Precede(Waiting(q), ToSet(e.msgs)) PROVE EntriesOrdered(Append(q, e))
  <2>1. \A i \in DOMAIN Append(q, e) :
          \/ i \in DOMAIN q /\ Append(q, e)[i] = q[i]
          \/ i = Len(q) + 1 /\ Append(q, e)[i] = e
    <3> SUFFICES ASSUME NEW i \in DOMAIN Append(q, e), i # Len(q) + 1
                 PROVE  i \in DOMAIN q /\ Append(q, e)[i] = q[i]
      OBVIOUS
    <3>1. i \in DOMAIN q
      OBVIOUS
    <3>2. QED
      BY <3>1
  <2>2. \A i \in DOMAIN q : Precede(ToSet(q[i].msgs), ToSet(e.msgs))
    BY <1>2, WaitingIn DEF Precede
  <2>3. \A i \in DOMAIN q : i < Len(q) + 1
    OBVIOUS
  <2>4. \A i \in DOMAIN Append(q, e) : Ordered(Append(q, e)[i].msgs)
    BY <2>1, <1>2 DEF EntriesOrdered
  <2>5. \A i, j \in DOMAIN Append(q, e) :
          i < j => Precede(ToSet(Append(q, e)[i].msgs), ToSet(Append(q, e)[j].msgs))
    <3> SUFFICES ASSUME NEW i \in DOMAIN Append(q, e), NEW j \in DOMAIN Append(q, e), i < j
                 PROVE  Precede(ToSet(Append(q, e)[i].msgs), ToSet(Append(q, e)[j].msgs))
      OBVIOUS
    <3>1. CASE j \in DOMAIN q /\ Append(q, e)[j] = q[j]
      <4>1. i \in DOMAIN q /\ Append(q, e)[i] = q[i]
        BY <3>1, <2>1
      <4>2. QED
        BY <3>1, <4>1 DEF EntriesOrdered
    <3>2. CASE j = Len(q) + 1 /\ Append(q, e)[j] = e
      <4>1. i \in DOMAIN q /\ Append(q, e)[i] = q[i]
        BY <3>2, <2>1
      <4>2. QED
        BY <3>2, <4>1, <2>2
    <3>3. QED
      BY <3>1, <3>2, <2>1
  <2>6. QED
    BY <2>4, <2>5 DEF EntriesOrdered
<1>3. QED
  BY <1>1, <1>2

\* A collected message joins the last entry.
LEMMA Joining ==
  ASSUME NEW q \in Seq(Entries), q # <<>>, NEW m \in Msg,
         NEW j, j = [q EXCEPT ![Len(q)] = [msgs |-> Append(@.msgs, m), mode |-> "collect"]]
  PROVE  /\ j \in Seq(Entries) /\ Len(j) = Len(q) /\ Waiting(j) = Waiting(q) \cup {m}
         /\ EntriesOrdered(q) /\ Precede(Waiting(q), {m}) => EntriesOrdered(j)
<1> DEFINE n == Len(q)
<1>1. n \in DOMAIN q /\ DOMAIN j = DOMAIN q /\ q[n].msgs \in Seq(Msg) /\ q[n] \in Entries
      /\ \A i \in DOMAIN q : i <= n
  <2>1. n \in DOMAIN q
    OBVIOUS
  <2>2. q[n] \in Entries
    BY <2>1
  <2>3. DOMAIN j = DOMAIN q /\ \A i \in DOMAIN q : i <= n
    OBVIOUS
  <2>4. QED
    BY <2>1, <2>2, <2>3 DEF Entries
<1>2. j[n].msgs = Append(q[n].msgs, m) /\ \A i \in DOMAIN q : i # n => j[i] = q[i]
  BY <1>1
<1>3. j[n] \in Entries
  <2>1. j[n] = [msgs |-> Append(q[n].msgs, m), mode |-> "collect"]
    BY <1>1, Zenon
  <2>2. Append(q[n].msgs, m) \in Seq(Msg) \ {<<>>}
    <3>1. ASSUME NEW t \in Seq(Msg) PROVE Append(t, m) \in Seq(Msg) /\ Append(t, m) # <<>>
      BY AppendProperties
    <3>2. QED
      BY <1>1, <3>1
  <2>3. QED
    BY <2>1, <2>2 DEF Entries, Modes
<1>4. j \in Seq(Entries) /\ Len(j) = Len(q)
  <2> DEFINE e == [msgs |-> Append(q[n].msgs, m), mode |-> "collect"]
  <2>1. e \in Entries /\ n \in 1..Len(q)
    BY <1>1, <1>3
  <2>2. j = [q EXCEPT ![n] = e]
    OBVIOUS
  <2>3. ASSUME NEW i \in 1..Len(q), NEW d \in Entries
        PROVE  [q EXCEPT ![i] = d] \in Seq(Entries) /\ Len([q EXCEPT ![i] = d]) = Len(q)
    BY ExceptSeq
  <2> HIDE DEF e, n
  <2>4. [q EXCEPT ![n] = e] \in Seq(Entries) /\ Len([q EXCEPT ![n] = e]) = Len(q)
    BY <2>1, <2>3
  <2>5. QED
    BY <2>2, <2>4
<1>5. ToSet(j[n].msgs) = ToSet(q[n].msgs) \cup {m}
  <2>1. ToSet(Append(q[n].msgs, m)) = ToSet(q[n].msgs) \cup {m}
    BY <1>1, Elements
  <2>2. QED
    BY <2>1, <1>2
<1> HIDE DEF n
<1>6. Waiting(j) = Waiting(q) \cup {m}
  <2>1. \A x : x \in Waiting(j) <=> x \in Waiting(q) \/ x = m
    BY <1>1, <1>2, <1>5, WaitingIn
  <2>2. QED
    BY <2>1
<1>7. ASSUME EntriesOrdered(q), Precede(Waiting(q), {m}) PROVE EntriesOrdered(j)
  <2>1. \A i \in DOMAIN q : Precede(ToSet(q[i].msgs), {m})
    BY <1>7, WaitingIn DEF Precede
  <2>2. Ordered(j[n].msgs)
    <3>1. q[n].msgs \in Seq(Nat) /\ m \in Nat
      <4>1. Msg \subseteq Nat
        BY DEF Msg
      <4>2. q[n].msgs \in Seq(Nat)
        BY <1>1, <4>1, SeqMonotonic
      <4>3. QED
        BY <4>1, <4>2
    <3>2. QED
      BY <3>1, <1>1, <1>2, <1>7, <2>1, Orders DEF EntriesOrdered
  <2>3. \A i \in DOMAIN j : Ordered(j[i].msgs)
    BY <2>2, <1>1, <1>2, <1>7 DEF EntriesOrdered
  <2>4. \A i, k \in DOMAIN j : i < k => Precede(ToSet(j[i].msgs), ToSet(j[k].msgs))
    <3> SUFFICES ASSUME NEW i \in DOMAIN j, NEW k \in DOMAIN j, i < k
                 PROVE  Precede(ToSet(j[i].msgs), ToSet(j[k].msgs))
      OBVIOUS
    <3>1. i # n /\ j[i] = q[i] /\ Precede(ToSet(q[i].msgs), ToSet(q[k].msgs))
      BY <1>1, <1>2, <1>7 DEF EntriesOrdered
    <3>2. CASE k = n
      BY <3>1, <3>2, <1>5, <2>1, <1>1 DEF Precede
    <3>3. CASE k # n
      BY <3>1, <3>3, <1>1, <1>2
    <3>4. QED
      BY <3>2, <3>3
  <2>5. QED
    BY <2>3, <2>4 DEF EntriesOrdered
<1>8. QED
  BY <1>4, <1>6, <1>7

(***************************************************************************)
(* The merge of a queue, by induction on its length.                       *)
(***************************************************************************)
\* The naturals below a natural are those the library's order relates to it.
LEMMA Below == \A x, y \in Nat : y < x => <<y, x>> \in OpToRel(<, Nat)
  BY Zenon DEF OpToRel

\* A set of naturals that is not empty has a least element.
LEMMA Least ==
  ASSUME NEW S, S \subseteq Nat, S # {}
  PROVE  \E x \in S : \A y \in S : x <= y
<1>1. PICK x \in S : \A y \in S : ~(<<y, x>> \in OpToRel(<, Nat))
  BY NatLessThanWellFounded, WFMin
<1>2. \A y \in S : ~(y < x)
  <2> TAKE y \in S
  <2>1. x \in Nat /\ y \in Nat
    OBVIOUS
  <2>2. QED
    BY <1>1, <2>1, Below, Zenon
<1>3. QED
  BY <1>2

\* An entry's text: all its messages but one without text that opens it.
LEMMA TextOfEntry ==
  ASSUME NEW e \in Entries
  PROVE  /\ Text(e.msgs) \in Seq(Msg)
         /\ ToSet(Text(e.msgs)) \subseteq ToSet(e.msgs)
         /\ ToSet(e.msgs) \ MediaOnly \subseteq ToSet(Text(e.msgs))
         /\ Ordered(e.msgs) => Ordered(Text(e.msgs))
<1> DEFINE s == e.msgs
<1>1. s \in Seq(Msg) /\ s # <<>>
  BY DEF Entries
<1>2. Msg \subseteq Nat
  BY DEF Msg
<1>3. s \in Seq(Nat)
  BY <1>1, <1>2, SeqMonotonic
<1> HIDE DEF s
<1>4. ToSet(s) = {s[1]} \cup ToSet(Tail(s)) /\ Tail(s) \in Seq(Msg) /\ s[1] \in Msg
  BY <1>1, Elements
<1>5. Ordered(s) => Ordered(Tail(s))
  <2>1. 0 \in Nat /\ <<>> \in Seq(Nat)
    OBVIOUS
  <2>2. QED
    BY <1>1, <1>3, <2>1, Orders
<1>6. QED
  BY <1>1, <1>4, <1>5 DEF Text, s

\* A prefix of the merge with the text of the next entry is a prefix one longer.
MergeOf(q, i, v) ==
  /\ v \in Seq(Msg) /\ v # <<>>
  /\ \A x \in ToSet(v) : \E k \in 1..i : x \in ToSet(q[k].msgs)
  /\ \A k \in 1..i : ToSet(q[k].msgs) \ MediaOnly \subseteq ToSet(v)
  /\ EntriesOrdered(q) => Ordered(v)

LEMMA MergeStep ==
  ASSUME NEW q \in Seq(Entries), NEW i \in 2..Len(q), NEW v, MergeOf(q, i - 1, v)
  PROVE  MergeOf(q, i, v \o Text(q[i].msgs))
<1> DEFINE t == Text(q[i].msgs)
<1>1. q[i] \in Entries /\ i \in DOMAIN q
  OBVIOUS
<1>2. t \in Seq(Msg) /\ ToSet(t) \subseteq ToSet(q[i].msgs)
      /\ ToSet(q[i].msgs) \ MediaOnly \subseteq ToSet(t)
      /\ (Ordered(q[i].msgs) => Ordered(t))
  BY <1>1, TextOfEntry
<1> HIDE DEF t
<1>3. v \in Seq(Msg) /\ v # <<>>
  BY DEF MergeOf
<1>4. v \o t \in Seq(Msg) /\ v \o t # <<>>
  BY <1>2, <1>3
<1>5. ToSet(v \o t) = ToSet(v) \cup ToSet(t)
  <2>1. v[1] \in Msg
    BY <1>3
  <2>2. QED
    BY <1>2, <1>3, <2>1, Elements
<1>6. \A k \in 1..i : k = i \/ k \in 1..(i - 1)
  OBVIOUS
<1>7. \A x \in ToSet(v \o t) : \E k \in 1..i : x \in ToSet(q[k].msgs)
  <2> SUFFICES ASSUME NEW x \in ToSet(v \o t) PROVE \E k \in 1..i : x \in ToSet(q[k].msgs)
    OBVIOUS
  <2>1. CASE x \in ToSet(v)
    <3>1. PICK k \in 1..(i - 1) : x \in ToSet(q[k].msgs)
      BY <2>1 DEF MergeOf
    <3>2. QED
      BY <3>1
  <2>2. CASE x \in ToSet(t)
    BY <2>2, <1>2
  <2>3. QED
    BY <2>1, <2>2, <1>5
<1>8. \A k \in 1..i : ToSet(q[k].msgs) \ MediaOnly \subseteq ToSet(v \o t)
  BY <1>2, <1>5, <1>6 DEF MergeOf
<1>9. ASSUME EntriesOrdered(q) PROVE Ordered(v \o t)
  <2>1. Msg \subseteq Nat
    BY DEF Msg
  <2>2. v \in Seq(Nat) /\ t \in Seq(Nat) /\ 0 \in Nat
    BY <2>1, <1>2, <1>3, SeqMonotonic
  <2>3. Precede(ToSet(v), ToSet(t))
    <3> SUFFICES ASSUME NEW x \in ToSet(v), NEW y \in ToSet(t) PROVE x < y
      BY DEF Precede
    <3>1. PICK k \in 1..(i - 1) : x \in ToSet(q[k].msgs)
      BY DEF MergeOf
    <3>2. k \in DOMAIN q /\ k < i /\ y \in ToSet(q[i].msgs)
      BY <1>2
    <3>3. QED
      BY <1>1, <1>9, <3>1, <3>2 DEF EntriesOrdered, Precede
  <2>4. Ordered(v) /\ Ordered(t)
    BY <1>1, <1>2, <1>9 DEF MergeOf, EntriesOrdered
  <2>5. QED
    BY <2>2, <2>3, <2>4, Orders
<1>10. QED
  BY <1>4, <1>7, <1>8, <1>9 DEF MergeOf, t

\* The merge of a queue is a message of the queue's texts, in their order.
LEMMA TextsOfQueue ==
  ASSUME NEW q \in Seq(Entries), q # <<>>
  PROVE  /\ Texts(q) \in Seq(Msg) /\ Texts(q) # <<>>
         /\ ToSet(Texts(q)) \subseteq Waiting(q) /\ Waiting(q) \ MediaOnly \subseteq ToSet(Texts(q))
         /\ EntriesOrdered(q) => Ordered(Texts(q))
<1> DEFINE N == Len(q)
           Next1(f, i) == IF i = 1 THEN q[1].msgs ELSE f[i - 1] \o Text(q[i].msgs)
           Solves(f, n) == \A i \in 1..n : f[i] = Next1(f, i)
           None == {n \in 1..N : ~\E f \in [1..n -> Seq(Msg)] : Solves(f, n)}
<1>1. N \in Nat \ {0} /\ \A i \in 1..N : q[i] \in Entries /\ q[i].msgs \in Seq(Msg) /\ q[i].msgs # <<>>
  <2>1. N \in Nat \ {0} /\ \A i \in 1..N : q[i] \in Entries
    OBVIOUS
  <2>2. QED
    BY <2>1 DEF Entries
<1>2. \A i \in 1..N : Text(q[i].msgs) \in Seq(Msg)
  BY <1>1, TextOfEntry
<1>3. None = {}
  <2> SUFFICES ASSUME None # {} PROVE FALSE
    OBVIOUS
  <2>1. None \subseteq Nat
    BY <1>1
  <2> HIDE DEF None
  <2>2. PICK n \in None : \A k \in None : n <= k
    BY <2>1, Least
  <2>3. n \in 1..N /\ n # 1
    <3>1. Solves([i \in 1..1 |-> q[1].msgs], 1) /\ [i \in 1..1 |-> q[1].msgs] \in [1..1 -> Seq(Msg)]
      BY <1>1
    <3>2. 1 \notin None
      BY <3>1 DEF None
    <3>3. QED
      BY <3>2, <2>2 DEF None
  <2>4. PICK f \in [1..n - 1 -> Seq(Msg)] : Solves(f, n - 1)
    <3>1. n - 1 \in 1..N /\ n - 1 \notin None
      BY <2>2, <2>3, <1>1
    <3> HIDE DEF Solves
    <3>2. QED
      BY <3>1 DEF None
  <2> DEFINE g == [i \in 1..n |-> IF i = n THEN Next1(f, n) ELSE f[i]]
  <2>5. Next1(f, n) \in Seq(Msg)
    BY <2>3, <2>4, <1>1, <1>2
  <2>6. g \in [1..n -> Seq(Msg)]
    BY <2>3, <2>4, <2>5
  <2>7. Solves(g, n)
    <3> SUFFICES ASSUME NEW i \in 1..n PROVE g[i] = Next1(g, i)
      OBVIOUS
    <3>1. CASE i = n
      <4>1. n - 1 \in 1..n /\ n - 1 # n
        BY <2>3, <1>1
      <4>2. g[n - 1] = f[n - 1] /\ g[n] = Next1(f, n)
        BY <4>1, <2>3, <1>1
      <4>3. QED
        BY <3>1, <4>2
    <3>2. CASE i # n
      <4>0. i \in 1..n - 1
        BY <3>2, <2>3, <1>1
      <4> HIDE DEF Next1
      <4>1. g[i] = f[i] /\ f[i] = Next1(f, i)
        BY <4>0, <3>2, <2>4
      <4>2. i = 1 \/ g[i - 1] = f[i - 1]
        BY <4>0, <2>3, <1>1
      <4>3. QED
        BY <4>1, <4>2 DEF Next1
    <3>3. QED
      BY <3>1, <3>2
  <2>8. QED
    BY <2>2, <2>6, <2>7 DEF None
<1> DEFINE h == CHOOSE h : h = [i \in 1..N |-> Next1(h, i)]
<1>4. h = [i \in 1..N |-> Next1(h, i)]
  <2>1. PICK f \in [1..N -> Seq(Msg)] : Solves(f, N)
    <3> HIDE DEF Solves, N
    <3>1. N \in 1..N
      BY <1>1
    <3>2. QED
      BY <3>1, <1>3
  <2>2. f = [i \in 1..N |-> Next1(f, i)]
    BY <2>1
  <2> HIDE DEF Next1
  <2>3. QED
    BY <2>2
<1>5. Texts(q) = h[N]
  BY DEF Texts
<1> HIDE DEF h
<1> DEFINE Bad == {i \in 1..N : ~MergeOf(q, i, h[i])}
<1>6. Bad = {}
  <2> SUFFICES ASSUME Bad # {} PROVE FALSE
    OBVIOUS
  <2>1. Bad \subseteq Nat
    BY <1>1
  <2> HIDE DEF Bad
  <2>2. PICK n \in Bad : \A k \in Bad : n <= k
    BY <2>1, Least
  <2>3. n \in 1..N /\ h[n] = Next1(h, n)
    BY <2>2, <1>4 DEF Bad
  <2>4. CASE n = 1
    <3>1. h[n] = q[1].msgs
      BY <2>3, <2>4
    <3>2. \A k \in 1..n : k = 1
      BY <2>4
    <3>3. 1 \in DOMAIN q
      BY <1>1
    <3>4. MergeOf(q, n, q[1].msgs)
      BY <2>4, <3>2, <3>3, <1>1 DEF MergeOf, EntriesOrdered
    <3>5. QED
      BY <3>1, <3>4, <2>2 DEF Bad
  <2>5. CASE n # 1
    <3>1. h[n] = h[n - 1] \o Text(q[n].msgs)
      BY <2>3, <2>5
    <3>2. n \in 2..Len(q) /\ n - 1 \in 1..N /\ n - 1 \notin Bad
      BY <2>2, <2>3, <2>5, <1>1
    <3>3. MergeOf(q, n - 1, h[n - 1])
      BY <3>2 DEF Bad
    <3>4. MergeOf(q, n, h[n])
      BY <3>1, <3>2, <3>3, MergeStep
    <3>5. QED
      BY <3>4, <2>2 DEF Bad
  <2>6. QED
    BY <2>4, <2>5
<1>7. MergeOf(q, N, h[N])
  <2> HIDE DEF N
  <2>1. N \in 1..N
    BY <1>1
  <2>2. QED
    BY <2>1, <1>6
<1>8. DOMAIN q = 1..N
  OBVIOUS
<1> HIDE DEF N
<1>9. QED
  BY <1>5, <1>7, <1>8, WaitingIn DEF MergeOf

(***************************************************************************)
(* What the actions do to the sessions and to the other turns.             *)
(***************************************************************************)
\* Closing, arming and running a session change one field of one session.
LEMMA SessionChanges ==
  ASSUME session \in Seq(Sessions), NEW s \in 1..Len(session), NEW o \in Owners
  PROVE  /\ Closed(s) \in Seq(Sessions) /\ Len(Closed(s)) = Len(session)
         /\ [session EXCEPT ![s].cancel = o] \in Seq(Sessions)
         /\ Len([session EXCEPT ![s].cancel = o]) = Len(session)
         /\ [session EXCEPT ![s].runs = o] \in Seq(Sessions)
         /\ Len([session EXCEPT ![s].runs = o]) = Len(session)
<1>1. session[s] \in Sessions
  OBVIOUS
<1>2. ASSUME NEW e \in Sessions
      PROVE  [session EXCEPT ![s] = e] \in Seq(Sessions) /\ Len([session EXCEPT ![s] = e]) = Len(session)
  BY ExceptSeq
<1>3. /\ [session[s] EXCEPT !.open = FALSE] \in Sessions
      /\ [session[s] EXCEPT !.cancel = o] \in Sessions
      /\ [session[s] EXCEPT !.runs = o] \in Sessions
  BY <1>1 DEF Sessions
<1>4. /\ Closed(s) = [session EXCEPT ![s] = [session[s] EXCEPT !.open = FALSE]]
      /\ [session EXCEPT ![s].cancel = o] = [session EXCEPT ![s] = [session[s] EXCEPT !.cancel = o]]
      /\ [session EXCEPT ![s].runs = o] = [session EXCEPT ![s] = [session[s] EXCEPT !.runs = o]]
  BY DEF Closed
<1>5. QED
  BY <1>2, <1>3, <1>4

\* A turn the step leaves alone, but for its cancellation.
Kept(h) ==
  /\ turn'[h].pc = turn[h].pc /\ turn'[h].msgs = turn[h].msgs
  /\ turn'[h].round = turn[h].round /\ turn'[h].at = turn[h].at

\* A cancellation reaches into a turn's context and into nothing else.
LEMMA HitKeeps ==
  ASSUME turn \in [Msg -> Turns], NEW t
  PROVE  /\ Hit(t) \in [Msg -> Turns]
         /\ \A h \in Msg : /\ Hit(t)[h].pc = turn[h].pc /\ Hit(t)[h].msgs = turn[h].msgs
                           /\ Hit(t)[h].round = turn[h].round /\ Hit(t)[h].at = turn[h].at
  BY DEF Hit, Turns, TurnSteps

\* The turn g goes to p with its messages, and the other turns are left alone.
Moves(g, p) ==
  /\ turn' \in [Msg -> Turns] /\ \A h \in Msg \ {g} : Kept(h)
  /\ turn'[g].pc = p /\ turn'[g].msgs = turn[g].msgs /\ turn'[g].round = turn[g].round
Stays == turn' \in [Msg -> Turns] /\ \A h \in Msg : Kept(h)

\* Before its message arrives and after its goroutine is over a turn has nothing.
LEMMA NoTurnIs == NoTurn \in Turns /\ NoTurn.pc = "none" /\ NoTurn.msgs = <<>> /\ NoTurn.at = 0
<1>1. <<>> \in Seq(Msg)
  OBVIOUS
<1>2. NoTurn \in Turns
  BY <1>1, Zenon DEF NoTurn, Turns, TurnSteps
<1>3. QED
  BY <1>2 DEF NoTurn

\* What an update of a turn's fields comes to.
LEMMA Going ==
  ASSUME NEW f \in [Msg -> Turns], NEW g \in Msg, NEW p \in TurnSteps, NEW s \in Nat,
         \A h \in Msg : /\ f[h].pc = turn[h].pc /\ f[h].msgs = turn[h].msgs
                        /\ f[h].round = turn[h].round /\ f[h].at = turn[h].at
  PROVE  /\ turn' = [f EXCEPT ![g].pc = p] => Moves(g, p) /\ turn'[g].at = turn[g].at
         /\ turn' = [f EXCEPT ![g].pc = p, ![g].wants = s] => Moves(g, p) /\ turn'[g].at = turn[g].at
         /\ turn' = [f EXCEPT ![g].pc = p, ![g].at = s] => Moves(g, p) /\ turn'[g].at = s
         /\ turn' = f => Stays
<1> USE DEF Moves, Kept, Stays, Turns
<1>1. turn' = [f EXCEPT ![g].pc = p] => Moves(g, p) /\ turn'[g].at = turn[g].at
  OBVIOUS
<1>2. turn' = [f EXCEPT ![g].pc = p, ![g].wants = s] => Moves(g, p) /\ turn'[g].at = turn[g].at
  <2> DEFINE e == [f[g] EXCEPT !.pc = p, !.wants = s]
  <2>1. f[g] \in Turns
    OBVIOUS
  <2>2. e \in Turns /\ e.pc = p /\ e.msgs = f[g].msgs /\ e.round = f[g].round
        /\ e.at = f[g].at
    BY <2>1
  <2>3. [f EXCEPT ![g].pc = p, ![g].wants = s] = [f EXCEPT ![g] = e]
    OBVIOUS
  <2> HIDE DEF e
  <2>4. QED
    BY <2>2, <2>3
<1>3. turn' = [f EXCEPT ![g].pc = p, ![g].at = s] => Moves(g, p) /\ turn'[g].at = s
  <2> DEFINE e == [f[g] EXCEPT !.pc = p, !.at = s]
  <2>1. f[g] \in Turns
    OBVIOUS
  <2>2. e \in Turns /\ e.pc = p /\ e.msgs = f[g].msgs /\ e.round = f[g].round
        /\ e.at = s
    BY <2>1
  <2>3. [f EXCEPT ![g].pc = p, ![g].at = s] = [f EXCEPT ![g] = e]
    OBVIOUS
  <2> HIDE DEF e
  <2>4. QED
    BY <2>2, <2>3
<1>4. turn' = f => Stays
  OBVIOUS
<1>5. QED
  BY <1>1, <1>2, <1>3, <1>4

\* The steps of a turn, as far as the other turns, its own step and the sessions go.
Matched(g) ==
  current # 0 /\ Moves(g, "arm") /\ turn'[g].at = current /\ UNCHANGED <<session, current>>
Missed(g) ==
  /\ Moves(g, "build") /\ turn'[g].at = turn[g].at /\ current' = 0
  /\ IF current = 0 THEN UNCHANGED session ELSE session' = Closed(current)
Built(g) ==
  /\ Moves(g, "register") /\ turn'[g].at = Len(session) + 1
  /\ session' = Append(session, New(turn[g].wants)) /\ UNCHANGED <<fails, excused>>
Failed(g) ==
  /\ Moves(g, "release") /\ turn'[g].at = turn[g].at
  /\ excused' = excused \cup ToSet(turn[g].msgs) /\ fails' = fails + 1 /\ UNCHANGED session
Yields(g) ==
  /\ current # 0 /\ Moves(g, "arm") /\ turn'[g].at = current
  /\ UNCHANGED current /\ session' = Closed(turn[g].at)
Registers(g) ==
  /\ Moves(g, "arm") /\ turn'[g].at = turn[g].at /\ current' = turn[g].at
  /\ IF current = 0 THEN UNCHANGED session ELSE session' = Closed(current)

LEMMA LooksEffect ==
  ASSUME Types, NEW g \in Msg
  PROVE  /\ ReadProfile(g) => Moves(g, "look") /\ turn'[g].at = turn[g].at
         /\ LookUp(g) => Matched(g) \/ Missed(g)
         /\ Build(g) => Built(g) \/ Failed(g)
         /\ Register(g) => Yields(g) \/ Registers(g)
<1> USE DEF Types, QueueTypes, TurnTypes
<1>1. turn \in [Msg -> Turns] /\ profile \in Nat /\ current \in Nat /\ Len(session) \in Nat
  OBVIOUS
<1>2. turn[g].at \in Nat
  BY <1>1 DEF Turns
<1> DEFINE hit == Hit(session[current].cancel)
<1>3. hit \in [Msg -> Turns]
      /\ \A h \in Msg : /\ hit[h].pc = turn[h].pc /\ hit[h].msgs = turn[h].msgs
                        /\ hit[h].round = turn[h].round /\ hit[h].at = turn[h].at
  BY <1>1, HitKeeps
<1> HIDE DEF hit
<1>4. \A p \in TurnSteps, s \in Nat :
        /\ turn' = [turn EXCEPT ![g].pc = p] => Moves(g, p) /\ turn'[g].at = turn[g].at
        /\ turn' = [turn EXCEPT ![g].pc = p, ![g].wants = s] => Moves(g, p) /\ turn'[g].at = turn[g].at
        /\ turn' = [turn EXCEPT ![g].pc = p, ![g].at = s] => Moves(g, p) /\ turn'[g].at = s
  <2> TAKE p \in TurnSteps, s \in Nat
  <2> HIDE DEF Types, QueueTypes, TurnTypes
  <2>1. QED
    BY <1>1, Going
<1>5. \A p \in TurnSteps, s \in Nat :
        /\ turn' = [hit EXCEPT ![g].pc = p] => Moves(g, p) /\ turn'[g].at = turn[g].at
        /\ turn' = [hit EXCEPT ![g].pc = p, ![g].at = s] => Moves(g, p) /\ turn'[g].at = s
  <2> TAKE p \in TurnSteps, s \in Nat
  <2> HIDE DEF Types, QueueTypes, TurnTypes
  <2>1. QED
    BY <1>3, Going
<1>6. {"look", "arm", "build", "register", "release"} \subseteq TurnSteps
  BY DEF TurnSteps
<1> HIDE DEF Types, QueueTypes, TurnTypes
<1>7. ReadProfile(g) => Moves(g, "look") /\ turn'[g].at = turn[g].at
  BY <1>1, <1>4, <1>6 DEF ReadProfile
<1>8. LookUp(g) => Matched(g) \/ Missed(g)
  <2> SUFFICES ASSUME LookUp(g) PROVE Matched(g) \/ Missed(g)
    OBVIOUS
  <2>1. CASE Matches(g) /\ turn' = Uses(turn, g, current) /\ UNCHANGED <<session, current>>
    BY <2>1, <1>1, <1>4, <1>6 DEF Matches, Uses, Matched
  <2>2. CASE current = 0 /\ Goes(g, "build") /\ UNCHANGED <<session, current>>
    BY <2>2, <1>1, <1>4, <1>6 DEF Goes, Missed
  <2>3. CASE /\ current # 0 /\ turn' = [Hit(session[current].cancel) EXCEPT ![g].pc = "build"]
             /\ session' = Closed(current) /\ current' = 0
    BY <2>3, <1>1, <1>5, <1>6 DEF Missed, hit
  <2>4. QED
    BY <2>1, <2>2, <2>3 DEF LookUp
<1>9. Build(g) => Built(g) \/ Failed(g)
  <2> SUFFICES ASSUME Build(g) PROVE Built(g) \/ Failed(g)
    OBVIOUS
  <2>1. CASE /\ turn' = [turn EXCEPT ![g].pc = "register", ![g].at = Len(session) + 1]
             /\ session' = Append(session, New(turn[g].wants)) /\ UNCHANGED <<fails, excused>>
    <3>1. Len(session) + 1 \in Nat
      BY <1>1
    <3>2. Moves(g, "register") /\ turn'[g].at = Len(session) + 1
      BY <2>1, <3>1, <1>4, <1>6
    <3>3. QED
      BY <2>1, <3>2 DEF Built
  <2>2. CASE /\ fails' = fails + 1 /\ excused' = excused \cup ToSet(turn[g].msgs)
             /\ Goes(g, "release") /\ UNCHANGED session
    BY <2>2, <1>1, <1>4, <1>6 DEF Goes, Failed
  <2>3. QED
    BY <2>1, <2>2 DEF Build
<1>10. Register(g) => Yields(g) \/ Registers(g)
  <2> SUFFICES ASSUME Register(g) PROVE Yields(g) \/ Registers(g)
    OBVIOUS
  <2>1. CASE /\ Matches(g) /\ turn' = Uses(turn, g, current) /\ session' = Closed(turn[g].at)
             /\ UNCHANGED current
    BY <2>1, <1>1, <1>4, <1>6 DEF Matches, Uses, Yields
  <2>2. CASE /\ current' = turn[g].at /\ current = 0 /\ turn' = Uses(turn, g, turn[g].at)
             /\ UNCHANGED session
    BY <2>2, <1>1, <1>2, <1>4, <1>6 DEF Uses, Registers
  <2>3. CASE /\ current' = turn[g].at /\ current # 0 /\ session' = Closed(current)
             /\ turn' = Uses(Hit(session[current].cancel), g, turn[g].at)
    BY <2>3, <1>1, <1>2, <1>5, <1>6 DEF Uses, Registers, hit
  <2>4. QED
    BY <2>1, <2>2, <2>3 DEF Register
<1>11. QED
  BY <1>7, <1>8, <1>9, <1>10

Armed(g) ==
  /\ turn[g].pc = "arm" /\ Moves(g, "admit") /\ turn'[g].at = turn[g].at
  /\ session' = [session EXCEPT ![turn[g].at].cancel = <<g, turn[g].round>>]
Admitted(g) ==
  /\ turn[g].pc = "admit" /\ Moves(g, "run") /\ turn'[g].at = turn[g].at
  /\ session' = [session EXCEPT ![turn[g].at].runs = <<g, turn[g].round>>]
  /\ served' = served \o turn[g].msgs /\ UNCHANGED excused
Refused(g) ==
  /\ turn[g].pc = "admit" /\ Moves(g, "release") /\ turn'[g].at = turn[g].at
  /\ excused' = excused \cup ToSet(turn[g].msgs) /\ UNCHANGED <<session, served>>
Ended(g) ==
  /\ turn[g].pc = "run" /\ Moves(g, "release") /\ turn'[g].at = turn[g].at
  /\ session' = [session EXCEPT ![turn[g].at].runs = Nobody]
Others(g) == turn' \in [Msg -> Turns] /\ \A h \in Msg \ {g} : Kept(h)
Over(g) ==
  /\ turn[g].pc = "release" /\ Others(g) /\ turn'[g].pc = "over" /\ turn'[g].msgs = <<>> /\ turn'[g].at = 0
  /\ pending = <<>> /\ active' = FALSE /\ dropped' = <<>> /\ UNCHANGED <<pending, excused>>
Follows(g) ==
  /\ turn[g].pc = "release" /\ Others(g) /\ turn'[g].pc = "profile" /\ turn'[g].at = 0
  /\ pending # <<>> /\ turn'[g].msgs = Merged
  /\ pending' = IF pending[1].mode = "followup" THEN Tail(pending) ELSE <<>>
  /\ excused' = excused \cup ToSet(dropped) /\ dropped' = <<>> /\ UNCHANGED active

\* The next turn's messages are the merge of the entries it takes from the queue.
LEMMA MergedIs ==
  ASSUME pending \in Seq(Entries), pending # <<>>
  PROVE  /\ Merged \in Seq(Msg) /\ Merged # <<>>
         /\ pending[1].mode = "followup" =>
              Merged = pending[1].msgs /\ Waiting(pending) = ToSet(Merged) \cup Waiting(Tail(pending))
         /\ pending[1].mode # "followup" =>
              Merged = Texts(pending) /\ Waiting(pending) \ MediaOnly \subseteq ToSet(Merged)
         /\ ToSet(Merged) \subseteq Waiting(pending)
<1>1. pending[1] \in Entries
  OBVIOUS
<1>2. Waiting(pending) = ToSet(pending[1].msgs) \cup Waiting(Tail(pending))
  BY <1>1, Queues
<1>3. pending[1].msgs \in Seq(Msg) /\ pending[1].msgs # <<>>
  BY <1>1 DEF Entries
<1>4. QED
  BY <1>2, <1>3, TextsOfQueue DEF Merged

LEMMA RunsEffect ==
  ASSUME Types, NEW g \in Msg
  PROVE  /\ Arm(g) => Armed(g)
         /\ RunTurn(g) => Admitted(g) \/ Refused(g)
         /\ TurnEnds(g) => Ended(g)
         /\ Release(g) => Over(g) \/ Follows(g)
<1> USE DEF Types, QueueTypes, TurnTypes
<1>1. turn \in [Msg -> Turns] /\ pending \in Seq(Entries) /\ turn[g] \in Turns
  OBVIOUS
<1>2. \A p \in TurnSteps : turn' = [turn EXCEPT ![g].pc = p] => Moves(g, p) /\ turn'[g].at = turn[g].at
  <2> TAKE p \in TurnSteps
  <2> HIDE DEF Types, QueueTypes, TurnTypes
  <2>1. 0 \in Nat
    OBVIOUS
  <2>2. QED
    BY <1>1, <2>1, Going
<1> HIDE DEF Types, QueueTypes, TurnTypes
<1>3. {"admit", "run", "release"} \subseteq TurnSteps
  BY DEF TurnSteps
<1>4. Arm(g) => Armed(g)
  BY <1>2, <1>3 DEF Arm, Armed, Goes
<1>5. RunTurn(g) => Admitted(g) \/ Refused(g)
  <2> SUFFICES ASSUME RunTurn(g) PROVE Admitted(g) \/ Refused(g)
    OBVIOUS
  <2>1. CASE Goes(g, "run") /\ UNCHANGED excused
             /\ session' = [session EXCEPT ![turn[g].at].runs = <<g, turn[g].round>>]
             /\ served' = served \o turn[g].msgs
    BY <2>1, <1>2, <1>3 DEF RunTurn, Admitted, Goes
  <2>2. CASE Goes(g, "release") /\ UNCHANGED <<session, served>>
             /\ excused' = excused \cup ToSet(turn[g].msgs)
    BY <2>2, <1>2, <1>3 DEF RunTurn, Refused, Goes
  <2>3. QED
    BY <2>1, <2>2 DEF RunTurn
<1>6. TurnEnds(g) => Ended(g)
  BY <1>2, <1>3 DEF TurnEnds, Ended, Goes
<1>7. Release(g) => Over(g) \/ Follows(g)
  <2> SUFFICES ASSUME Release(g) PROVE Over(g) \/ Follows(g)
    OBVIOUS
  <2>1. CASE pending = <<>>
    <3> DEFINE t == [NoTurn EXCEPT !.pc = "over"]
    <3>1. t \in Turns /\ t.pc = "over" /\ t.msgs = <<>> /\ t.at = 0
      <4>1. [NoTurn EXCEPT !.pc = "over"].msgs = <<>>
        BY NoTurnIs DEF Turns
      <4>2. QED
        BY <4>1, NoTurnIs DEF Turns, TurnSteps
    <3>2. turn' = [turn EXCEPT ![g] = t]
      BY <2>1 DEF Release
    <3> HIDE DEF t
    <3>3. Others(g) /\ turn'[g] = t
      BY <1>1, <3>1, <3>2 DEF Others, Kept
    <3>4. QED
      BY <2>1, <3>1, <3>3 DEF Release, Over
  <2>2. CASE pending # <<>>
    <3> DEFINE t == [NoTurn EXCEPT !.pc = "profile", !.msgs = Merged, !.round = turn[g].round + 1]
    <3>1. Merged \in Seq(Msg)
      BY <1>1, <2>2, MergedIs
    <3>2. t \in Turns /\ t.pc = "profile" /\ t.msgs = Merged /\ t.at = 0
      <4>1. NoTurn \in Turns
        BY NoTurnIs
      <4>2. turn[g].round + 1 \in Nat
        BY <1>1 DEF Turns
      <4>3. QED
        BY <4>1, <4>2, <3>1, NoTurnIs DEF Turns, TurnSteps
    <3>3. turn' = [turn EXCEPT ![g] = t]
      BY <2>2 DEF Release
    <3> HIDE DEF t
    <3>4. Others(g) /\ turn'[g] = t
      BY <1>1, <3>2, <3>3 DEF Others, Kept
    <3>5. QED
      BY <2>2, <3>2, <3>4 DEF Release, Follows
  <2>3. QED
    BY <2>1, <2>2
<1>8. QED
  BY <1>4, <1>5, <1>6, <1>7

\* A message that takes the free key starts its turn.
Begins(m) ==
  Others(m) /\ turn'[m].pc = "profile" /\ turn'[m].msgs = <<m>> /\ turn'[m].at = 0
LEMMA BeginsEffect ==
  ASSUME Types, NEW m \in Msg
  PROVE  turn' = Begun(m, <<m>>) => Begins(m)
<1> DEFINE t == [NoTurn EXCEPT !.pc = "profile", !.msgs = <<m>>]
<1>1. t \in Turns /\ t.pc = "profile" /\ t.msgs = <<m>> /\ t.at = 0
  <2>1. NoTurn \in Turns
    BY NoTurnIs
  <2>2. <<m>> \in Seq(Msg)
    OBVIOUS
  <2>3. QED
    BY <2>1, <2>2, NoTurnIs DEF Turns, TurnSteps
<1>2. Begun(m, <<m>>) = [turn EXCEPT ![m] = t]
  BY DEF Begun
<1>3. turn \in [Msg -> Turns]
  BY DEF Types, TurnTypes
<1> HIDE DEF t
<1>4. QED
  BY <1>1, <1>2, <1>3 DEF Begins, Others, Kept

(***************************************************************************)
(* The types.                                                              *)
(***************************************************************************)
\* The initial state satisfies the inductive invariant.
LEMMA InitBotInv == BotInit => BotInv
<1> SUFFICES ASSUME BotInit PROVE BotInv
  OBVIOUS
<1> USE BotAssumption DEF BotAssumption, BotInit
<1>0. Live = {} /\ turn \in [Msg -> Turns] /\ \A g \in Msg : turn[g].pc = "none"
  BY NoTurnIs DEF Live
<1>1. Types
  <2>1. <<>> \in Seq(Msg) /\ <<>> \in Seq(Entries) /\ <<>> \in Seq(Sessions) /\ Len(<<>>) = 0
    OBVIOUS
  <2>2. disp \in [pc : DispSteps, msg : 0..Messages, mode : Modes]
    BY DEF Resting, DispSteps, Modes
  <2>3. QueueTypes
    BY <2>1, <2>2 DEF QueueTypes
  <2>4. TurnTypes
    BY <1>0, <2>1 DEF TurnTypes
  <2>5. QED
    BY <2>3, <2>4, Zenon DEF Types, FlagTypes
<1>2. DispInv
  BY <1>0 DEF DispInv, Resting
<1>3. QueueInv
  BY DEF QueueInv, KeyHasARunnerUnlessOrphaned, KeyHasARunner, SummariesHaveATurn
<1>4. AccountInv
  <2>1. Dispatched = {}
    BY DEF Dispatched
  <2>2. QED
    BY <1>0, <2>1 DEF AccountInv, NothingVanishes
<1>5. AloneInv
  BY <1>0 DEF AloneInv
<1>6. OrderInv
  <2>1. ToSet(<<>>) = {} /\ Waiting(<<>>) = {}
    BY FewElements DEF Waiting
  <2>2. QED
    BY <1>0, <2>1 DEF OrderInv, EntriesOrdered, Ordered, Precede
<1>7. SessionsDoNotLeak
  BY DEF SessionsDoNotLeak
<1>8. QED
  BY <1>1, <1>2, <1>3, <1>4, <1>5, <1>6, <1>7 DEF BotInv

\* What a turn's steps leave alone.
LEMMA RunsFrame ==
  ASSUME NEW g
  PROVE  /\ Runs(g) => UNCHANGED <<next, drop, disp, profile, forced, orphaned>>
         /\ Runs(g) /\ ~Release(g) => UNCHANGED queue
         /\ ReadProfile(g) => UNCHANGED <<session, current, fails, served, excused>>
         /\ LookUp(g) \/ Register(g) => UNCHANGED <<fails, served, excused>>
         /\ Build(g) => UNCHANGED <<current, served>>
         /\ Arm(g) \/ TurnEnds(g) => UNCHANGED <<current, fails, served, excused>>
         /\ RunTurn(g) => UNCHANGED <<current, fails>>
         /\ Release(g) => UNCHANGED <<session, current, fails, served>>
<1> USE DEF queue, history
<1>1. ReadProfile(g) => UNCHANGED <<next, drop, disp, queue, profile, forced, orphaned, session, current, fails, served, excused>>
  BY DEF ReadProfile
<1>2. LookUp(g) => UNCHANGED <<next, drop, disp, queue, profile, forced, orphaned, fails, served, excused>>
  BY DEF LookUp
<1>3. Register(g) => UNCHANGED <<next, drop, disp, queue, profile, forced, orphaned, fails, served, excused>>
  BY DEF Register
<1>4. Build(g) => UNCHANGED <<next, drop, disp, queue, profile, forced, orphaned, current, served>>
  BY DEF Build
<1>5. Arm(g) \/ TurnEnds(g) =>
        UNCHANGED <<next, drop, disp, queue, profile, forced, orphaned, current, fails, served, excused>>
  BY DEF Arm, TurnEnds
<1>6. RunTurn(g) => UNCHANGED <<next, drop, disp, queue, profile, forced, orphaned, current, fails>>
  BY DEF RunTurn
<1>7. Release(g) => UNCHANGED <<next, drop, disp, profile, forced, orphaned, session, current, fails, served>>
  BY DEF Release
<1>8. QED
  BY <1>1, <1>2, <1>3, <1>4, <1>5, <1>6, <1>7 DEF Runs

\* A turn that moves keeps the turns' types when it has a session where it needs one.
LEMMA TurnTypesStep ==
  ASSUME TurnTypes, NEW g \in Live, Others(g), current' \in 0..Len(session'),
         session' \in Seq(Sessions), Len(session') >= Len(session),
         turn'[g].at \in 0..Len(session'), turn'[g].msgs # <<>> \/ turn'[g].pc = "over",
         turn'[g].pc \in {"register", "arm", "admit", "run"} => turn'[g].at # 0
  PROVE  TurnTypes'
<1>1. Len(session) \in Nat /\ Len(session') \in Nat
  BY DEF TurnTypes
<1>2. \A h \in Live' : h = g \/ (h \in Live /\ Kept(h))
  BY DEF Live, Others, Kept
<1>3. \A h \in Live' : turn'[h].at \in 0..Len(session') /\ turn'[h].msgs # <<>>
  <2> SUFFICES ASSUME NEW h \in Live' PROVE turn'[h].at \in 0..Len(session') /\ turn'[h].msgs # <<>>
    OBVIOUS
  <2>1. CASE h = g
    BY <2>1 DEF Live
  <2>2. CASE h # g
    BY <1>1, <1>2, <2>2 DEF TurnTypes, Kept
  <2>3. QED
    BY <2>1, <2>2
<1>4. \A h \in Live' : turn'[h].pc \in {"register", "arm", "admit", "run"} => turn'[h].at # 0
  BY <1>2 DEF TurnTypes, Kept
<1>5. QED
  BY <1>3, <1>4 DEF TurnTypes, Others

\* Every step of a turn keeps the types.
LEMMA TypesRuns ==
  ASSUME Types, NEW g \in Msg, Runs(g)
  PROVE  Types'
<1> USE BotAssumption DEF BotAssumption
<1>1. UNCHANGED <<next, drop, disp, profile, forced, orphaned>>
  BY RunsFrame
<1>0. QueueTypes /\ FlagTypes /\ TurnTypes
  BY DEF Types
<1>2. g \in 0..Messages /\ turn[g] \in Turns /\ turn[g].round \in Nat /\ turn[g].at \in Nat
      /\ turn[g].wants \in Nat /\ turn[g].msgs \in Seq(Msg) /\ ToSet(turn[g].msgs) \subseteq Msg
  <2>1. turn[g] \in Turns
    BY <1>0 DEF TurnTypes
  <2>2. turn[g].msgs \in Seq(Msg)
    BY <2>1 DEF Turns
  <2>3. ToSet(turn[g].msgs) \subseteq Msg
    BY <2>2 DEF ToSet
  <2>4. QED
    BY <2>1, <2>2, <2>3 DEF Turns, Msg
<1>3. <<g, turn[g].round>> \in Owners /\ Nobody \in Owners
  BY <1>2 DEF Owners, Nobody
<1>4. session \in Seq(Sessions) /\ current \in 0..Len(session) /\ Len(session) \in Nat
  BY <1>0 DEF TurnTypes
<1>5. \A s \in 1..Len(session), o \in Owners :
        /\ Closed(s) \in Seq(Sessions) /\ Len(Closed(s)) = Len(session)
        /\ [session EXCEPT ![s].cancel = o] \in Seq(Sessions)
        /\ Len([session EXCEPT ![s].cancel = o]) = Len(session)
        /\ [session EXCEPT ![s].runs = o] \in Seq(Sessions)
        /\ Len([session EXCEPT ![s].runs = o]) = Len(session)
  BY <1>4, SessionChanges
<1>6. turn[g].pc \in {"register", "arm", "admit", "run"} => turn[g].at \in 1..Len(session)
  BY <1>0, <1>4 DEF TurnTypes, Live
<1>7. g \in Live /\ turn[g].at \in 0..Len(session) /\ turn[g].msgs # <<>>
  <2>1. g \in Live
    BY DEF Live, Runs, ReadProfile, LookUp, Build, Register, Arm, RunTurn, TurnEnds, Release
  <2>2. QED
    BY <1>0, <2>1 DEF TurnTypes
<1>8. ASSUME NEW p \in TurnSteps, Moves(g, p), session' \in Seq(Sessions), Len(session') >= Len(session),
             current' \in 0..Len(session'), turn'[g].at \in 0..Len(session'),
             p \in {"register", "arm", "admit", "run"} => turn'[g].at # 0
      PROVE  TurnTypes'
  <2>1. Others(g) /\ turn'[g].msgs # <<>> /\ turn'[g].pc = p
    BY <1>7, <1>8 DEF Moves, Others
  <2>2. QED
    BY <1>0, <1>7, <1>8, <2>1, TurnTypesStep
<1>9. ASSUME UNCHANGED <<pending, dropped>>, served' \in Seq(Msg), excused' \subseteq Msg, fails' \in Nat
      PROVE  QueueTypes'
  BY <1>0, <1>1, <1>9 DEF QueueTypes
<1>10. ASSUME active' \in BOOLEAN PROVE FlagTypes'
  BY <1>0, <1>1, <1>10, Zenon DEF FlagTypes
<1>11. active \in BOOLEAN /\ fails \in Nat /\ served \in Seq(Msg) /\ excused \subseteq Msg
  BY <1>0 DEF QueueTypes, FlagTypes
<1> HIDE DEF BotAssumption
<1>12. CASE ReadProfile(g)
  <2>1. Moves(g, "look") /\ turn'[g].at = turn[g].at /\ turn[g].pc = "profile"
    BY <1>12, LooksEffect DEF ReadProfile
  <2>2. UNCHANGED <<active, pending, dropped, session, current, fails, served, excused>>
    BY <1>12, RunsFrame DEF Release, ReadProfile, queue
  <2>3. TurnTypes'
    BY <1>4, <1>7, <1>8, <2>1, <2>2 DEF TurnSteps
  <2>4. QED
    BY <1>9, <1>10, <1>11, <2>2, <2>3 DEF Types
<1>13. CASE LookUp(g)
  <2>1. UNCHANGED <<active, pending, dropped, fails, served, excused>> /\ turn[g].pc = "look"
    BY <1>13, RunsFrame DEF Release, LookUp, queue
  <2>2. ASSUME Matched(g) PROVE TurnTypes'
    BY <1>4, <1>8, <2>2 DEF Matched, TurnSteps
  <2>3. ASSUME Missed(g) PROVE TurnTypes'
    <3>1. session' \in Seq(Sessions) /\ Len(session') = Len(session) /\ current' = 0
      <4>1. CASE current = 0
        BY <1>4, <2>3, <4>1 DEF Missed
      <4>2. CASE current # 0
        <5>1. current \in 1..Len(session)
          BY <1>4, <4>2
        <5>2. session' = Closed(current)
          BY <2>3, <4>2 DEF Missed
        <5>3. QED
          BY <1>3, <1>5, <5>1, <5>2, <2>3 DEF Missed
      <4>3. QED
        BY <4>1, <4>2
    <3>2. QED
      BY <1>4, <1>7, <1>8, <2>3, <3>1 DEF Missed, TurnSteps
  <2>4. TurnTypes'
    BY <1>13, <2>2, <2>3, LooksEffect
  <2>5. QED
    BY <1>9, <1>10, <1>11, <2>1, <2>4 DEF Types
<1>14. CASE Build(g)
  <2>1. UNCHANGED <<active, pending, dropped, current, served>> /\ turn[g].pc = "build"
    BY <1>14, RunsFrame DEF Release, Build, queue
  <2>2. CASE Built(g)
    <3>1. New(turn[g].wants) \in Sessions
      BY <1>2, <1>3, Zenon DEF New, Sessions
    <3>2. session' \in Seq(Sessions) /\ Len(session') = Len(session) + 1
      BY <1>4, <2>2, <3>1 DEF Built
    <3>3. TurnTypes'
      BY <1>4, <1>8, <2>1, <2>2, <3>2 DEF Built, TurnSteps
    <3>4. QED
      BY <1>9, <1>10, <1>11, <2>1, <2>2, <3>3 DEF Types, Built
  <2>3. CASE Failed(g)
    <3>1. TurnTypes'
      BY <1>4, <1>7, <1>8, <2>1, <2>3 DEF Failed, TurnSteps
    <3>2. excused' \subseteq Msg /\ fails' \in Nat
      <4>1. excused' = excused \cup ToSet(turn[g].msgs) /\ fails' = fails + 1
        BY <2>3 DEF Failed
      <4>2. ToSet(turn[g].msgs) \subseteq Msg
        BY <1>2
      <4>3. excused' \subseteq Msg
        BY <1>11, <4>1, <4>2
      <4>4. fails' \in Nat
        BY <1>11, <4>1
      <4>5. QED
        BY <4>3, <4>4
    <3>3. QED
      BY <1>9, <1>10, <1>11, <2>1, <3>1, <3>2 DEF Types
  <2>4. QED
    BY <1>14, <2>2, <2>3, LooksEffect
<1>15. CASE Register(g)
  <2>1. UNCHANGED <<active, pending, dropped, fails, served, excused>> /\ turn[g].pc = "register"
    BY <1>15, RunsFrame DEF Release, Register, queue
  <2>2. turn[g].at \in 1..Len(session)
    BY <1>6, <2>1
  <2>3. ASSUME Yields(g) PROVE TurnTypes'
    <3>1. session' \in Seq(Sessions) /\ Len(session') = Len(session)
      BY <1>3, <1>5, <2>2, <2>3 DEF Yields
    <3>2. QED
      BY <1>4, <1>8, <2>3, <3>1 DEF Yields, TurnSteps
  <2>4. ASSUME Registers(g) PROVE TurnTypes'
    <3>1. session' \in Seq(Sessions) /\ Len(session') = Len(session)
      <4>1. CASE current = 0
        BY <1>4, <2>4, <4>1 DEF Registers
      <4>2. CASE current # 0
        <5>1. current \in 1..Len(session)
          BY <1>4, <4>2
        <5>2. session' = Closed(current)
          BY <2>4, <4>2 DEF Registers
        <5>3. QED
          BY <1>3, <1>5, <5>1, <5>2, <2>4 DEF Registers
      <4>3. QED
        BY <4>1, <4>2
    <3>2. QED
      BY <1>4, <1>8, <2>2, <2>4, <3>1 DEF Registers, TurnSteps
  <2>5. TurnTypes'
    BY <1>15, <2>3, <2>4, LooksEffect
  <2>6. QED
    BY <1>9, <1>10, <1>11, <2>1, <2>5 DEF Types
<1>16. CASE Arm(g)
  <2>1. UNCHANGED <<active, pending, dropped, current, fails, served, excused>> /\ Armed(g)
    BY <1>16, RunsFrame, RunsEffect DEF Release, Arm, queue
  <2>2. turn[g].at \in 1..Len(session)
    BY <1>6, <2>1 DEF Armed
  <2>3. session' \in Seq(Sessions) /\ Len(session') = Len(session)
    BY <1>3, <1>5, <2>1, <2>2 DEF Armed
  <2>4. TurnTypes'
    BY <1>4, <1>8, <2>1, <2>2, <2>3 DEF Armed, TurnSteps
  <2>5. QED
    BY <1>9, <1>10, <1>11, <2>1, <2>4 DEF Types
<1>17. CASE RunTurn(g)
  <2>1. UNCHANGED <<active, pending, dropped, current, fails>>
    BY <1>17, RunsFrame DEF Release, RunTurn, queue
  <2>2. turn[g].at \in 1..Len(session)
    BY <1>6, <1>17 DEF RunTurn
  <2>3. CASE Admitted(g)
    <3>1. session' \in Seq(Sessions) /\ Len(session') = Len(session)
      BY <1>3, <1>5, <2>2, <2>3 DEF Admitted
    <3>2. served' \in Seq(Msg)
      BY <1>2, <1>11, <2>3 DEF Admitted
    <3>3. TurnTypes'
      BY <1>4, <1>8, <2>1, <2>2, <2>3, <3>1 DEF Admitted, TurnSteps
    <3>4. QED
      BY <1>9, <1>10, <1>11, <2>1, <2>3, <3>2, <3>3 DEF Types, Admitted
  <2>4. CASE Refused(g)
    <3>1. excused' \subseteq Msg
      BY <1>2, <1>11, <2>4 DEF Refused
    <3>2. TurnTypes'
      BY <1>4, <1>7, <1>8, <2>1, <2>4 DEF Refused, TurnSteps
    <3>3. QED
      BY <1>9, <1>10, <1>11, <2>1, <2>4, <3>1, <3>2 DEF Types, Refused
  <2>5. QED
    BY <1>17, <2>3, <2>4, RunsEffect
<1>18. CASE TurnEnds(g)
  <2>1. UNCHANGED <<active, pending, dropped, current, fails, served, excused>> /\ Ended(g)
    BY <1>18, RunsFrame, RunsEffect DEF Release, TurnEnds, queue
  <2>2. turn[g].at \in 1..Len(session)
    BY <1>6, <2>1 DEF Ended
  <2>3. session' \in Seq(Sessions) /\ Len(session') = Len(session)
    BY <1>3, <1>5, <2>1, <2>2 DEF Ended
  <2>4. TurnTypes'
    BY <1>4, <1>8, <2>1, <2>2, <2>3 DEF Ended, TurnSteps
  <2>5. QED
    BY <1>9, <1>10, <1>11, <2>1, <2>4 DEF Types
<1>19. CASE Release(g)
  <2>1. UNCHANGED <<session, current, fails, served>>
    BY <1>19, RunsFrame
  <2>2. CASE Over(g)
    <3>1. turn'[g].at \in 0..Len(session)
      BY <2>2, <1>4 DEF Over
    <3>2. TurnTypes'
      BY <1>0, <1>4, <1>7, <2>1, <2>2, <3>1, TurnTypesStep DEF Over
    <3>3. QueueTypes'
      <4>1. <<>> \in Seq(Msg)
        OBVIOUS
      <4>2. QED
        BY <1>0, <1>1, <2>1, <2>2, <4>1 DEF QueueTypes, Over
    <3>4. QED
      BY <1>10, <2>2, <3>2, <3>3 DEF Types, Over
  <2>3. CASE Follows(g)
    <3>1. pending \in Seq(Entries) /\ pending # <<>> /\ dropped \in Seq(Msg)
      BY <1>0, <2>3 DEF Follows, QueueTypes
    <3>2. Merged \in Seq(Msg) /\ Merged # <<>> /\ ToSet(dropped) \subseteq Msg
      BY <3>1, MergedIs DEF ToSet
    <3>3. pending' \in Seq(Entries) /\ Len(pending') <= Cap
      <4>1. Tail(pending) \in Seq(Entries) /\ Len(Tail(pending)) = Len(pending) - 1 /\ Len(pending) <= Cap
        BY <1>0, <3>1 DEF QueueTypes
      <4>2. <<>> \in Seq(Entries) /\ Len(<<>>) = 0 /\ Len(pending) \in Nat /\ Cap \in Nat
        BY <3>1, BotAssumption DEF BotAssumption
      <4>3. QED
        BY <4>1, <4>2, <3>1, <2>3 DEF Follows
    <3>4. TurnTypes'
      BY <1>0, <1>4, <1>7, <2>1, <2>3, <3>2, TurnTypesStep DEF Follows
    <3>5. QueueTypes'
      <4>1. <<>> \in Seq(Msg) /\ excused' \subseteq Msg
        BY <1>11, <2>3, <3>2 DEF Follows
      <4>2. QED
        BY <1>0, <1>1, <2>1, <2>3, <3>3, <4>1 DEF QueueTypes, Follows
    <3>6. QED
      BY <1>10, <1>11, <2>3, <3>4, <3>5 DEF Types, Follows
  <2>4. QED
    BY <1>19, <2>2, <2>3, RunsEffect
<1>20. QED
  BY <1>12, <1>13, <1>14, <1>15, <1>16, <1>17, <1>18, <1>19 DEF Runs

\* A message by itself is an entry, and in order.
LEMMA EntryIs ==
  ASSUME NEW m \in Msg, NEW mode \in Modes
  PROVE  /\ Entry(m, mode) \in Entries /\ ToSet(Entry(m, mode).msgs) = {m}
         /\ Ordered(Entry(m, mode).msgs)
<1>1. <<m>> \in Seq(Msg) /\ <<m>> # <<>> /\ ToSet(<<m>>) = {m} /\ Ordered(<<m>>)
  BY DEF Ordered, ToSet
<1>2. QED
  BY <1>1 DEF Entry, Entries

\* The queue without its front where it is full, and what a queued message makes of it.
LEMMA RoomIs ==
  ASSUME QueueTypes
  PROVE  /\ Room \in Seq(Entries) /\ Len(Room) < Cap
         /\ Full => pending # <<>> /\ pending[1] \in Entries
                    /\ Waiting(pending) = ToSet(pending[1].msgs) \cup Waiting(Room)
         /\ ~Full => Room = pending
         /\ EntriesOrdered(pending) => EntriesOrdered(Room)
         /\ Waiting(Room) \subseteq Waiting(pending)
<1>1. pending \in Seq(Entries) /\ Len(pending) <= Cap /\ Cap \in Nat \ {0} /\ Len(pending) \in Nat
  BY BotAssumption DEF QueueTypes, BotAssumption
<1>2. CASE Full
  <2>1. pending # <<>> /\ pending[1] \in Entries /\ Room = Tail(pending) /\ Len(pending) = Cap
    BY <1>1, <1>2 DEF Full, Room
  <2>2. Room \in Seq(Entries) /\ Waiting(pending) = ToSet(pending[1].msgs) \cup Waiting(Room)
    BY <1>1, <2>1, Queues
  <2>3. Len(Room) = Len(pending) - 1
    BY <1>1, <2>1
  <2>4. EntriesOrdered(pending) => EntriesOrdered(Room)
    BY <1>1, <2>1, QueueOrders
  <2>5. QED
    BY <1>1, <1>2, <2>1, <2>2, <2>3, <2>4
<1>3. CASE ~Full
  BY <1>1, <1>3 DEF Full, Room
<1>4. QED
  BY <1>2, <1>3

LEMMA QueuedIs ==
  ASSUME QueueTypes, NEW m \in Msg, NEW mode \in Modes, NEW q \in QueuedAs(m, mode)
  PROVE  /\ q \in Seq(Entries) /\ q # <<>> /\ Len(q) <= Cap
         /\ Waiting(q) = Waiting(Room) \cup {m}
         /\ EntriesOrdered(Room) /\ Precede(Waiting(Room), {m}) => EntriesOrdered(q)
<1>1. Room \in Seq(Entries) /\ Len(Room) < Cap /\ Len(Room) \in Nat /\ Cap \in Nat
  <2>1. Room \in Seq(Entries) /\ Len(Room) < Cap
    BY RoomIs
  <2>2. QED
    BY <2>1, BotAssumption DEF BotAssumption
<1>2. CASE q = Append(Room, Entry(m, mode))
  <2> DEFINE e == Entry(m, mode)
  <2>1. e \in Entries /\ ToSet(e.msgs) = {m} /\ Ordered(e.msgs)
    BY EntryIs
  <2> HIDE DEF e
  <2>2. Append(Room, e) \in Seq(Entries) /\ Waiting(Append(Room, e)) = Waiting(Room) \cup {m}
    BY <1>1, <2>1, Queues
  <2>3. Len(Append(Room, e)) = Len(Room) + 1 /\ Append(Room, e) # <<>>
    BY <1>1, <2>1
  <2>4. EntriesOrdered(Room) /\ Precede(Waiting(Room), {m}) => EntriesOrdered(Append(Room, e))
    BY <1>1, <2>1, QueueOrders
  <2>5. QED
    BY <1>1, <1>2, <2>2, <2>3, <2>4 DEF e
<1>3. CASE MayMerge(m, mode) /\ q = Joined(m)
  <2>1. Room # <<>> /\ q = [Room EXCEPT ![Len(Room)] = [msgs |-> Append(@.msgs, m), mode |-> "collect"]]
    BY <1>3 DEF MayMerge, Joined
  <2> HIDE DEF Room
  <2>2. /\ q \in Seq(Entries) /\ Len(q) = Len(Room) /\ Waiting(q) = Waiting(Room) \cup {m}
        /\ EntriesOrdered(Room) /\ Precede(Waiting(Room), {m}) => EntriesOrdered(q)
    BY <1>1, <2>1, Joining
  <2>3. q # <<>>
    BY <1>1, <2>1, <2>2
  <2>4. QED
    BY <1>1, <2>2, <2>3
<1>4. QED
  BY <1>2, <1>3 DEF QueuedAs

\* What the dispatch loop's actions do to the turns.
LEMMA DispatchEffect ==
  ASSUME Types
  PROVE  /\ CancelActive => Stays
         /\ Stop => Stays
         /\ SetRuntime => /\ Stays /\ current' = 0
                          /\ IF current = 0 THEN UNCHANGED session ELSE session' = Closed(current)
<1>1. turn \in [Msg -> Turns]
  BY DEF Types, TurnTypes
<1>2. \A t : turn' = Hit(t) => Stays
  BY <1>1, HitKeeps DEF Stays, Kept
<1>3. UNCHANGED turn => Stays
  BY <1>1 DEF Stays, Kept
<1>4. QED
  BY <1>2, <1>3 DEF CancelActive, Stop, SetRuntime

\* A step that leaves the turns alone keeps their types.
LEMMA TurnTypesStay ==
  ASSUME TurnTypes, Stays, current' \in 0..Len(session'), session' \in Seq(Sessions),
         Len(session') = Len(session)
  PROVE  TurnTypes'
<1>1. \A h \in Live' : h \in Live /\ h \in Msg /\ Kept(h)
  BY DEF Live, Stays, Kept
<1>2. \A h \in Live' : turn'[h].at \in 0..Len(session') /\ turn'[h].msgs # <<>>
  BY <1>1 DEF TurnTypes, Kept
<1>3. \A h \in Live' : turn'[h].pc \in {"register", "arm", "admit", "run"} => turn'[h].at # 0
  BY <1>1 DEF TurnTypes, Kept
<1>4. QED
  BY <1>2, <1>3 DEF TurnTypes, Stays

\* Every step of the dispatch loop keeps the types.
LEMMA TypesDispatch ==
  ASSUME Types, DispInv, Dispatch
  PROVE  Types'
<1>0. QueueTypes /\ FlagTypes /\ TurnTypes
  BY DEF Types
<1>1. /\ session \in Seq(Sessions) /\ current \in 0..Len(session) /\ Len(session) \in Nat
      /\ turn \in [Msg -> Turns]
  BY <1>0 DEF TurnTypes
<1>2. disp.pc \in DispSteps /\ disp.msg \in 0..Messages /\ disp.mode \in Modes
      /\ [disp EXCEPT !.pc = "acquire"] \in [pc : DispSteps, msg : 0..Messages, mode : Modes]
      /\ [disp EXCEPT !.pc = "replace"] \in [pc : DispSteps, msg : 0..Messages, mode : Modes]
      /\ Resting \in [pc : DispSteps, msg : 0..Messages, mode : Modes]
      /\ [Resting EXCEPT !.pc = "release"] \in [pc : DispSteps, msg : 0..Messages, mode : Modes]
  BY <1>0, BotAssumption DEF QueueTypes, DispSteps, Resting, Modes, BotAssumption
<1>3. disp.pc \notin {"idle", "release"} => disp.msg \in Msg
  BY DEF DispInv
<1>4. <<>> \in Seq(Entries) /\ <<>> \in Seq(Msg) /\ Len(<<>>) = 0 /\ 0 <= Cap
      /\ Waiting(pending) \subseteq Msg /\ ToSet(dropped) \subseteq Msg
  <2>1. pending \in Seq(Entries) /\ dropped \in Seq(Msg)
    BY <1>0 DEF QueueTypes
  <2>2. Waiting(pending) \subseteq Msg
    <3>1. \A i \in DOMAIN pending : ToSet(pending[i].msgs) \subseteq Msg
      <4> SUFFICES ASSUME NEW i \in DOMAIN pending PROVE ToSet(pending[i].msgs) \subseteq Msg
        OBVIOUS
      <4>1. pending[i] \in Entries
        BY <2>1
      <4>2. pending[i].msgs \in Seq(Msg)
        BY <4>1 DEF Entries
      <4>3. QED
        BY <4>2 DEF ToSet
    <3>2. QED
      BY <3>1, WaitingIn
  <2>3. ToSet(dropped) \subseteq Msg
    BY <2>1 DEF ToSet
  <2>4. QED
    BY <2>2, <2>3, BotAssumption DEF BotAssumption
<1>5. ASSUME UNCHANGED <<turn, session, current>> PROVE TurnTypes'
  BY <1>0, <1>5 DEF TurnTypes, Live
<1>6. ASSUME active' \in BOOLEAN, orphaned' \in BOOLEAN PROVE FlagTypes'
  BY <1>6 DEF FlagTypes
<1>7. CASE Receive
  <2>1. PICK mode \in Modes :
          disp' = [pc |-> IF active /\ mode \in {"steer", "interrupt"} THEN mode ELSE "acquire",
                   msg |-> next, mode |-> IF mode = "collect" THEN mode ELSE "followup"]
    BY <1>7 DEF Receive
  <2>2. disp' \in [pc : DispSteps, msg : 0..Messages, mode : Modes]
    <3>1. next \in 0..Messages
      BY <1>0, <1>7, BotAssumption DEF Receive, QueueTypes, BotAssumption
    <3>2. QED
      BY <2>1, <3>1 DEF DispSteps, Modes
  <2>3. next' \in 1..(Messages + 1)
    BY <1>0, <1>7, BotAssumption DEF Receive, QueueTypes, BotAssumption
  <2>4. QueueTypes'
    BY <1>0, <1>7, <2>2, <2>3 DEF Receive, QueueTypes, queue, history
  <2>5. QED
    BY <1>0, <1>5, <1>6, <1>7, <2>4, Zenon DEF Receive, Types, FlagTypes, queue, history
<1>8. CASE Steer
  <2>1. UNCHANGED <<next, drop, active, pending, dropped, turn, session, current, profile, forced, fails, served, orphaned>>
    BY <1>8 DEF Steer, queue
  <2>2. disp' \in [pc : DispSteps, msg : 0..Messages, mode : Modes] /\ excused' \subseteq Msg
    BY <1>0, <1>2, <1>3, <1>8 DEF Steer, QueueTypes
  <2>3. QueueTypes'
    BY <1>0, <2>1, <2>2 DEF QueueTypes
  <2>4. QED
    BY <1>0, <1>5, <2>1, <2>3, Zenon DEF Types, FlagTypes
<1>9. CASE CancelActive
  <2>1. UNCHANGED <<next, drop, active, pending, dropped, session, current, profile, forced, fails, served, excused, orphaned>>
        /\ disp' = [disp EXCEPT !.pc = "replace"]
    BY <1>9 DEF CancelActive, queue
  <2>2. QueueTypes'
    BY <1>0, <1>2, <2>1 DEF QueueTypes
  <2>3. TurnTypes'
    BY <1>0, <1>1, <1>9, <2>1, DispatchEffect, TurnTypesStay
  <2>4. QED
    BY <1>0, <2>1, <2>2, <2>3, Zenon DEF Types, FlagTypes
<1>10. CASE ReplacePending
  <2>1. UNCHANGED <<next, drop, turn, session, current, profile, forced, fails, served>> /\ disp' = Resting
    BY <1>10 DEF ReplacePending
  <2>2. CASE ~active
    <3>1. active' = TRUE /\ orphaned' = TRUE /\ UNCHANGED <<pending, dropped, excused>>
      BY <1>10, <2>2 DEF ReplacePending
    <3>2. QueueTypes'
      BY <1>0, <1>2, <2>1, <3>1 DEF QueueTypes
    <3>3. QED
      BY <1>5, <1>6, <2>1, <3>1, <3>2, Zenon DEF Types
  <2>3. CASE active
    <3>1. /\ excused' = excused \cup Waiting(pending) \cup ToSet(dropped)
          /\ pending' = <<Entry(disp.msg, "followup")>> /\ dropped' = <<>>
          /\ UNCHANGED <<active, orphaned>>
      BY <1>10, <2>3 DEF ReplacePending
    <3>2. Entry(disp.msg, "followup") \in Entries
      BY <1>3, <1>10, EntryIs DEF ReplacePending, Modes
    <3>3. pending' \in Seq(Entries) /\ Len(pending') <= Cap
      BY <3>1, <3>2, BotAssumption DEF BotAssumption
    <3>4. excused' \subseteq Msg
      BY <1>0, <1>4, <3>1 DEF QueueTypes
    <3>5. QueueTypes'
      BY <1>0, <1>2, <1>4, <2>1, <3>1, <3>3, <3>4 DEF QueueTypes
    <3>6. QED
      BY <1>0, <1>5, <2>1, <3>1, <3>5, Zenon DEF Types, FlagTypes
  <2>4. QED
    BY <2>2, <2>3
<1>11. CASE Acquire
  <2>1. /\ UNCHANGED <<next, drop, pending, dropped, session, current, profile, forced, fails, served, excused, orphaned>>
        /\ disp' = Resting /\ active' = TRUE
    BY <1>11 DEF Acquire, history
  <2>2. QueueTypes'
    BY <1>0, <1>2, <2>1 DEF QueueTypes
  <2>3. Begins(disp.msg)
    BY <1>3, <1>11, BeginsEffect DEF Acquire
  <2>4. TurnTypes'
    <3>1. \A h \in Live' : h = disp.msg \/ (h \in Live /\ Kept(h))
      BY <2>3 DEF Begins, Others, Live, Kept
    <3>2. \A h \in Live' : turn'[h].at \in 0..Len(session') /\ turn'[h].msgs # <<>>
      <4> SUFFICES ASSUME NEW h \in Live'
                   PROVE  turn'[h].at \in 0..Len(session') /\ turn'[h].msgs # <<>>
        OBVIOUS
      <4>1. CASE h = disp.msg
        <5>1. turn'[h].msgs = <<disp.msg>> /\ turn'[h].at = 0
          BY <2>3, <4>1 DEF Begins
        <5>2. QED
          BY <1>1, <2>1, <5>1
      <4>2. CASE h # disp.msg
        BY <1>0, <2>1, <3>1, <4>2 DEF TurnTypes, Kept
      <4>3. QED
        BY <4>1, <4>2
    <3>3. \A h \in Live' : turn'[h].pc \in {"register", "arm", "admit", "run"} => turn'[h].at # 0
      BY <1>0, <2>3, <3>1 DEF Begins, TurnTypes, Kept
    <3>4. QED
      BY <1>1, <2>1, <2>3, <3>2, <3>3 DEF Begins, Others, TurnTypes
  <2>5. QED
    BY <1>0, <1>6, <2>1, <2>2, <2>4, Zenon DEF Types, FlagTypes
<1>12. CASE Enqueue
  <2>1. /\ UNCHANGED <<next, drop, active, turn, session, current, profile, forced, fails, served, orphaned>>
        /\ disp' = Resting /\ disp.msg \in Msg
    BY <1>3, <1>12 DEF Enqueue
  <2>2. CASE Full /\ drop = "new"
    <3>1. excused' = excused \cup {disp.msg} /\ UNCHANGED <<pending, dropped>>
      BY <1>12, <2>2 DEF Enqueue
    <3>2. QueueTypes'
      BY <1>0, <1>2, <2>1, <3>1 DEF QueueTypes
    <3>3. QED
      BY <1>0, <1>5, <2>1, <3>2, Zenon DEF Types, FlagTypes
  <2>3. CASE ~(Full /\ drop = "new")
    <3>1. /\ pending' \in QueuedAs(disp.msg, disp.mode)
          /\ dropped' = IF Full /\ drop = "summarize" THEN dropped \o pending[1].msgs ELSE dropped
          /\ excused' = IF Full /\ drop = "old" THEN excused \cup ToSet(pending[1].msgs) ELSE excused
      BY <1>12, <2>3 DEF Enqueue
    <3>2. pending' \in Seq(Entries) /\ Len(pending') <= Cap
      BY <1>0, <1>2, <2>1, <3>1, QueuedIs
    <3>3. Full => pending[1].msgs \in Seq(Msg) /\ ToSet(pending[1].msgs) \subseteq Msg
      <4>1. Full => pending[1] \in Entries
        BY <1>0, RoomIs
      <4>2. QED
        BY <4>1 DEF Entries, ToSet
    <3>4. dropped' \in Seq(Msg) /\ excused' \subseteq Msg
      BY <1>0, <3>1, <3>3 DEF QueueTypes
    <3>5. QueueTypes'
      BY <1>0, <1>2, <2>1, <3>2, <3>4 DEF QueueTypes
    <3>6. QED
      BY <1>0, <1>5, <2>1, <3>5, Zenon DEF Types, FlagTypes
  <2>4. QED
    BY <2>2, <2>3
<1>13. CASE Stop
  <2>1. UNCHANGED <<next, drop, active, pending, dropped, session, current, profile, fails, served, excused, orphaned>>
        /\ disp' = [Resting EXCEPT !.pc = "release"] /\ forced' = forced + 1
    BY <1>13 DEF Stop, queue
  <2>2. QueueTypes'
    BY <1>0, <1>2, <2>1 DEF QueueTypes
  <2>3. TurnTypes'
    BY <1>0, <1>1, <1>13, <2>1, DispatchEffect, TurnTypesStay
  <2>4. QED
    BY <1>0, <2>1, <2>2, <2>3, Zenon DEF Types, FlagTypes
<1>14. CASE SetRuntime
  <2>1. UNCHANGED <<next, drop, active, pending, dropped, fails, served, excused, orphaned>>
        /\ disp' = [Resting EXCEPT !.pc = "release"] /\ forced' = forced + 1 /\ profile' = profile + 1
    BY <1>14 DEF SetRuntime, queue, history
  <2>2. QueueTypes'
    BY <1>0, <1>2, <2>1 DEF QueueTypes
  <2>3. session' \in Seq(Sessions) /\ Len(session') = Len(session)
    <3>1. CASE current = 0
      BY <1>1, <1>14, <3>1, DispatchEffect
    <3>2. CASE current # 0
      <4>1. current \in 1..Len(session) /\ session' = Closed(current)
        BY <1>1, <1>14, <3>2, DispatchEffect
      <4>2. Nobody \in Owners
        BY BotAssumption DEF Owners, Nobody, BotAssumption
      <4>3. QED
        BY <1>1, <4>1, <4>2, SessionChanges
    <3>3. QED
      BY <3>1, <3>2
  <2>4. TurnTypes'
    BY <1>0, <1>1, <1>14, <2>3, DispatchEffect, TurnTypesStay
  <2>5. QED
    BY <1>0, <2>1, <2>2, <2>4, Zenon DEF Types, FlagTypes
<1>15. CASE ForceRelease
  <2>1. /\ UNCHANGED <<next, drop, turn, session, current, profile, forced, fails, served, orphaned>>
        /\ disp' = Resting /\ excused' = excused \cup Waiting(pending) \cup ToSet(dropped)
        /\ active' = FALSE /\ pending' = <<>> /\ dropped' = <<>>
    BY <1>15 DEF ForceRelease
  <2>2. excused' \subseteq Msg
    BY <1>0, <1>4, <2>1 DEF QueueTypes
  <2>3. QueueTypes'
    BY <1>0, <1>2, <1>4, <2>1, <2>2 DEF QueueTypes
  <2>4. QED
    BY <1>0, <1>5, <1>6, <2>1, <2>3, Zenon DEF Types, FlagTypes
<1>16. QED
  BY <1>7, <1>8, <1>9, <1>10, <1>11, <1>12, <1>13, <1>14, <1>15 DEF Dispatch

(***************************************************************************)
(* A turn's steps keep the rest.                                           *)
(***************************************************************************)
\* Which turns are live after a step of one, and what else the step can have changed.
Advances(g) ==
  /\ Moves(g, turn'[g].pc) /\ UNCHANGED <<active, pending, dropped>>
  /\ turn'[g].pc \notin {"none", "over", "profile"} /\ turn[g].pc # "release"
LEMMA RunsLive ==
  ASSUME Types, NEW g \in Msg, Runs(g)
  PROVE  /\ g \in Live /\ Others(g) /\ Live' \subseteq Live
         /\ \A h \in Live : h # g => h \in Live' /\ Kept(h)
         /\ Release(g) \/ Advances(g)
         /\ Advances(g) \/ Follows(g) => Live' = Live
         /\ Over(g) => Live' = Live \ {g}
<1>1. g \in Live
  BY DEF Live, Runs, ReadProfile, LookUp, Build, Register, Arm, RunTurn, TurnEnds, Release
<1>2. ASSUME ~Release(g) PROVE Advances(g)
  <2>1. UNCHANGED <<active, pending, dropped>>
    BY <1>2, RunsFrame DEF queue
  <2>2. \E p \in TurnSteps : Moves(g, p) /\ p \notin {"none", "over", "profile"}
    <3>1. ReadProfile(g) => Moves(g, "look")
      BY LooksEffect
    <3>2. LookUp(g) => Moves(g, "arm") \/ Moves(g, "build")
      BY LooksEffect DEF Matched, Missed
    <3>3. Build(g) => Moves(g, "register") \/ Moves(g, "release")
      BY LooksEffect DEF Built, Failed
    <3>4. Register(g) => Moves(g, "arm")
      BY LooksEffect DEF Yields, Registers
    <3>5. Arm(g) => Moves(g, "admit")
      BY RunsEffect DEF Armed
    <3>6. RunTurn(g) => Moves(g, "run") \/ Moves(g, "release")
      BY RunsEffect DEF Admitted, Refused
    <3>7. TurnEnds(g) => Moves(g, "release")
      BY RunsEffect DEF Ended
    <3>8. {"look", "arm", "build", "register", "admit", "run", "release"} \subseteq TurnSteps \ {"none", "over", "profile"}
      BY DEF TurnSteps
    <3>9. QED
      BY <1>2, <3>1, <3>2, <3>3, <3>4, <3>5, <3>6, <3>7, <3>8 DEF Runs
  <2>3. turn[g].pc # "release"
    BY <1>2 DEF Runs, ReadProfile, LookUp, Build, Register, Arm, RunTurn, TurnEnds
  <2>4. QED
    BY <2>1, <2>2, <2>3 DEF Advances, Moves
<1>3. Release(g) => Over(g) \/ Follows(g)
  BY RunsEffect
<1>4. Others(g)
  BY <1>2, <1>3 DEF Advances, Moves, Others, Over, Follows
<1>5. \A h \in Msg \ {g} : Kept(h) /\ (h \in Live' <=> h \in Live)
  BY <1>4 DEF Others, Kept, Live
<1>6. Live \subseteq Msg /\ Live' \subseteq Msg
  BY DEF Live
<1>7. Advances(g) \/ Follows(g) => Live' = Live
  <2>1. Advances(g) \/ Follows(g) => g \in Live'
    BY DEF Advances, Follows, Live
  <2>2. QED
    BY <1>1, <1>5, <1>6, <2>1
<1>8. Over(g) => Live' = Live \ {g}
  <2>1. Over(g) => g \notin Live'
    BY DEF Over, Live
  <2>2. QED
    BY <1>5, <1>6, <2>1
<1>9. QED
  BY <1>1, <1>2, <1>4, <1>5, <1>6, <1>7, <1>8

LEMMA DispRuns ==
  ASSUME Types, DispInv, NEW g \in Msg, Runs(g)
  PROVE  DispInv'
<1>1. UNCHANGED <<disp, next, forced>>
  BY RunsFrame
<1>2. g \in Live /\ Others(g)
  BY RunsLive
<1>3. \A h \in Msg : turn[h].pc = "none" => turn'[h].pc = "none"
  BY <1>2 DEF Live, Others, Kept
<1>4. QED
  BY <1>1, <1>3 DEF DispInv

LEMMA QueueRuns ==
  ASSUME Types, QueueInv, NEW g \in Msg, Runs(g)
  PROVE  QueueInv'
<1> USE DEF QueueInv, KeyHasARunnerUnlessOrphaned, KeyHasARunner, SummariesHaveATurn
<1>1. UNCHANGED orphaned /\ g \in Live
  BY RunsFrame, RunsLive
<1>2. CASE Advances(g)
  BY <1>1, <1>2, RunsLive DEF Advances
<1>3. CASE Over(g)
  BY <1>3 DEF Over
<1>4. CASE Follows(g)
  BY <1>1, <1>4, RunsLive DEF Follows
<1>5. QED
  BY <1>2, <1>3, <1>4, RunsLive, RunsEffect

\* A message is in the turns when it is one of a live turn's.
LEMMA InTurnsIn == \A x : x \in InTurns <=> \E g \in Live : x \in ToSet(turn[g].msgs)
  BY DEF InTurns

\* What was settled stays settled; a turn that runs has served its messages, and one that
\* is about to release has settled them.
LEMMA SettlesRuns ==
  ASSUME Types, AccountInv, NEW g \in Msg, Runs(g)
  PROVE  /\ ToSet(served) \subseteq ToSet(served') /\ excused \subseteq excused'
         /\ Advances(g) /\ turn'[g].pc = "run" => ToSet(turn[g].msgs) \subseteq ToSet(served')
         /\ Advances(g) /\ turn'[g].pc = "release" =>
              ToSet(turn[g].msgs) \subseteq ToSet(served') \cup excused'
<1>0. g \in Live /\ served \in Seq(Msg) /\ turn[g].msgs \in Seq(Msg)
  <2>1. turn[g] \in Turns /\ served \in Seq(Msg)
    BY DEF Types, QueueTypes, TurnTypes
  <2>2. QED
    BY <2>1, RunsLive DEF Turns
<1>1. CASE ReadProfile(g) \/ LookUp(g) \/ Register(g) \/ Arm(g)
  <2>1. UNCHANGED <<served, excused>>
    BY <1>1, RunsFrame
  <2>2. turn'[g].pc \notin {"run", "release"}
    BY <1>1, LooksEffect, RunsEffect DEF Matched, Missed, Yields, Registers, Armed, Moves
  <2>3. QED
    BY <2>1, <2>2
<1>2. CASE Build(g)
  <2>1. UNCHANGED served
    BY <1>2, RunsFrame
  <2>2. QED
    BY <1>2, <2>1, LooksEffect DEF Built, Failed, Moves
<1>3. CASE RunTurn(g)
  <2>1. ToSet(served \o turn[g].msgs) = ToSet(served) \cup ToSet(turn[g].msgs)
    <3>1. g \in Msg
      OBVIOUS
    <3>2. QED
      BY <1>0, <3>1, Elements
  <2>2. QED
    BY <1>3, <2>1, RunsEffect DEF Admitted, Refused, Moves
<1>4. CASE TurnEnds(g)
  <2>1. UNCHANGED <<served, excused>> /\ turn[g].pc = "run" /\ turn'[g].pc = "release"
    BY <1>4, RunsFrame, RunsEffect DEF Ended, Moves
  <2>2. QED
    BY <1>0, <2>1 DEF AccountInv
<1>5. CASE Release(g)
  <2>1. UNCHANGED served /\ ~Advances(g)
    BY <1>5, RunsFrame DEF Release, Advances
  <2>2. QED
    BY <1>5, <2>1, RunsEffect DEF Over, Follows
<1>6. QED
  BY <1>1, <1>2, <1>3, <1>4, <1>5 DEF Runs

LEMMA AccountRuns ==
  ASSUME Types, QueueInv, AccountInv, NEW g \in Msg, Runs(g)
  PROVE  AccountInv'
<1>1. UNCHANGED <<disp, next, orphaned>> /\ g \in Live
  BY RunsFrame, RunsLive
<1>2. ToSet(served) \subseteq ToSet(served') /\ excused \subseteq excused'
  BY SettlesRuns
<1>3. \A h \in Live' : h # g => h \in Live /\ turn'[h].pc = turn[h].pc /\ turn'[h].msgs = turn[h].msgs
  BY RunsLive DEF Kept
<1>4. \A h \in Live' : turn'[h].pc = "run" => ToSet(turn'[h].msgs) \subseteq ToSet(served')
  <2> SUFFICES ASSUME NEW h \in Live', turn'[h].pc = "run"
               PROVE  ToSet(turn'[h].msgs) \subseteq ToSet(served')
    OBVIOUS
  <2>1. CASE h # g
    BY <1>2, <1>3, <2>1 DEF AccountInv
  <2>2. CASE h = g
    <3>1. Advances(g)
      BY <2>2, RunsLive, RunsEffect DEF Over, Follows
    <3>2. QED
      BY <2>2, <3>1, SettlesRuns DEF Advances, Moves
  <2>3. QED
    BY <2>1, <2>2
<1>5. \A h \in Live' : turn'[h].pc = "release" =>
        ToSet(turn'[h].msgs) \subseteq ToSet(served') \cup excused'
  <2> SUFFICES ASSUME NEW h \in Live', turn'[h].pc = "release"
               PROVE  ToSet(turn'[h].msgs) \subseteq ToSet(served') \cup excused'
    OBVIOUS
  <2>1. CASE h # g
    BY <1>2, <1>3, <2>1 DEF AccountInv
  <2>2. CASE h = g
    <3>1. Advances(g)
      BY <2>2, RunsLive, RunsEffect DEF Over, Follows
    <3>2. QED
      BY <2>2, <3>1, SettlesRuns DEF Advances, Moves
  <2>3. QED
    BY <2>1, <2>2
<1>6. Accounted \ MediaOnly \subseteq Accounted'
  <2> SUFFICES ASSUME NEW x \in Accounted \ MediaOnly PROVE x \in Accounted'
    OBVIOUS
  <2>1. CASE x \in ToSet(served) \/ x \in excused \/ x = disp.msg
    BY <1>1, <1>2, <2>1 DEF Accounted
  <2>2. CASE x \in InTurns
    <3>1. PICK h \in Live : x \in ToSet(turn[h].msgs)
      BY <2>2, InTurnsIn
    <3>2. CASE h # g \/ Advances(g)
      <4>1. h \in Live' /\ turn'[h].msgs = turn[h].msgs
        BY <3>2, RunsLive DEF Kept, Advances, Moves
      <4>2. x \in InTurns'
        BY <3>1, <4>1 DEF InTurns
      <4>3. QED
        BY <4>2 DEF Accounted
    <3>3. CASE h = g /\ Release(g)
      <4>1. x \in ToSet(served) \cup excused
        BY <1>1, <3>1, <3>3 DEF AccountInv, Release
      <4>2. QED
        BY <1>2, <4>1 DEF Accounted
    <3>4. QED
      BY <3>2, <3>3, RunsLive
  <2>3. CASE x \in Waiting(pending) \/ x \in ToSet(dropped)
    <3>1. CASE Advances(g)
      BY <2>3, <3>1 DEF Accounted, Advances
    <3>2. CASE Over(g)
      <4>1. pending = <<>> /\ dropped = <<>>
        BY <3>2 DEF Over, QueueInv, SummariesHaveATurn
      <4>2. QED
        BY <2>3, <4>1, FewElements DEF Waiting
    <3>3. CASE Follows(g) /\ x \in ToSet(dropped)
      BY <3>3 DEF Follows, Accounted
    <3>4. CASE Follows(g) /\ x \in Waiting(pending)
      <4>1. pending \in Seq(Entries) /\ pending # <<>>
        BY <3>4 DEF Follows, Types, QueueTypes
      <4>2. x \in ToSet(Merged) \/ x \in Waiting(pending')
        BY <3>4, <4>1, MergedIs DEF Follows
      <4>3. x \in InTurns' \/ x \in Waiting(pending')
        <5>1. g \in Live' /\ turn'[g].msgs = Merged
          BY <1>1, <3>4, RunsLive DEF Follows
        <5>2. QED
          BY <4>2, <5>1 DEF InTurns
      <4>4. QED
        BY <4>3 DEF Accounted
    <3>5. QED
      BY <2>3, <3>1, <3>2, <3>3, <3>4, RunsLive, RunsEffect
  <2>4. QED
    BY <2>1, <2>2, <2>3 DEF Accounted
<1>7. NothingVanishes'
  BY <1>1, <1>6 DEF AccountInv, NothingVanishes, Dispatched
<1>8. QED
  BY <1>4, <1>5, <1>7 DEF AccountInv

\* Until a release by force, the one turn finds the registered session and arms it.
LEMMA AloneRuns ==
  ASSUME Types, QueueInv, AloneInv, NEW g \in Msg, Runs(g)
  PROVE  AloneInv'
<1> SUFFICES ASSUME forced' = 0 PROVE AloneInv'
  BY DEF AloneInv
<1>1. forced = 0 /\ g \in Live /\ Live' \subseteq Live
  BY RunsFrame, RunsLive
<1>2. \A h \in Live : h = g
  BY <1>1 DEF AloneInv
<1>3. \A h, k \in Live' : h = k
  BY <1>1, <1>2
<1>4. Live' # {} => active'
  <2>1. active
    BY <1>1 DEF AloneInv
  <2>2. CASE Advances(g) \/ Follows(g)
    BY <2>1, <2>2 DEF Advances, Follows
  <2>3. CASE Over(g)
    BY <1>2, <2>3, RunsLive
  <2>4. QED
    BY <2>2, <2>3, RunsLive, RunsEffect
<1>5. turn[g].pc \in {"register", "arm", "admit", "run"} => turn[g].at \in 1..Len(session)
  BY <1>1 DEF Types, TurnTypes
<1>6. turn'[g].pc \in {"arm", "admit", "run"} =>
        /\ current' = turn'[g].at
        /\ turn'[g].pc \in {"admit", "run"} => session'[turn'[g].at].cancel = <<g, turn'[g].round>>
  <2>1. CASE ReadProfile(g)
    BY <2>1, LooksEffect DEF Moves
  <2>2. CASE LookUp(g)
    BY <2>2, LooksEffect DEF Matched, Missed, Moves
  <2>3. CASE Build(g)
    BY <2>3, LooksEffect DEF Built, Failed, Moves
  <2>4. CASE Register(g)
    BY <2>4, LooksEffect DEF Yields, Registers, Moves
  <2>5. CASE Arm(g)
    <3>1. Armed(g) /\ UNCHANGED current
      BY <2>5, RunsEffect, RunsFrame
    <3>2. current = turn[g].at
      BY <1>1, <3>1 DEF AloneInv, Armed
    <3>3. session' = [session EXCEPT ![turn[g].at].cancel = <<g, turn[g].round>>]
          /\ turn'[g].at = turn[g].at /\ turn'[g].round = turn[g].round
          /\ turn[g].at \in DOMAIN session /\ session[turn[g].at] \in Sessions
      BY <1>5, <3>1 DEF Armed, Moves, Types, TurnTypes
    <3>4. session'[turn[g].at].cancel = <<g, turn[g].round>>
      BY <3>3 DEF Sessions
    <3>5. QED
      BY <3>1, <3>2, <3>3, <3>4
  <2>6. CASE RunTurn(g)
    <3>1. CASE Admitted(g)
      <4>1. current' = turn[g].at /\ session[turn[g].at].cancel = <<g, turn[g].round>>
        BY <1>1, <2>6, <3>1, RunsFrame DEF AloneInv, Admitted
      <4>2. session' = [session EXCEPT ![turn[g].at].runs = <<g, turn[g].round>>]
            /\ turn'[g].at = turn[g].at /\ turn'[g].round = turn[g].round
            /\ turn[g].at \in DOMAIN session /\ session[turn[g].at] \in Sessions
        BY <1>5, <3>1 DEF Admitted, Moves, Types, TurnTypes
      <4>3. session'[turn[g].at].cancel = session[turn[g].at].cancel
        BY <4>2 DEF Sessions
      <4>4. QED
        BY <4>1, <4>2, <4>3
    <3>2. CASE Refused(g)
      BY <3>2 DEF Refused, Moves
    <3>3. QED
      BY <2>6, <3>1, <3>2, RunsEffect
  <2>7. CASE TurnEnds(g)
    BY <2>7, RunsEffect DEF Ended, Moves
  <2>8. CASE Release(g)
    BY <2>8, RunsEffect DEF Over, Follows
  <2>9. QED
    BY <2>1, <2>2, <2>3, <2>4, <2>5, <2>6, <2>7, <2>8 DEF Runs
<1>7. \A h \in Live' : h = g
  BY <1>1, <1>2
<1>8. QED
  BY <1>3, <1>4, <1>6, <1>7 DEF AloneInv

\* The turn that follows takes its messages from the front of the queue, in their order.
LEMMA FollowsInOrder ==
  ASSUME QueueTypes, NEW g \in Msg, Follows(g), EntriesOrdered(pending)
  PROVE  /\ Ordered(turn'[g].msgs) /\ EntriesOrdered(pending')
         /\ Precede(ToSet(turn'[g].msgs), Waiting(pending'))
         /\ ToSet(turn'[g].msgs) \subseteq Waiting(pending)
         /\ Waiting(pending') \subseteq Waiting(pending)
<1>1. pending \in Seq(Entries) /\ pending # <<>> /\ turn'[g].msgs = Merged
  BY DEF Follows, QueueTypes
<1>2. pending[1] \in Entries
  BY <1>1
<1>3. /\ Ordered(pending[1].msgs) /\ EntriesOrdered(Tail(pending))
      /\ Precede(ToSet(pending[1].msgs), Waiting(Tail(pending)))
  BY <1>1, <1>2, QueueOrders
<1>4. CASE pending[1].mode = "followup"
  <2>1. pending' = Tail(pending) /\ Merged = pending[1].msgs
    BY <1>4 DEF Follows, Merged
  <2>2. Waiting(pending) = ToSet(Merged) \cup Waiting(Tail(pending))
    BY <1>1, <1>4, MergedIs
  <2>3. QED
    BY <1>1, <1>3, <2>1, <2>2
<1>5. CASE pending[1].mode # "followup"
  <2>1. pending' = <<>> /\ Merged = Texts(pending)
    BY <1>5 DEF Follows, Merged
  <2>2. Ordered(Merged) /\ ToSet(Merged) \subseteq Waiting(pending)
    BY <1>1, <2>1, TextsOfQueue
  <2>3. Waiting(pending') = {} /\ EntriesOrdered(pending')
    BY <2>1 DEF Waiting, EntriesOrdered
  <2>4. QED
    BY <1>1, <2>2, <2>3 DEF Precede
<1>6. QED
  BY <1>4, <1>5

LEMMA OrderRuns ==
  ASSUME Types, AloneInv, OrderInv, NEW g \in Msg, Runs(g)
  PROVE  OrderInv'
<1>1. UNCHANGED <<disp, next, forced>> /\ Limit' = Limit
  BY RunsFrame DEF Limit
<1>2. g \in Live /\ Live' \subseteq Live /\ \A h \in Live' : h # g => h \in Live /\ Kept(h)
  BY RunsLive
<1>3. QueueTypes
  BY DEF Types
<1>4. Advances(g) \/ Over(g) \/ Follows(g)
  BY RunsLive, RunsEffect
<1>5. EntriesOrdered(pending') /\ Waiting(pending') \subseteq Waiting(pending)
  <2>1. CASE Advances(g) \/ Over(g)
    BY <2>1 DEF OrderInv, Advances, Over
  <2>2. CASE Follows(g)
    BY <1>3, <2>2, FollowsInOrder DEF OrderInv
  <2>3. QED
    BY <1>4, <2>1, <2>2
<1>6. Precede(Waiting(pending'), {Limit'})
  BY <1>1, <1>5 DEF OrderInv, Precede
<1>7. \A h \in Live' : Ordered(turn'[h].msgs)
  <2> SUFFICES ASSUME NEW h \in Live' PROVE Ordered(turn'[h].msgs)
    OBVIOUS
  <2>1. CASE h # g \/ Advances(g)
    BY <1>2, <2>1 DEF OrderInv, Kept, Advances, Moves
  <2>2. CASE h = g /\ Follows(g)
    BY <1>3, <2>2, FollowsInOrder DEF OrderInv
  <2>3. CASE h = g /\ Over(g)
    BY <2>3, RunsLive
  <2>4. QED
    BY <1>4, <2>1, <2>2, <2>3
<1>8. ASSUME forced' = 0
      PROVE  /\ Ordered(served')
             /\ Precede(ToSet(served'), Waiting(pending') \cup {Limit'})
             /\ \A h \in Live' : Precede(ToSet(turn'[h].msgs), Waiting(pending') \cup {Limit'})
             /\ \A h \in Live' : turn'[h].pc \notin {"run", "release"} =>
                  Precede(ToSet(served'), ToSet(turn'[h].msgs))
  <2>0. forced = 0
    BY <1>1, <1>8
  <2>1. \A h \in Live' : h = g
    BY <1>2, <2>0 DEF AloneInv
  <2>2. /\ Ordered(served) /\ Precede(ToSet(served), Waiting(pending) \cup {Limit})
        /\ Precede(ToSet(turn[g].msgs), Waiting(pending) \cup {Limit})
        /\ turn[g].pc \notin {"run", "release"} => Precede(ToSet(served), ToSet(turn[g].msgs))
    BY <1>2, <2>0 DEF OrderInv
  <2>3. CASE Advances(g) /\ RunTurn(g)
    <3>1. turn'[g].msgs = turn[g].msgs /\ Waiting(pending') = Waiting(pending)
      BY <2>3 DEF Advances, Moves
    <3>2. CASE Admitted(g)
      <4>1. served' = served \o turn[g].msgs /\ turn[g].pc = "admit" /\ turn'[g].pc = "run"
        BY <3>2 DEF Admitted, Moves
      <4>2. served \in Seq(Msg) /\ turn[g].msgs \in Seq(Msg)
        <5>1. turn[g] \in Turns /\ served \in Seq(Msg)
          BY DEF Types, TurnTypes, QueueTypes
        <5>2. QED
          BY <5>1 DEF Turns
      <4>3. ToSet(served') = ToSet(served) \cup ToSet(turn[g].msgs)
        <5>1. g \in Msg
          OBVIOUS
        <5>2. QED
          BY <4>1, <4>2, <5>1, Elements
      <4>4. Ordered(served')
        <5>1. Msg \subseteq Nat
          BY DEF Msg
        <5>2. served \in Seq(Nat) /\ turn[g].msgs \in Seq(Nat) /\ 0 \in Nat
          BY <4>2, <5>1, SeqMonotonic
        <5>3. Ordered(turn[g].msgs) /\ Precede(ToSet(served), ToSet(turn[g].msgs))
          BY <1>2, <2>2, <4>1 DEF OrderInv
        <5>4. QED
          BY <2>2, <4>1, <5>2, <5>3, Orders
      <4>5. Precede(ToSet(served'), Waiting(pending') \cup {Limit'})
        BY <1>1, <2>2, <3>1, <4>3 DEF Precede
      <4>6. QED
        BY <1>1, <2>1, <2>2, <3>1, <4>1, <4>4, <4>5
    <3>3. CASE Refused(g)
      <4>1. UNCHANGED served /\ turn'[g].pc = "release"
        BY <3>3 DEF Refused, Moves
      <4>2. QED
        BY <1>1, <2>1, <2>2, <3>1, <4>1
    <3>4. QED
      BY <2>3, <3>2, <3>3, RunsEffect
  <2>4. CASE Advances(g) /\ ~RunTurn(g)
    <3>1. turn'[g].msgs = turn[g].msgs /\ Waiting(pending') = Waiting(pending) /\ UNCHANGED served
      BY <2>4, RunsFrame DEF Advances, Moves, Runs, Release
    <3>2. turn'[g].pc \notin {"run", "release"} => turn[g].pc \notin {"run", "release"}
      <4>1. TurnEnds(g) => turn'[g].pc = "release"
        BY RunsEffect DEF Ended, Moves
      <4>2. QED
        BY <2>4, <4>1 DEF Advances, Runs, ReadProfile, LookUp, Build, Register, Arm, Release
    <3>3. QED
      BY <1>1, <2>1, <2>2, <3>1, <3>2
  <2>5. CASE Over(g)
    <3>1. Live' = {} /\ UNCHANGED <<served, pending>>
      <4>1. g \notin Live'
        BY <2>5, RunsLive
      <4>2. Release(g)
        BY <2>5, RunsLive DEF Over, Advances
      <4>3. QED
        BY <2>1, <2>5, <4>1, <4>2, RunsFrame DEF Over
    <3>2. QED
      BY <1>1, <2>2, <3>1
  <2>6. CASE Follows(g)
    <3>1. Release(g)
      BY <2>6, RunsLive DEF Follows, Advances
    <3>2. UNCHANGED served
      BY <3>1, RunsFrame
    <3>3. /\ Precede(ToSet(turn'[g].msgs), Waiting(pending'))
          /\ ToSet(turn'[g].msgs) \subseteq Waiting(pending)
      BY <1>3, <2>6, FollowsInOrder DEF OrderInv
    <3>4. Precede(ToSet(turn'[g].msgs), {Limit'})
      BY <1>1, <3>3 DEF OrderInv, Precede
    <3>5. Precede(ToSet(served'), Waiting(pending') \cup {Limit'})
      BY <1>1, <1>5, <2>2, <3>2 DEF Precede
    <3>6. Precede(ToSet(served'), ToSet(turn'[g].msgs))
      BY <2>2, <3>2, <3>3 DEF Precede
    <3>7. QED
      <4>1. Precede(ToSet(turn'[g].msgs), Waiting(pending') \cup {Limit'})
        BY <3>3, <3>4 DEF Precede
      <4>2. QED
        BY <2>1, <2>2, <3>2, <3>5, <3>6, <4>1
  <2>7. QED
    BY <1>4, <2>3, <2>4, <2>5, <2>6
<1>9. QED
  BY <1>5, <1>6, <1>7, <1>8 DEF OrderInv

\* Closing, arming and running a session open no other.
LEMMA OpenSessions ==
  ASSUME session \in Seq(Sessions), NEW s, NEW o
  PROVE  /\ DOMAIN Closed(s) = DOMAIN session
         /\ \A x \in DOMAIN session : Closed(s)[x].open => x # s /\ session[x].open
         /\ DOMAIN [session EXCEPT ![s].cancel = o] = DOMAIN session
         /\ DOMAIN [session EXCEPT ![s].runs = o] = DOMAIN session
         /\ \A x \in DOMAIN session : /\ [session EXCEPT ![s].cancel = o][x].open = session[x].open
                                      /\ [session EXCEPT ![s].runs = o][x].open = session[x].open
<1>1. \A x \in DOMAIN session : session[x] \in Sessions
  OBVIOUS
<1>2. QED
  BY <1>1 DEF Closed, Sessions

LEMMA SessionsRuns ==
  ASSUME Types, SessionsDoNotLeak, NEW g \in Msg, Runs(g)
  PROVE  SessionsDoNotLeak'
<1> DEFINE Held(s) == \E h \in Live : turn[h].pc = "register" /\ turn[h].at = s
           HeldNext(s) == \E h \in Live' : turn'[h].pc = "register" /\ turn'[h].at = s
<1>0. session \in Seq(Sessions) /\ current \in 0..Len(session)
  BY DEF Types, TurnTypes
<1>1. \A s \in DOMAIN session : session[s].open => s = current \/ Held(s)
  BY DEF SessionsDoNotLeak
<1>2. ASSUME NEW s, Held(s), s # turn[g].at \/ turn[g].pc # "register" PROVE HeldNext(s)
  BY <1>2, RunsLive DEF Kept
<1> HIDE DEF Held, HeldNext
<1> SUFFICES \A s \in DOMAIN session' : session'[s].open => s = current' \/ HeldNext(s)
  BY DEF SessionsDoNotLeak, HeldNext
<1>3. CASE ReadProfile(g)
  <2>1. UNCHANGED <<session, current>> /\ turn[g].pc # "register"
    BY <1>3, RunsFrame DEF ReadProfile
  <2>2. QED
    BY <1>1, <1>2, <2>1
<1>4. CASE LookUp(g)
  <2>1. turn[g].pc # "register"
    BY <1>4 DEF LookUp
  <2>2. CASE Matched(g)
    BY <1>1, <1>2, <2>1, <2>2 DEF Matched
  <2>3. CASE Missed(g)
    <3>1. CASE current = 0
      BY <1>1, <1>2, <2>1, <2>3, <3>1 DEF Missed
    <3>2. CASE current # 0
      <4>1. session' = Closed(current)
        BY <2>3, <3>2 DEF Missed
      <4>2. QED
        BY <1>0, <1>1, <1>2, <2>1, <4>1, OpenSessions
    <3>3. QED
      BY <3>1, <3>2
  <2>4. QED
    BY <1>4, <2>2, <2>3, LooksEffect
<1>5. CASE Build(g)
  <2>1. turn[g].pc # "register" /\ UNCHANGED current
    BY <1>5, RunsFrame DEF Build
  <2>2. CASE Built(g)
    <3>1. HeldNext(Len(session) + 1)
      <4>1. g \in Live' /\ turn'[g].pc = "register" /\ turn'[g].at = Len(session) + 1
        BY <2>2 DEF Built, Moves, Live
      <4>2. QED
        BY <4>1 DEF HeldNext
    <3>2. \A s \in DOMAIN session' : s = Len(session) + 1 \/ (s \in DOMAIN session /\ session'[s] = session[s])
      <4>1. ASSUME NEW e PROVE \A s \in DOMAIN Append(session, e) :
              s = Len(session) + 1 \/ (s \in DOMAIN session /\ Append(session, e)[s] = session[s])
        <5> SUFFICES ASSUME NEW s \in DOMAIN Append(session, e), s # Len(session) + 1
                     PROVE  s \in DOMAIN session /\ Append(session, e)[s] = session[s]
          OBVIOUS
        <5>1. s \in DOMAIN session
          BY <1>0
        <5>2. QED
          BY <1>0, <5>1
      <4>2. QED
        BY <2>2, <4>1 DEF Built
    <3>3. QED
      BY <1>1, <1>2, <2>1, <3>1, <3>2
  <2>3. CASE Failed(g)
    BY <1>1, <1>2, <2>1, <2>3 DEF Failed
  <2>4. QED
    BY <1>5, <2>2, <2>3, LooksEffect
<1>6. CASE Register(g)
  <2>1. CASE Yields(g)
    <3>1. session' = Closed(turn[g].at) /\ UNCHANGED current
      BY <2>1 DEF Yields
    <3>2. QED
      BY <1>0, <1>1, <1>2, <3>1, OpenSessions
  <2>2. CASE Registers(g)
    <3>1. current' = turn[g].at
      BY <2>2 DEF Registers
    <3>2. CASE current = 0
      BY <1>0, <1>1, <1>2, <2>2, <3>1, <3>2 DEF Registers
    <3>3. CASE current # 0
      <4>1. session' = Closed(current)
        BY <2>2, <3>3 DEF Registers
      <4>2. QED
        BY <1>0, <1>1, <1>2, <3>1, <4>1, OpenSessions
    <3>4. QED
      BY <3>2, <3>3
  <2>3. QED
    BY <1>6, <2>1, <2>2, LooksEffect
<1>7. CASE Arm(g) \/ RunTurn(g) \/ TurnEnds(g)
  <2>1. turn[g].pc # "register" /\ UNCHANGED current
    BY <1>7, RunsFrame DEF Arm, RunTurn, TurnEnds
  <2>2. \/ UNCHANGED session
        \/ \E o : session' = [session EXCEPT ![turn[g].at].cancel = o]
        \/ \E o : session' = [session EXCEPT ![turn[g].at].runs = o]
    BY <1>7, RunsEffect DEF Armed, Admitted, Refused, Ended
  <2>3. DOMAIN session' = DOMAIN session /\ \A s \in DOMAIN session : session'[s].open = session[s].open
    <3>1. CASE UNCHANGED session
      BY <3>1
    <3>2. ASSUME NEW o, session' = [session EXCEPT ![turn[g].at].cancel = o]
          PROVE  /\ DOMAIN session' = DOMAIN session
                 /\ \A s \in DOMAIN session : session'[s].open = session[s].open
      <4> DEFINE at == turn[g].at
      <4> HIDE DEF at
      <4>1. session' = [session EXCEPT ![at].cancel = o]
        BY <3>2 DEF at
      <4>2. QED
        BY <1>0, <4>1, OpenSessions
    <3>3. ASSUME NEW o, session' = [session EXCEPT ![turn[g].at].runs = o]
          PROVE  /\ DOMAIN session' = DOMAIN session
                 /\ \A s \in DOMAIN session : session'[s].open = session[s].open
      <4> DEFINE at == turn[g].at
      <4> HIDE DEF at
      <4>1. session' = [session EXCEPT ![at].runs = o]
        BY <3>3 DEF at
      <4>2. QED
        BY <1>0, <4>1, OpenSessions
    <3>4. QED
      BY <2>2, <3>1, <3>2, <3>3
  <2>4. QED
    BY <1>1, <1>2, <2>1, <2>3
<1>8. CASE Release(g)
  <2>1. UNCHANGED <<session, current>> /\ turn[g].pc # "register"
    BY <1>8, RunsFrame DEF Release
  <2>2. QED
    BY <1>1, <1>2, <2>1
<1>9. QED
  BY <1>3, <1>4, <1>5, <1>6, <1>7, <1>8 DEF Runs

(***************************************************************************)
(* The dispatch loop's steps keep the rest.                                *)
(***************************************************************************)
\* A step of the dispatch loop leaves the turns alone or starts its message's turn.
LEMMA DispatchLive ==
  ASSUME Types, DispInv, Dispatch
  PROVE  /\ Acquire => /\ disp.msg \in Msg /\ disp.msg \notin Live /\ Begins(disp.msg)
                       /\ Live' = Live \cup {disp.msg}
         /\ ~Acquire => Stays /\ Live' = Live
         /\ UNCHANGED served /\ excused \subseteq excused'
         /\ forced' = 0 => forced = 0 /\ UNCHANGED <<session, current>> /\ ~ForceRelease
<1>1. turn \in [Msg -> Turns] /\ forced \in Nat
  BY DEF Types, TurnTypes, QueueTypes
<1>2. Acquire => disp.msg \in Msg /\ disp.msg \notin Live /\ Begins(disp.msg)
  BY BeginsEffect DEF DispInv, Acquire, Live
<1>3. Acquire => Live' = Live \cup {disp.msg}
  <2> SUFFICES ASSUME Acquire PROVE Live' = Live \cup {disp.msg}
    OBVIOUS
  <2>1. disp.msg \in Live'
    BY <1>2 DEF Begins, Live
  <2>2. \A h \in Msg : h # disp.msg => (h \in Live' <=> h \in Live)
    BY <1>2 DEF Begins, Others, Kept, Live
  <2>3. Live \subseteq Msg /\ Live' \subseteq Msg
    BY DEF Live
  <2>4. QED
    BY <1>2, <2>1, <2>2, <2>3
<1>4. ~Acquire => Stays
  <2>1. UNCHANGED turn => Stays
    BY <1>1 DEF Stays, Kept
  <2>2. QED
    BY <2>1, DispatchEffect DEF Dispatch, Receive, Steer, ReplacePending, Enqueue, ForceRelease
<1>5. Stays => Live' = Live
  BY DEF Stays, Kept, Live
<1>6. UNCHANGED served /\ excused \subseteq excused'
  <2>1. CASE Receive \/ Steer \/ CancelActive \/ Acquire
    BY <2>1 DEF Receive, Steer, CancelActive, Acquire, history
  <2>2. CASE ReplacePending \/ Enqueue
    BY <2>2 DEF ReplacePending, Enqueue
  <2>3. CASE Stop \/ SetRuntime \/ ForceRelease
    BY <2>3 DEF Stop, SetRuntime, ForceRelease, history
  <2>4. QED
    BY <2>1, <2>2, <2>3 DEF Dispatch
<1>7. forced' = 0 => forced = 0 /\ UNCHANGED <<session, current>> /\ ~ForceRelease
  <2> SUFFICES ASSUME forced' = 0 PROVE forced = 0 /\ UNCHANGED <<session, current>> /\ ~ForceRelease
    OBVIOUS
  <2>1. ~Stop /\ ~SetRuntime
    BY <1>1 DEF Stop, SetRuntime
  <2>2. UNCHANGED <<forced, session, current>>
    <3>1. CASE Receive \/ Steer \/ CancelActive \/ Acquire
      BY <3>1 DEF Receive, Steer, CancelActive, Acquire
    <3>2. CASE ReplacePending \/ Enqueue \/ ForceRelease
      BY <3>2 DEF ReplacePending, Enqueue, ForceRelease
    <3>3. QED
      BY <2>1, <3>1, <3>2 DEF Dispatch
  <2>3. QED
    BY <2>2 DEF ForceRelease, DispInv
<1>8. QED
  BY <1>2, <1>3, <1>4, <1>5, <1>6, <1>7

LEMMA DispDispatch ==
  ASSUME Types, DispInv, Dispatch
  PROVE  DispInv'
<1>0. /\ next \in 1..(Messages + 1) /\ forced \in Nat /\ Messages \in Nat
      /\ disp \in [pc : DispSteps, msg : 0..Messages, mode : Modes]
  BY BotAssumption DEF Types, QueueTypes, BotAssumption
<1>1. ~Acquire => \A h \in Msg : turn'[h].pc = turn[h].pc
  BY DispatchLive DEF Stays, Kept
<1>2. CASE Receive
  <2>1. /\ disp'.pc \notin {"idle", "release"} /\ disp'.msg = next /\ next' = next + 1
        /\ next <= Messages /\ UNCHANGED turn
    BY <1>2 DEF Receive
  <2>2. next \in Msg /\ turn[next].pc = "none"
    BY <1>0, <2>1 DEF DispInv, Msg
  <2>3. \A h \in Msg : h >= next + 1 => turn[h].pc = "none"
    BY <1>0 DEF DispInv, Msg
  <2>4. QED
    BY <1>0, <2>1, <2>2, <2>3 DEF DispInv
<1>3. CASE Steer \/ CancelActive
  <2>1. disp' = Resting \/ \E p \in {"acquire", "replace"} : disp' = [disp EXCEPT !.pc = p]
    BY <1>3 DEF Steer, CancelActive
  <2>2. /\ disp' = Resting \/ (disp'.pc \in {"acquire", "replace"} /\ disp'.msg = disp.msg)
        /\ disp.pc \notin {"idle", "release"} /\ ~Acquire
    BY <1>0, <1>3, <2>1 DEF Steer, CancelActive, Acquire
  <2>3. UNCHANGED next
    BY <1>3 DEF Steer, CancelActive
  <2>4. QED
    BY <1>1, <2>2, <2>3 DEF DispInv, Resting
<1>4. CASE ReplacePending \/ Enqueue \/ ForceRelease
  <2>1. disp' = Resting /\ UNCHANGED <<next, turn>>
    BY <1>4 DEF ReplacePending, Enqueue, ForceRelease
  <2>2. QED
    BY <2>1 DEF DispInv, Resting
<1>5. CASE Stop \/ SetRuntime
  <2>1. disp' = [Resting EXCEPT !.pc = "release"] /\ UNCHANGED next /\ forced' = forced + 1
    BY <1>5 DEF Stop, SetRuntime
  <2>2. disp'.pc = "release" /\ disp'.msg = 0 /\ forced' # 0
    BY <1>0, <2>1 DEF Resting
  <2>3. ~Acquire
    BY <1>5 DEF Stop, SetRuntime, Acquire
  <2>4. QED
    BY <1>1, <2>1, <2>2, <2>3 DEF DispInv
<1>6. CASE Acquire
  <2>1. disp' = Resting /\ UNCHANGED next
    BY <1>6 DEF Acquire
  <2>2. disp.msg = next - 1 /\ Begins(disp.msg)
    BY <1>6, DispatchLive DEF Acquire, DispInv
  <2>3. \A h \in Msg : h >= next => h # disp.msg
    BY <1>0, <2>2 DEF Msg
  <2>4. \A h \in Msg : h >= next => turn'[h].pc = "none"
    BY <2>2, <2>3 DEF DispInv, Begins, Others, Kept
  <2>5. QED
    BY <2>1, <2>4 DEF DispInv, Resting
<1>7. QED
  BY <1>2, <1>3, <1>4, <1>5, <1>6 DEF Dispatch

LEMMA QueueDispatch ==
  ASSUME Types, DispInv, QueueInv, Dispatch
  PROVE  QueueInv'
<1> USE DEF QueueInv, KeyHasARunnerUnlessOrphaned, KeyHasARunner, SummariesHaveATurn
<1>1. CASE Receive \/ Steer \/ CancelActive \/ Stop \/ SetRuntime
  <2>1. UNCHANGED <<active, pending, dropped, orphaned>> /\ ~Acquire
    BY <1>1 DEF Receive, Steer, CancelActive, Stop, SetRuntime, Acquire, queue, history
  <2>2. Live' = Live
    BY <2>1, DispatchLive
  <2>3. QED
    BY <2>1, <2>2
<1>2. CASE ReplacePending
  <2>1. UNCHANGED turn /\ Live' = Live
    BY <1>2 DEF ReplacePending, Live
  <2>2. CASE ~active
    BY <1>2, <2>2 DEF ReplacePending
  <2>3. CASE active
    <3>1. active' = active /\ orphaned' = orphaned /\ dropped' = <<>>
      BY <1>2, <2>3 DEF ReplacePending
    <3>2. QED
      BY <2>1, <2>3, <3>1
  <2>4. QED
    BY <2>2, <2>3
<1>3. CASE Acquire
  <2>1. active' = TRUE /\ UNCHANGED <<pending, dropped>> /\ Live' # {}
    BY <1>3, DispatchLive DEF Acquire
  <2>2. QED
    BY <2>1
<1>4. CASE Enqueue
  <2>1. UNCHANGED <<active, orphaned, turn>> /\ active
    BY <1>4 DEF Enqueue
  <2>2. Live' = Live
    BY <2>1 DEF Live
  <2>3. UNCHANGED <<pending, dropped>> \/ pending' # <<>>
    <3>1. UNCHANGED <<pending, dropped>> \/ pending' \in QueuedAs(disp.msg, disp.mode)
      BY <1>4 DEF Enqueue
    <3>2. disp.msg \in Msg /\ disp.mode \in Modes /\ QueueTypes
      BY <1>4 DEF Enqueue, DispInv, Types, QueueTypes
    <3>3. QED
      BY <3>1, <3>2, QueuedIs
  <2>4. QED
    BY <2>1, <2>2, <2>3
<1>5. CASE ForceRelease
  BY <1>5 DEF ForceRelease
<1>6. QED
  BY <1>1, <1>2, <1>3, <1>4, <1>5 DEF Dispatch

LEMMA AccountDispatch ==
  ASSUME Types, DispInv, AccountInv, Dispatch
  PROVE  AccountInv'
<1>0. /\ next \in Nat /\ drop \in {"old", "new", "summarize"} /\ dropped \in Seq(Msg)
      /\ disp \in [pc : DispSteps, msg : 0..Messages, mode : Modes] /\ QueueTypes
  BY DEF Types, QueueTypes
<1>1. UNCHANGED served /\ excused \subseteq excused'
  BY DispatchLive
<1>2. \A h \in Live' : \/ h \in Live /\ turn'[h].pc = turn[h].pc /\ turn'[h].msgs = turn[h].msgs
                       \/ turn'[h].pc = "profile"
  <2>1. CASE Acquire
    BY <2>1, DispatchLive DEF Begins, Others, Kept, Live
  <2>2. CASE ~Acquire
    BY <2>2, DispatchLive DEF Stays, Kept, Live
  <2>3. QED
    BY <2>1, <2>2
<1>3. /\ \A h \in Live' : turn'[h].pc = "run" => ToSet(turn'[h].msgs) \subseteq ToSet(served')
      /\ \A h \in Live' : turn'[h].pc = "release" =>
           ToSet(turn'[h].msgs) \subseteq ToSet(served') \cup excused'
  BY <1>1, <1>2 DEF AccountInv
<1>4. Acquire => disp.msg \in InTurns'
  <2> SUFFICES ASSUME Acquire PROVE disp.msg \in InTurns'
    OBVIOUS
  <2>1. disp.msg \in Live' /\ turn'[disp.msg].msgs = <<disp.msg>>
    BY DispatchLive DEF Begins
  <2>2. disp.msg \in ToSet(turn'[disp.msg].msgs)
    BY <2>1, FewElements
  <2>3. QED
    BY <2>1, <2>2 DEF InTurns
<1>5. InTurns \subseteq InTurns'
  <2>1. \A h \in Live : h \in Live' /\ turn'[h].msgs = turn[h].msgs
    <3>1. CASE Acquire
      BY <3>1, DispatchLive DEF Begins, Others, Kept, Live
    <3>2. CASE ~Acquire
      BY <3>2, DispatchLive DEF Stays, Kept, Live
    <3>3. QED
      BY <3>1, <3>2
  <2>2. QED
    BY <2>1 DEF InTurns
<1>6. orphaned' \/ ~orphaned
  BY DEF Dispatch, Receive, Steer, CancelActive, ReplacePending, Acquire, Enqueue, Stop, SetRuntime,
         ForceRelease, history
<1>7. CASE Receive
  <2>1. UNCHANGED <<pending, dropped>> /\ disp'.msg = next /\ next' = next + 1 /\ disp.msg = 0
    BY <1>7 DEF Receive, queue, DispInv
  <2>2. Dispatched' \subseteq Dispatched \cup {next} /\ 0 \notin Dispatched
    BY <1>0, <2>1 DEF Dispatched
  <2>3. (Accounted \ {0}) \cup {next} \subseteq Accounted'
    BY <1>1, <1>5, <2>1 DEF Accounted
  <2>4. NothingVanishes'
    BY <1>6, <2>2, <2>3 DEF AccountInv, NothingVanishes
  <2>5. QED
    BY <1>3, <2>4 DEF AccountInv
<1>8. ASSUME Accounted \ {0} \subseteq Accounted', UNCHANGED next PROVE AccountInv'
  <2>1. Dispatched' = Dispatched /\ 0 \notin Dispatched
    BY <1>0, <1>8 DEF Dispatched
  <2>2. NothingVanishes'
    BY <1>6, <1>8, <2>1 DEF AccountInv, NothingVanishes
  <2>3. QED
    BY <1>3, <2>2 DEF AccountInv
<1>9. CASE Steer \/ CancelActive
  <2>1. UNCHANGED <<pending, dropped, next>>
    BY <1>9 DEF Steer, CancelActive, queue
  <2>2. disp'.msg = disp.msg \/ disp.msg \in excused'
    BY <1>0, <1>9 DEF Steer, CancelActive
  <2>3. QED
    BY <1>1, <1>5, <1>8, <2>1, <2>2 DEF Accounted
<1>10. CASE ReplacePending
  <2>1. CASE ~active
    <3>1. orphaned'
      BY <1>10, <2>1 DEF ReplacePending
    <3>2. QED
      BY <1>3, <3>1 DEF AccountInv, NothingVanishes
  <2>2. CASE active
    <3>1. /\ excused' = excused \cup Waiting(pending) \cup ToSet(dropped)
          /\ pending' = <<Entry(disp.msg, "followup")>> /\ UNCHANGED next
      BY <1>10, <2>2 DEF ReplacePending
    <3>2. disp.msg \in Waiting(pending')
      <4>1. 1 \in DOMAIN pending' /\ pending'[1].msgs = <<disp.msg>>
        BY <3>1 DEF Entry
      <4>2. disp.msg \in ToSet(pending'[1].msgs)
        BY <4>1, FewElements
      <4>3. QED
        BY <4>1, <4>2, WaitingIn
    <3>3. QED
      BY <1>1, <1>5, <1>8, <3>1, <3>2 DEF Accounted
  <2>3. QED
    BY <2>1, <2>2
<1>11. CASE Acquire
  <2>1. UNCHANGED <<pending, dropped, next>>
    BY <1>11 DEF Acquire
  <2>2. QED
    BY <1>1, <1>4, <1>5, <1>8, <1>11, <2>1 DEF Accounted
<1>12. CASE Enqueue
  <2>1. CASE Full /\ drop = "new"
    <3>1. excused' = excused \cup {disp.msg} /\ UNCHANGED <<pending, dropped, next>>
      BY <1>12, <2>1 DEF Enqueue
    <3>2. QED
      BY <1>1, <1>5, <1>8, <3>1 DEF Accounted
  <2>2. CASE ~(Full /\ drop = "new")
    <3>1. /\ pending' \in QueuedAs(disp.msg, disp.mode) /\ UNCHANGED next
          /\ dropped' = IF Full /\ drop = "summarize" THEN dropped \o pending[1].msgs ELSE dropped
          /\ excused' = IF Full /\ drop = "old" THEN excused \cup ToSet(pending[1].msgs) ELSE excused
          /\ disp.msg \in Msg /\ disp.mode \in Modes
      BY <1>0, <1>12, <2>2 DEF Enqueue, DispInv
    <3>2. Waiting(pending') = Waiting(Room) \cup {disp.msg}
      BY <1>0, <3>1, QueuedIs
    <3>3. Full => pending[1].msgs \in Seq(Msg)
               /\ Waiting(pending) = ToSet(pending[1].msgs) \cup Waiting(Room)
      BY <1>0, RoomIs DEF Entries
    <3>4. ToSet(dropped) \subseteq ToSet(dropped')
          /\ (Full /\ drop = "summarize" => ToSet(pending[1].msgs) \subseteq ToSet(dropped'))
      <4>1. CASE Full /\ drop = "summarize"
        <5>1. ToSet(dropped \o pending[1].msgs) = ToSet(dropped) \cup ToSet(pending[1].msgs)
          BY <1>0, <3>1, <3>3, <4>1, Elements
        <5>2. QED
          BY <3>1, <4>1, <5>1
      <4>2. QED
        BY <3>1, <4>1
    <3>5. Waiting(pending) \subseteq Waiting(pending') \cup ToSet(dropped') \cup excused'
      <4>1. CASE Full
        BY <1>0, <2>2, <3>1, <3>2, <3>3, <3>4, <4>1
      <4>2. CASE ~Full
        BY <1>0, <3>2, <4>2, RoomIs
      <4>3. QED
        BY <4>1, <4>2
    <3>6. QED
      BY <1>1, <1>5, <1>8, <3>1, <3>2, <3>4, <3>5 DEF Accounted
  <2>3. QED
    BY <2>1, <2>2
<1>13. CASE Stop \/ SetRuntime
  <2>1. UNCHANGED <<pending, dropped, next>> /\ disp.msg = 0
    BY <1>13 DEF Stop, SetRuntime, queue, DispInv
  <2>2. QED
    BY <1>1, <1>5, <1>8, <2>1 DEF Accounted
<1>14. CASE ForceRelease
  <2>1. excused' = excused \cup Waiting(pending) \cup ToSet(dropped) /\ UNCHANGED next /\ disp.msg = 0
    BY <1>14 DEF ForceRelease, DispInv
  <2>2. QED
    BY <1>1, <1>5, <1>8, <2>1 DEF Accounted
<1>15. QED
  BY <1>7, <1>9, <1>10, <1>11, <1>12, <1>13, <1>14 DEF Dispatch

LEMMA AloneDispatch ==
  ASSUME Types, DispInv, AloneInv, Dispatch
  PROVE  AloneInv'
<1> SUFFICES ASSUME forced' = 0 PROVE AloneInv'
  BY DEF AloneInv
<1>1. forced = 0 /\ UNCHANGED <<session, current>> /\ ~ForceRelease
  BY DispatchLive
<1>2. CASE Acquire
  <2>1. Live = {} /\ active'
    BY <1>1, <1>2 DEF AloneInv, Acquire
  <2>2. \A h \in Live' : h = disp.msg /\ turn'[h].pc = "profile"
    BY <1>2, <2>1, DispatchLive DEF Begins
  <2>3. QED
    BY <2>1, <2>2 DEF AloneInv
<1>3. CASE ~Acquire
  <2>1. Live' = Live /\ \A h \in Live : Kept(h)
    BY <1>3, DispatchLive DEF Stays, Live
  <2>2. active => active'
    BY <1>1 DEF Dispatch, Receive, Steer, CancelActive, ReplacePending, Acquire, Enqueue, Stop, SetRuntime, queue
  <2>3. QED
    BY <1>1, <2>1, <2>2 DEF AloneInv, Kept
<1>4. QED
  BY <1>2, <1>3

\* The queue stays in order under the dispatch loop, and before what is still to come.
LEMMA DispatchOrder ==
  ASSUME Types, DispInv, OrderInv, Dispatch
  PROVE  /\ Limit \in Nat /\ Limit' \in Nat /\ Limit <= Limit'
         /\ Acquire => Limit = disp.msg /\ Limit < Limit'
         /\ Waiting(pending') \subseteq Waiting(pending) \cup {Limit}
         /\ EntriesOrdered(pending') /\ Precede(Waiting(pending'), {Limit'})
<1>0. /\ next \in Nat /\ QueueTypes /\ Msg \subseteq Nat
      /\ disp \in [pc : DispSteps, msg : 0..Messages, mode : Modes]
      /\ EntriesOrdered(pending) /\ Precede(Waiting(pending), {Limit})
      /\ pending \in Seq(Entries)
  BY DEF Types, QueueTypes, Msg, OrderInv
<1>1. Limit \in Nat
  BY <1>0 DEF Limit, DispInv
<1>2. Waiting(pending) \subseteq Nat
  <2>1. CASE pending = <<>>
    BY <2>1 DEF Waiting
  <2>2. CASE pending # <<>>
    <3>1. pending[1] \in Entries
      BY <1>0, <2>2
    <3>2. Waiting(pending) \subseteq Msg
      BY <1>0, <3>1, Queues
    <3>3. QED
      BY <1>0, <3>2
  <2>3. QED
    BY <2>1, <2>2
<1>3. ASSUME UNCHANGED pending \/ pending' = <<>>, Limit' \in Nat, Limit <= Limit'
      PROVE  /\ Waiting(pending') \subseteq Waiting(pending) \cup {Limit}
             /\ EntriesOrdered(pending') /\ Precede(Waiting(pending'), {Limit'})
  <2>1. CASE pending' = <<>>
    BY <2>1 DEF Waiting, EntriesOrdered, Precede
  <2>2. CASE UNCHANGED pending
    BY <1>0, <1>1, <1>2, <1>3, <2>2 DEF Precede
  <2>3. QED
    BY <1>3, <2>1, <2>2
<1>4. CASE Receive \/ Stop \/ SetRuntime
  <2>1. Limit = next /\ Limit' = next /\ UNCHANGED pending /\ ~Acquire
    BY <1>0, <1>4 DEF Limit, Receive, Stop, SetRuntime, queue, Resting, Acquire
  <2>2. QED
    BY <1>0, <1>3, <2>1
<1>5. CASE ForceRelease
  <2>1. Limit = next /\ Limit' = next /\ pending' = <<>> /\ ~Acquire
    BY <1>0, <1>5 DEF Limit, ForceRelease, Resting, Acquire
  <2>2. QED
    BY <1>0, <1>3, <2>1
<1>6. CASE Steer \/ CancelActive
  <2>1. UNCHANGED <<pending, next>> /\ disp.pc \notin {"idle", "release"} /\ ~Acquire
    BY <1>6 DEF Steer, CancelActive, queue, Acquire
  <2>2. disp' = Resting \/ \E p \in {"acquire", "replace"} : disp' = [disp EXCEPT !.pc = p]
    BY <1>6 DEF Steer, CancelActive
  <2>3. disp'.pc = "idle" \/ (disp'.pc \in {"acquire", "replace"} /\ disp'.msg = disp.msg)
    BY <1>0, <2>2 DEF Resting
  <2>4. Limit = next - 1 /\ (Limit' = next \/ Limit' = Limit)
    BY <2>1, <2>3 DEF Limit, DispInv
  <2>5. QED
    BY <1>0, <1>1, <1>3, <2>1, <2>4
<1>7. ASSUME disp' = Resting, UNCHANGED next, disp.pc \notin {"idle", "release"}
      PROVE  Limit = disp.msg /\ Limit' = Limit + 1 /\ Limit \in Msg /\ Limit' \in Nat
  BY <1>0, <1>1, <1>7 DEF Limit, DispInv, Resting
<1>8. CASE Acquire
  <2>1. Limit = disp.msg /\ Limit' = Limit + 1 /\ UNCHANGED pending
    BY <1>7, <1>8 DEF Acquire
  <2>2. QED
    BY <1>1, <1>3, <2>1
<1>9. CASE ReplacePending
  <2>1. Limit = disp.msg /\ Limit' = Limit + 1 /\ Limit \in Msg
    BY <1>7, <1>9 DEF ReplacePending
  <2>2. UNCHANGED pending \/ pending' = <<Entry(Limit, "followup")>>
    BY <1>9, <2>1 DEF ReplacePending
  <2>3. CASE UNCHANGED pending
    BY <1>1, <1>3, <1>9, <2>1, <2>3 DEF Acquire, ReplacePending
  <2>4. CASE pending' = <<Entry(Limit, "followup")>>
    <3> DEFINE e == Entry(Limit, "followup")
    <3>1. Ordered(e.msgs) /\ ToSet(e.msgs) = {Limit}
      BY <2>1, EntryIs DEF Modes
    <3>2. DOMAIN pending' = {1} /\ pending'[1] = e
      BY <2>4
    <3> HIDE DEF e
    <3>3. Waiting(pending') = {Limit}
      <4>1. \A x : x \in Waiting(pending') <=> x = Limit
        BY <3>1, <3>2, WaitingIn
      <4>2. QED
        BY <4>1
    <3>4. EntriesOrdered(pending')
      BY <3>1, <3>2 DEF EntriesOrdered
    <3>5. QED
      BY <1>1, <1>9, <2>1, <3>3, <3>4 DEF Precede, Acquire, ReplacePending
  <2>5. QED
    BY <2>2, <2>3, <2>4
<1>10. CASE Enqueue
  <2>1. Limit = disp.msg /\ Limit' = Limit + 1 /\ Limit \in Msg /\ disp.mode \in Modes /\ ~Acquire
    BY <1>0, <1>7, <1>10 DEF Enqueue, Acquire
  <2>2. UNCHANGED pending \/ pending' \in QueuedAs(Limit, disp.mode)
    BY <1>10, <2>1 DEF Enqueue
  <2>3. CASE UNCHANGED pending
    BY <1>1, <1>3, <2>1, <2>3
  <2>4. CASE pending' \in QueuedAs(Limit, disp.mode)
    <3>1. /\ Waiting(pending') = Waiting(Room) \cup {Limit}
          /\ EntriesOrdered(Room) /\ Precede(Waiting(Room), {Limit}) => EntriesOrdered(pending')
      BY <1>0, <2>1, <2>4, QueuedIs
    <3>2. EntriesOrdered(Room) /\ Waiting(Room) \subseteq Waiting(pending)
      BY <1>0, RoomIs
    <3>3. Precede(Waiting(Room), {Limit})
      BY <1>0, <3>2 DEF Precede
    <3>4. Precede(Waiting(pending'), {Limit'})
      BY <1>0, <1>1, <1>2, <2>1, <3>1, <3>2 DEF Precede
    <3>5. QED
      BY <1>1, <2>1, <3>1, <3>2, <3>3, <3>4
  <2>5. QED
    BY <2>2, <2>3, <2>4
<1>11. QED
  BY <1>4, <1>5, <1>6, <1>8, <1>9, <1>10 DEF Dispatch

LEMMA OrderDispatch ==
  ASSUME Types, DispInv, QueueInv, OrderInv, Dispatch
  PROVE  OrderInv'
<1>1. /\ Limit \in Nat /\ Limit' \in Nat /\ Limit <= Limit'
      /\ Acquire => Limit = disp.msg /\ Limit < Limit'
      /\ Waiting(pending') \subseteq Waiting(pending) \cup {Limit}
      /\ EntriesOrdered(pending') /\ Precede(Waiting(pending'), {Limit'})
  BY DispatchOrder
<1>2. \A h \in Live' : (h \in Live /\ Kept(h)) \/ (Acquire /\ h = disp.msg)
  <2>1. CASE Acquire
    BY <2>1, DispatchLive DEF Begins, Others, Live
  <2>2. CASE ~Acquire
    BY <2>2, DispatchLive DEF Stays, Live
  <2>3. QED
    BY <2>1, <2>2
<1>3. Acquire => /\ turn'[disp.msg].msgs = <<disp.msg>> /\ disp.msg \in Msg /\ UNCHANGED pending
                 /\ Waiting(pending) = {}
  BY DispatchLive DEF Begins, Acquire, QueueInv, Waiting
<1>4. \A h \in Live' : Ordered(turn'[h].msgs)
  <2>1. Acquire => Ordered(turn'[disp.msg].msgs)
    BY <1>3 DEF Ordered
  <2>2. QED
    BY <1>2, <2>1 DEF OrderInv, Kept
<1>5. ASSUME forced' = 0
      PROVE  /\ Ordered(served')
             /\ Precede(ToSet(served'), Waiting(pending') \cup {Limit'})
             /\ \A h \in Live' : Precede(ToSet(turn'[h].msgs), Waiting(pending') \cup {Limit'})
             /\ \A h \in Live' : turn'[h].pc \notin {"run", "release"} =>
                  Precede(ToSet(served'), ToSet(turn'[h].msgs))
  <2>1. forced = 0 /\ UNCHANGED served
    BY <1>5, DispatchLive
  <2>2. /\ Ordered(served) /\ Precede(ToSet(served), Waiting(pending) \cup {Limit})
        /\ \A g \in Live : Precede(ToSet(turn[g].msgs), Waiting(pending) \cup {Limit})
        /\ \A g \in Live : turn[g].pc \notin {"run", "release"} =>
             Precede(ToSet(served), ToSet(turn[g].msgs))
    BY <2>1 DEF OrderInv
  <2>3. ASSUME NEW s \in Seq(Msg), Precede(ToSet(s), Waiting(pending) \cup {Limit})
        PROVE  Precede(ToSet(s), Waiting(pending') \cup {Limit'})
    <3>1. ToSet(s) \subseteq Msg /\ Msg \subseteq Nat
      <4>1. ToSet(s) \subseteq Msg
        BY DEF ToSet
      <4>2. Msg \subseteq Nat
        BY DEF Msg
      <4>3. QED
        BY <4>1, <4>2
    <3>2. \A x \in ToSet(s) : x \in Nat /\ x < Limit /\ \A y \in Waiting(pending) : x < y
      BY <2>3, <3>1 DEF Precede
    <3>3. \A x \in ToSet(s) : x < Limit' /\ \A y \in Waiting(pending') : x < y
      <4> HIDE DEF Limit
      <4>1. QED
        BY <1>1, <3>2
    <3>4. QED
      BY <3>3 DEF Precede
  <2>4. served \in Seq(Msg) /\ \A g \in Live : turn[g].msgs \in Seq(Msg)
    <3>1. served \in Seq(Msg) /\ \A g \in Live : turn[g] \in Turns
      BY DEF Types, TurnTypes, QueueTypes, Live
    <3>2. QED
      BY <3>1 DEF Turns
  <2>5. Precede(ToSet(served'), Waiting(pending') \cup {Limit'})
    BY <2>1, <2>2, <2>3, <2>4
  <2>6. ASSUME NEW h \in Live'
        PROVE  /\ Precede(ToSet(turn'[h].msgs), Waiting(pending') \cup {Limit'})
               /\ turn'[h].pc \notin {"run", "release"} => Precede(ToSet(served'), ToSet(turn'[h].msgs))
    <3>1. CASE h \in Live /\ Kept(h)
      <4>1. turn'[h].msgs = turn[h].msgs /\ turn'[h].pc = turn[h].pc
        BY <3>1 DEF Kept
      <4>2. QED
        BY <2>1, <2>2, <2>3, <2>4, <3>1, <4>1
    <3>2. CASE Acquire /\ h = disp.msg
      <4>1. ToSet(turn'[h].msgs) = {Limit} /\ Waiting(pending') = {} /\ Limit < Limit'
        BY <1>1, <1>3, <3>2, FewElements
      <4>2. Precede(ToSet(served'), {Limit})
        BY <2>1, <2>2 DEF Precede
      <4>3. QED
        BY <4>1, <4>2 DEF Precede
    <3>3. QED
      BY <1>2, <3>1, <3>2
  <2>7. QED
    BY <2>1, <2>2, <2>5, <2>6
<1>6. QED
  BY <1>1, <1>4, <1>5 DEF OrderInv

LEMMA SessionsDispatch ==
  ASSUME Types, DispInv, SessionsDoNotLeak, Dispatch
  PROVE  SessionsDoNotLeak'
<1>0. session \in Seq(Sessions) /\ current \in 0..Len(session)
  BY DEF Types, TurnTypes
<1>1. ASSUME NEW s, \E h \in Live : turn[h].pc = "register" /\ turn[h].at = s
      PROVE  \E h \in Live' : turn'[h].pc = "register" /\ turn'[h].at = s
  <2>1. \A h \in Live : h \in Live' /\ Kept(h)
    <3>1. CASE Acquire
      BY <3>1, DispatchLive DEF Begins, Others, Live
    <3>2. CASE ~Acquire
      BY <3>2, DispatchLive DEF Stays, Live
    <3>3. QED
      BY <3>1, <3>2
  <2>2. QED
    BY <1>1, <2>1 DEF Kept
<1>2. CASE UNCHANGED <<session, current>>
  BY <1>1, <1>2 DEF SessionsDoNotLeak
<1>3. CASE SetRuntime
  <2>1. current' = 0 /\ IF current = 0 THEN UNCHANGED session ELSE session' = Closed(current)
    BY <1>3 DEF SetRuntime
  <2>2. \A s \in DOMAIN session' : session'[s].open => s \in DOMAIN session /\ session[s].open /\ s # current
    <3>1. CASE current = 0
      BY <1>0, <2>1, <3>1
    <3>2. CASE current # 0
      BY <1>0, <2>1, <3>2, OpenSessions
    <3>3. QED
      BY <3>1, <3>2
  <2>3. QED
    BY <1>1, <2>2 DEF SessionsDoNotLeak
<1>4. SetRuntime \/ UNCHANGED <<session, current>>
  <2>1. CASE Receive \/ Steer \/ CancelActive \/ Acquire
    BY <2>1 DEF Receive, Steer, CancelActive, Acquire
  <2>2. CASE ReplacePending \/ Enqueue \/ Stop \/ ForceRelease
    BY <2>2 DEF ReplacePending, Enqueue, Stop, ForceRelease
  <2>3. QED
    BY <2>1, <2>2 DEF Dispatch
<1>5. QED
  BY <1>2, <1>3, <1>4

(***************************************************************************)
(* The theorems.                                                           *)
(***************************************************************************)
\* Every step keeps the inductive invariant.
LEMMA StepBotInv == BotInv /\ [BotNext]_botVars => BotInv'
<1> SUFFICES ASSUME BotInv, [BotNext]_botVars PROVE BotInv'
  OBVIOUS
<1>1. Types /\ DispInv /\ QueueInv /\ AccountInv /\ AloneInv /\ OrderInv /\ SessionsDoNotLeak
  BY DEF BotInv
<1>2. CASE Dispatch
  <2>1. Types' /\ DispInv' /\ QueueInv'
    BY <1>1, <1>2, TypesDispatch, DispDispatch, QueueDispatch
  <2>2. AccountInv' /\ AloneInv'
    BY <1>1, <1>2, AccountDispatch, AloneDispatch
  <2>3. OrderInv' /\ SessionsDoNotLeak'
    BY <1>1, <1>2, OrderDispatch, SessionsDispatch
  <2>4. QED
    BY <2>1, <2>2, <2>3 DEF BotInv
<1>3. ASSUME NEW g \in Msg, Runs(g) PROVE BotInv'
  <2>1. Types' /\ DispInv' /\ QueueInv'
    BY <1>1, <1>3, TypesRuns, DispRuns, QueueRuns
  <2>2. AccountInv' /\ AloneInv'
    BY <1>1, <1>3, AccountRuns, AloneRuns
  <2>3. OrderInv' /\ SessionsDoNotLeak'
    BY <1>1, <1>3, OrderRuns, SessionsRuns
  <2>4. QED
    BY <2>1, <2>2, <2>3 DEF BotInv
<1>4. CASE UNCHANGED botVars
  <2> USE <1>4 DEF botVars, queue, history
  <2>1. Live' = Live /\ Dispatched' = Dispatched /\ Accounted' = Accounted /\ Limit' = Limit
    BY DEF Live, Dispatched, Accounted, InTurns, Limit
  <2>2. Types'
    BY <1>1, <2>1, Zenon DEF Types, QueueTypes, FlagTypes, TurnTypes
  <2>3. DispInv' /\ QueueInv'
    BY <1>1, <2>1 DEF DispInv, QueueInv, KeyHasARunnerUnlessOrphaned, KeyHasARunner, SummariesHaveATurn
  <2>4. AccountInv' /\ AloneInv'
    BY <1>1, <2>1 DEF AccountInv, NothingVanishes, AloneInv
  <2>5. OrderInv' /\ SessionsDoNotLeak'
    BY <1>1, <2>1 DEF OrderInv, SessionsDoNotLeak
  <2>6. QED
    BY <2>2, <2>3, <2>4, <2>5 DEF BotInv
<1>5. QED
  BY <1>2, <1>3, <1>4 DEF BotNext

\* The inductive invariant holds.
THEOREM BotInvariant == BotSpec => []BotInv
  BY InitBotInv, StepBotInv, PTL DEF BotSpec

\* A taken key has a turn that will release it unless the loop took it for no turn, no text
\* message vanishes, and the turn that runs can be stopped (bot/session.go, bot/gateway.go).
THEOREM WhatWaitsHasATurn == BotSpec => []QueueHasATurn
<1>1. BotInv => QueueHasATurn
  <2> SUFFICES ASSUME BotInv PROVE QueueHasATurn
    OBVIOUS
  <2>1. BotTypeOK
    <3>1. QueueTypes /\ FlagTypes /\ TurnTypes
      BY DEF BotInv, Types
    <3>2. active \in BOOLEAN
      BY <3>1, Zenon DEF FlagTypes
    <3>3. QED
      BY <3>1, <3>2 DEF QueueTypes, TurnTypes, BotTypeOK
  <2>2. KeyHasARunnerUnlessOrphaned /\ SummariesHaveATurn /\ NothingVanishes
    BY DEF BotInv, QueueInv, AccountInv
  <2>3. RunningTurnCanBeStopped
    BY DEF BotInv, AloneInv, RunningTurnCanBeStopped
  <2>4. QED
    BY <2>1, <2>2, <2>3 DEF QueueHasATurn
<1>2. QED
  BY <1>1, BotInvariant, PTL

\* Until a key is released by force one turn is under way at a time and messages are served
\* in the order they came, however they were queued and merged (Release's merge loop).
THEOREM ServedInOrder == BotSpec => []InOrder
<1>1. BotInv => InOrder
  <2> SUFFICES ASSUME BotInv, forced = 0
               PROVE  /\ Cardinality(Live) <= 1
                      /\ \A i \in 1..(Len(served) - 1) : served[i] < served[i + 1]
    BY DEF InOrder
  <2>1. \A g, h \in Live : g = h
    BY DEF BotInv, AloneInv
  <2>2. Cardinality(Live) <= 1
    <3>1. CASE Live = {}
      BY <3>1, FS_EmptySet
    <3>2. CASE Live # {}
      <4>1. PICK g \in Live : TRUE
        BY <3>2
      <4>2. Live = {g}
        BY <2>1, <4>1
      <4>3. Cardinality({g}) = 1
        BY FS_Singleton
      <4>4. QED
        BY <4>2, <4>3
    <3>3. QED
      BY <3>1, <3>2
  <2>3. Ordered(served) /\ served \in Seq(Msg)
    BY DEF BotInv, OrderInv, Types, QueueTypes
  <2>4. \A i \in 1..(Len(served) - 1) : served[i] < served[i + 1]
    BY <2>3 DEF Ordered
  <2>5. QED
    BY <2>2, <2>4
<1>2. QED
  BY <1>1, BotInvariant, PTL

\* However many turns build sessions at once, one that is open is registered or is about to
\* be (getOrCreateSession's second look under the lock).
THEOREM NoSessionLeaks == BotSpec => []SessionsDoNotLeak
<1>1. BotInv => SessionsDoNotLeak
  BY DEF BotInv
<1>2. QED
  BY <1>1, BotInvariant, PTL
=============================================================================
