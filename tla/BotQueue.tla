------------------------------ MODULE BotQueue ------------------------------
(***************************************************************************)
(* One chat of the bot gateway (bot/session.go, bot/gateway.go): the       *)
(* dispatch loop, the queue of messages that wait for a turn, the turns'   *)
(* goroutines and the chat's session.  A message takes the chat's key or   *)
(* is queued; the turn that holds the key releases it to the next message. *)
(* /stop, /new and a change of the chat's runtime release it by force.     *)
(***************************************************************************)
EXTENDS Naturals, Sequences, SequencesExt, FiniteSets

CONSTANTS
  Messages,   \* how many messages the chat sends, numbered in their order
  MediaOnly,  \* those that carry media and no text
  Cap,        \* queue_cap
  MaxForced,  \* bound on /stop, /new and changes of the chat's runtime
  MaxFails    \* bound on sessions that cannot be built

ASSUME BotAssumption ==
  /\ Messages \in Nat /\ Cap \in Nat \ {0} /\ MaxForced \in Nat /\ MaxFails \in Nat
  /\ MediaOnly \subseteq 1..Messages

Msg == 1..Messages

VARIABLES
  next,      \* the message the chat sends next
  drop,      \* queue_drop
  disp,      \* the dispatch loop: its step, its message and its queue mode
  active,    \* SessionManager.active of the key
  pending,   \* SessionManager.pending: the waiting entries
  dropped,   \* SessionManager.dropped: messages that await their summary
  turn,      \* message -> the goroutine its arrival started
  session,   \* every session built: its runtime, whether it is open, the turn
             \* state.cancel belongs to and the turn its controller runs
  current,   \* the session registered for the key, 0 for none
  profile,   \* the runtime the chat is set to
  forced, fails,
  served,    \* history: messages in the order their turns took them
  excused,   \* history: messages steered, refused, or dropped as configured
  orphaned   \* history: whether the key was taken and no turn started

botVars == <<next, drop, disp, active, pending, dropped, turn, session, current, profile,
          forced, fails, served, excused, orphaned>>
queue == <<active, pending, dropped>>
history == <<served, excused, orphaned>>

Modes == {"steer", "followup", "collect", "interrupt"}
Nobody == <<0, 0>>
Resting == [pc |-> "idle", msg |-> 0, mode |-> "followup"]
NoTurn == [pc |-> "none", msgs |-> <<>>, round |-> 0, at |-> 0, wants |-> 0, cancelled |-> FALSE]
Live == {g \in Msg : turn[g].pc \notin {"none", "over"}}
InTurns == UNION {ToSet(turn[g].msgs) : g \in Live}

BotInit ==
  /\ next = 1 /\ drop \in {"old", "new", "summarize"} /\ disp = Resting
  /\ active = FALSE /\ pending = <<>> /\ dropped = <<>>
  /\ turn = [g \in Msg |-> NoTurn]
  /\ session = <<>> /\ current = 0 /\ profile = 0
  /\ forced = 0 /\ fails = 0
  /\ served = <<>> /\ excused = {} /\ orphaned = FALSE

(***************************************************************************)
(* The dispatch loop.  The mode is the chat's override or the configured   *)
(* one, which /queue may change between any two messages.                  *)
(***************************************************************************)
Receive ==
  /\ disp.pc = "idle" /\ next <= Messages
  /\ \E mode \in Modes :
       disp' = [pc |-> IF active /\ mode \in {"steer", "interrupt"} THEN mode ELSE "acquire",
                msg |-> next, mode |-> IF mode = "collect" THEN mode ELSE "followup"]
  /\ next' = next + 1
  /\ UNCHANGED <<drop, queue, turn, session, current, profile, forced, fails, history>>

(* Steering needs a session; without one the message is queued.            *)
Steer ==
  /\ disp.pc = "steer"
  /\ IF current # 0
     THEN excused' = excused \cup {disp.msg} /\ disp' = Resting
     ELSE disp' = [disp EXCEPT !.pc = "acquire"] /\ UNCHANGED excused
  /\ UNCHANGED <<next, drop, queue, turn, session, current, profile, forced, fails, served,
                 orphaned>>

(* state.cancel is the cancel function of the turn that armed it last; a   *)
(* session no turn has armed yet has its controller cancelled instead.     *)
CancelOf(s) == IF s = 0 THEN Nobody
               ELSE IF session[s].cancel # Nobody THEN session[s].cancel ELSE session[s].runs
Hit(t) == [g \in Msg |-> IF <<g, turn[g].round>> = t /\ turn[g].pc \in {"admit", "run"}
                         THEN [turn[g] EXCEPT !.cancelled = TRUE] ELSE turn[g]]

CancelActive ==
  /\ disp.pc = "interrupt"
  /\ turn' = Hit(CancelOf(current))
  /\ disp' = [disp EXCEPT !.pc = "replace"]
  /\ UNCHANGED <<next, drop, queue, session, current, profile, forced, fails, served, excused, orphaned>>

Waiting(q) == UNION {ToSet(q[i].msgs) : i \in DOMAIN q}
Entry(m, mode) == [msgs |-> <<m>>, mode |-> mode]
BegunNever(m, msgs) == turn
Begun(m, msgs) == [turn EXCEPT ![m] = [NoTurn EXCEPT !.pc = "profile", !.msgs = msgs]]

(* ReplacePending: the newest message alone waits.  When the key is free   *)
(* by now it is taken, but the loop starts no turn for it.                 *)
ReplacePending ==
  /\ disp.pc = "replace" /\ disp' = Resting
  /\ IF ~active
     THEN active' = TRUE /\ orphaned' = TRUE /\ UNCHANGED <<pending, dropped, excused>>
     ELSE /\ excused' = excused \cup Waiting(pending) \cup ToSet(dropped)
          /\ pending' = <<Entry(disp.msg, "followup")>> /\ dropped' = <<>>
          /\ UNCHANGED <<active, orphaned>>
  /\ UNCHANGED <<next, drop, turn, session, current, profile, forced, fails, served>>

(* TryAcquireWithQueue: steer and interrupt queue as followups.            *)
Acquire ==
  /\ disp.pc = "acquire" /\ ~active /\ disp' = Resting
  /\ active' = TRUE
  /\ turn' = Begun(disp.msg, <<disp.msg>>)
  /\ UNCHANGED <<next, drop, pending, dropped, session, current, profile, forced, fails, history>>

FullLate == Len(pending) > Cap
Full == Len(pending) >= Cap
Room == IF Full THEN Tail(pending) ELSE pending
MayMerge(m, mode) == mode = "collect" /\ Room # <<>> /\ m \notin MediaOnly

(* Within the debounce window a collected message joins the last entry.    *)
Joined(m) == [Room EXCEPT ![Len(Room)] = [msgs |-> Append(@.msgs, m), mode |-> "collect"]]
QueuedInFront(m, mode) == {<<Entry(m, mode)>> \o Room}
QueuedAs(m, mode) ==
  {Append(Room, Entry(m, mode))} \cup (IF MayMerge(m, mode) THEN {Joined(m)} ELSE {})

Enqueue ==
  /\ disp.pc = "acquire" /\ active /\ disp' = Resting
  /\ IF Full /\ drop = "new"
     THEN excused' = excused \cup {disp.msg} /\ UNCHANGED <<pending, dropped>>
     ELSE /\ pending' \in QueuedAs(disp.msg, disp.mode)
          /\ dropped' = IF Full /\ drop = "summarize" THEN dropped \o pending[1].msgs ELSE dropped
          /\ excused' = IF Full /\ drop = "old" THEN excused \cup ToSet(pending[1].msgs) ELSE excused
  /\ UNCHANGED <<next, drop, active, turn, session, current, profile, forced, fails,
                 served, orphaned>>

(* /stop and /new cancel and then release by force; /new waits in between  *)
(* for the turn to end, for a bounded time.                                *)
Stop ==
  /\ disp.pc = "idle" /\ forced < MaxForced /\ forced' = forced + 1
  /\ turn' = IF current # 0 THEN Hit(session[current].cancel) ELSE turn
  /\ disp' = [Resting EXCEPT !.pc = "release"]
  /\ UNCHANGED <<next, drop, queue, session, current, profile, fails, served, excused, orphaned>>

(* /use, /attach and the like set the chat's runtime and close its session.*)
ClosedNever(s) == session
Closed(s) == [session EXCEPT ![s].open = FALSE]
SetRuntime ==
  /\ disp.pc = "idle" /\ forced < MaxForced /\ forced' = forced + 1
  /\ profile' = profile + 1 /\ current' = 0
  /\ IF current = 0 THEN UNCHANGED <<turn, session>>
     ELSE turn' = Hit(session[current].cancel) /\ session' = Closed(current)
  /\ disp' = [Resting EXCEPT !.pc = "release"]
  /\ UNCHANGED <<next, drop, queue, fails, history>>

ForceReleaseKeepsSummaries ==
  /\ disp.pc = "release" /\ disp' = Resting
  /\ excused' = excused \cup Waiting(pending)
  /\ active' = FALSE /\ pending' = <<>>
  /\ UNCHANGED <<next, drop, dropped, turn, session, current, profile, forced, fails, served, orphaned>>

ForceRelease ==
  /\ disp.pc = "release" /\ disp' = Resting
  /\ excused' = excused \cup Waiting(pending) \cup ToSet(dropped)
  /\ active' = FALSE /\ pending' = <<>> /\ dropped' = <<>>
  /\ UNCHANGED <<next, drop, turn, session, current, profile, forced, fails, served, orphaned>>

(***************************************************************************)
(* A turn's goroutine.  getOrCreateSession looks the session up, builds    *)
(* one without the lock and looks again before it registers it.            *)
(***************************************************************************)
Goes(g, pc) == turn' = [turn EXCEPT ![g].pc = pc]

ReadProfile(g) ==
  /\ turn[g].pc = "profile"
  /\ turn' = [turn EXCEPT ![g].pc = "look", ![g].wants = profile]
  /\ UNCHANGED <<next, drop, disp, queue, session, current, profile, forced, fails, history>>

Matches(g) == current # 0 /\ session[current].profile = turn[g].wants
Uses(f, g, s) == [f EXCEPT ![g].pc = "arm", ![g].at = s]

LookUp(g) ==
  /\ turn[g].pc = "look"
  /\ \/ /\ Matches(g) /\ turn' = Uses(turn, g, current)
        /\ UNCHANGED <<session, current>>
     \/ /\ current = 0 /\ Goes(g, "build")
        /\ UNCHANGED <<session, current>>
     \/ /\ current # 0 /\ ~Matches(g)
        /\ turn' = [Hit(session[current].cancel) EXCEPT ![g].pc = "build"]
        /\ session' = Closed(current) /\ current' = 0
  /\ UNCHANGED <<next, drop, disp, queue, profile, forced, fails, history>>

New(p) == [profile |-> p, open |-> TRUE, cancel |-> Nobody, runs |-> Nobody]

Build(g) ==
  /\ turn[g].pc = "build"
  /\ \/ /\ session' = Append(session, New(turn[g].wants))
        /\ turn' = [turn EXCEPT ![g].pc = "register", ![g].at = Len(session) + 1]
        /\ UNCHANGED <<fails, excused>>
     \/ /\ fails < MaxFails /\ fails' = fails + 1
        /\ excused' = excused \cup ToSet(turn[g].msgs)
        /\ Goes(g, "release") /\ UNCHANGED session
  /\ UNCHANGED <<next, drop, disp, queue, current, profile, forced, served, orphaned>>

(* A session built meanwhile wins if it fits; one that does not is closed. *)
Register(g) ==
  LET mine == turn[g].at IN
  /\ turn[g].pc = "register"
  /\ \/ /\ Matches(g)
        /\ turn' = Uses(turn, g, current) /\ session' = Closed(mine)
        /\ UNCHANGED current
     \/ /\ ~Matches(g) /\ current' = mine
        /\ IF current = 0 THEN turn' = Uses(turn, g, mine) /\ UNCHANGED session
           ELSE turn' = Uses(Hit(session[current].cancel), g, mine) /\ session' = Closed(current)
  /\ UNCHANGED <<next, drop, disp, queue, profile, forced, fails, history>>

ArmUnarmed(g) ==
  /\ turn[g].pc = "arm" /\ Goes(g, "admit")
  /\ UNCHANGED <<next, drop, disp, queue, session, current, profile, forced, fails, history>>

Arm(g) ==
  /\ turn[g].pc = "arm" /\ Goes(g, "admit")
  /\ session' = [session EXCEPT ![turn[g].at].cancel = <<g, turn[g].round>>]
  /\ UNCHANGED <<next, drop, disp, queue, current, profile, forced, fails, history>>

(* RunTurn refuses while the controller runs another turn or /new rotates  *)
(* its session; the sender sees the error.                                 *)
RunTurn(g) ==
  /\ turn[g].pc = "admit"
  /\ \/ /\ session[turn[g].at].runs = Nobody
        /\ session' = [session EXCEPT ![turn[g].at].runs = <<g, turn[g].round>>]
        /\ served' = served \o turn[g].msgs
        /\ Goes(g, "run") /\ UNCHANGED excused
     \/ /\ session[turn[g].at].runs # Nobody \/ disp.pc = "release"
        /\ excused' = excused \cup ToSet(turn[g].msgs)
        /\ Goes(g, "release") /\ UNCHANGED <<session, served>>
  /\ UNCHANGED <<next, drop, disp, queue, current, profile, forced, fails, orphaned>>

TurnEnds(g) ==
  /\ turn[g].pc = "run" /\ Goes(g, "release")
  /\ session' = [session EXCEPT ![turn[g].at].runs = Nobody]
  /\ UNCHANGED <<next, drop, disp, queue, current, profile, forced, fails, history>>

(* Release: a followup goes alone; otherwise the whole queue is merged and *)
(* an entry without text adds nothing to the merge: only the message that  *)
(* opened an entry may have none.  The summaries of dropped messages go    *)
(* with the next turn.                                                     *)
Text(msgs) == IF msgs[1] \in MediaOnly THEN Tail(msgs) ELSE msgs
Texts(q) ==
  LET upTo[i \in 1..Len(q)] == IF i = 1 THEN q[1].msgs ELSE upTo[i - 1] \o Text(q[i].msgs)
  IN upTo[Len(q)]
MergedFirst == pending[1].msgs
Merged == IF pending[1].mode = "followup" THEN pending[1].msgs ELSE Texts(pending)

Release(g) ==
  /\ turn[g].pc = "release"
  /\ IF pending = <<>>
     THEN /\ turn' = [turn EXCEPT ![g] = [NoTurn EXCEPT !.pc = "over"]]
          /\ active' = FALSE /\ dropped' = <<>>
          /\ UNCHANGED <<pending, excused>>
     ELSE /\ turn' = [turn EXCEPT ![g] = [NoTurn EXCEPT !.pc = "profile", !.msgs = Merged,
                                                        !.round = turn[g].round + 1]]
          /\ pending' = IF pending[1].mode = "followup" THEN Tail(pending) ELSE <<>>
          /\ excused' = excused \cup ToSet(dropped) /\ dropped' = <<>>
          /\ UNCHANGED active
  /\ UNCHANGED <<next, drop, disp, session, current, profile, forced, fails, served, orphaned>>

Dispatch == Receive \/ Steer \/ CancelActive \/ ReplacePending \/ Acquire \/ Enqueue
            \/ Stop \/ SetRuntime \/ ForceRelease
Runs(g) == ReadProfile(g) \/ LookUp(g) \/ Build(g) \/ Register(g) \/ Arm(g) \/ RunTurn(g)
           \/ TurnEnds(g) \/ Release(g)
BotNext == Dispatch \/ \E g \in Msg : Runs(g)

(* Goroutines are scheduled, and a turn that was admitted ends: it asks    *)
(* with a timeout and its steps are bounded.                               *)
Fairness == /\ WF_botVars(Steer \/ CancelActive \/ ReplacePending \/ Acquire \/ Enqueue \/ ForceRelease)
            /\ \A g \in Msg : WF_botVars(Runs(g))
BotSpec == BotInit /\ [][BotNext]_botVars /\ Fairness

(***************************************************************************)
(* Properties.                                                             *)
(***************************************************************************)
BotTypeOK ==
  /\ next \in 1..(Messages + 1) /\ active \in BOOLEAN /\ Len(pending) <= Cap
  /\ dropped \in Seq(Msg) /\ served \in Seq(Msg) /\ excused \subseteq Msg
  /\ current \in 0..Len(session)
  /\ \A g \in Live : turn[g].at \in 0..Len(session) /\ turn[g].msgs # <<>>

(* A key that is taken has a goroutine that will release it: whatever is   *)
(* queued behind it will have its turn.                                    *)
KeyHasARunner == active => Live # {}
KeyHasARunnerUnlessOrphaned == orphaned \/ KeyHasARunner

(* A summary of a dropped message waits only as long as a turn will carry  *)
(* it.                                                                     *)
SummariesHaveATurn == dropped # <<>> => pending # <<>>

(* No text message vanishes: it waits, is in a turn, was served, or was    *)
(* refused, steered or dropped in a way the gateway means to.              *)
Dispatched == 1..(next - 1)
Accounted == Waiting(pending) \cup ToSet(dropped) \cup InTurns \cup ToSet(served) \cup excused
             \cup {disp.msg}
NothingVanishes == orphaned \/ Dispatched \ MediaOnly \subseteq Accounted

(* Until a key is released by force, one turn is under way at a time and   *)
(* messages are served in the order they came.                             *)
InOrder == forced = 0 => /\ Cardinality(Live) <= 1
                         /\ \A i \in 1..(Len(served) - 1) : served[i] < served[i + 1]

(* ... and the cancel function that /stop and an interrupt would find is   *)
(* the running turn's.                                                     *)
RunningTurnCanBeStopped ==
  forced = 0 => \A g \in Live : turn[g].pc = "run"
                  => current = turn[g].at /\ session[current].cancel = <<g, turn[g].round>>

(* However many turns build sessions at once, every session but the        *)
(* registered one is closed or about to be registered.                     *)
SessionsDoNotLeak ==
  \A s \in DOMAIN session :
    session[s].open => s = current \/ \E g \in Live : turn[g].pc = "register" /\ turn[g].at = s

(* Again and again every text message that arrived has had its turn, or its*)
(* sender word that it will not have one.                                  *)
EveryMessageSettles ==
  []<>(orphaned \/ Dispatched \ MediaOnly \subseteq ToSet(served) \cup excused)

\* Whatever waits behind a taken key - messages, summaries of dropped ones - has a turn
\* that will come to it, and that turn can be stopped (TryAcquireWithQueue, Release).
\* The variables have their types.
QueueHasATurn ==
  /\ BotTypeOK
  /\ KeyHasARunnerUnlessOrphaned
  /\ SummariesHaveATurn
  /\ NothingVanishes
  /\ RunningTurnCanBeStopped
=============================================================================
