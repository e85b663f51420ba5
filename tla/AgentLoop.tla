----------------------------- MODULE AgentLoop -----------------------------
(***************************************************************************)
(* The tool loop of one turn (Run and executeBatch of agent/agent.go, with *)
(* maybeCompact of agent/compact.go).  The model is asked, its tool calls  *)
(* run - read-only ones side by side, the rest one at a time - and it is   *)
(* asked again, until it answers, a budget runs out or the turn is         *)
(* cancelled.  A frontend may steer the running turn; the host may refuse  *)
(* an answer whose writes were not verified, and stands down when its own  *)
(* guard has told the model to give up.                                    *)
(***************************************************************************)
EXTENDS Integers, Sequences, FiniteSets

CONSTANTS
  MaxSteps,        \* the optional limit on rounds, when it is set
  MaxBlocks,       \* maxFinalReadinessBlocks
  MaxEmpty,        \* maxEmptyFinalBlocks
  MaxRecoveries,   \* maxStreamRecoveries
  Threshold,       \* stormBreakThreshold
  MaxCalls,        \* bound on the calls of one answer
  MaxRounds,       \* bound on the batches of a run without a limit
  MaxRuns,         \* bound on turns
  MaxSteers        \* bound on steers

ASSUME LoopAssumption ==
  /\ {MaxSteps, MaxBlocks, MaxEmpty, MaxRecoveries, Threshold, MaxCalls, MaxRounds, MaxRuns}
       \subseteq Nat \ {0}
  /\ MaxSteers \in Nat

VARIABLES
  maxSteps,  \* the limit in force, 0 for none
  pc, run,   \* where the loop is, and the counters local to Run
  cancelled, \* the turn's context
  calls, at, running, out, \* executeBatch: the calls, the next to start, those running, results
  owed,      \* evidence: a write succeeded and its check has not succeeded since
  storm,     \* stormCount and blockedTurnStreak
  pass,      \* the loop guard has fired and nothing was written or run since
  fold,      \* consecutiveCompacts, compactStuck and softCompactNoticed
  queue,     \* steerQueue
  steers, runs, \* counters of the bounds
  outcome,   \* how the last run ended
  rounds,    \* history: batches run in this turn
  ran,       \* history: calls of this batch that were started
  late,      \* history: steers queued after the loop's last look at the queue
  lost,      \* history: steers the end of the last run dropped
  folds,     \* history: compactions since the prompt was last below the trigger
  gained     \* history: a write or a check succeeded since the batch began in which
             \* the guard last fired (TRUE while it has not)

batch == <<calls, at, running, out, ran>>
vars == <<maxSteps, pc, run, cancelled, batch, owed, storm, pass, fold, queue, steers, runs,
          outcome, rounds, late, lost, folds, gained>>
guard == <<owed, storm, pass, gained>>
ghosts == <<late, lost>>

Kinds == {"read", "write", "check"}
Bands == {"quiet", "soft", "snip", "high"}
NewRun == [step |-> 0, grace |-> FALSE, blocks |-> 0, empty |-> 0, nudged |-> FALSE,
           recoveries |-> 0, tool |-> FALSE]
NoBatch == calls = <<>> /\ at = 1 /\ running = {} /\ out = <<>> /\ ran = {}
DropsBatch == calls' = <<>> /\ at' = 1 /\ running' = {} /\ out' = <<>> /\ ran' = {}

Init ==
  /\ maxSteps \in {0, MaxSteps} /\ pc = "idle" /\ run = NewRun /\ cancelled = FALSE
  /\ NoBatch
  /\ owed = FALSE /\ storm = [count |-> 0, streak |-> 0] /\ pass = FALSE
  /\ fold = [runs |-> 0, stuck |-> FALSE, noticed |-> FALSE] /\ queue = <<>> /\ steers = 0 /\ runs = 0
  /\ outcome = "none" /\ rounds = 0 /\ late = {} /\ lost = {} /\ folds = 0 /\ gained = TRUE

(***************************************************************************)
(* The frontends.                                                          *)
(***************************************************************************)
Start ==
  /\ pc = "idle" /\ runs < MaxRuns /\ runs' = runs + 1
  /\ run' = NewRun /\ cancelled' = FALSE /\ pc' = "top"
  /\ owed' = FALSE /\ pass' = FALSE /\ gained' = TRUE /\ storm' = [storm EXCEPT !.streak = 0]
  /\ rounds' = 0 /\ outcome' = "none" /\ lost' = {}
  /\ UNCHANGED <<maxSteps, batch, fold, queue, steers, late, folds>>

Cancel ==
  /\ pc # "idle" /\ ~cancelled /\ cancelled' = TRUE
  /\ UNCHANGED <<maxSteps, pc, run, batch, guard, fold, queue, steers, runs, outcome, rounds,
                 ghosts, folds>>

Steer ==
  /\ pc # "idle" /\ steers < MaxSteers /\ steers' = steers + 1
  /\ queue' = Append(queue, steers') /\ late' = late \cup {steers'}
  /\ UNCHANGED <<maxSteps, pc, run, cancelled, batch, guard, fold, runs, outcome, rounds,
                 lost, folds>>

(***************************************************************************)
(* Compaction.                                                             *)
(***************************************************************************)
\* What maybeCompact makes of a prompt in a band (an answer without usage is
\* as good as one to be snipped).  Above the trigger a prune may save enough,
\* the pass may fail, or it counts - also when it folded nothing.
CompactedLate(k, b) ==
  CASE b = "quiet" \/ (b = "soft" /\ k.noticed) -> {[k EXCEPT !.runs = 0, !.stuck = FALSE]}
    [] b = "soft" /\ ~k.noticed -> {[k EXCEPT !.noticed = TRUE]}
    [] b = "high" /\ ~k.stuck -> {k, [k EXCEPT !.runs = @ + 1, !.stuck = k.runs + 1 >= 3]}
    [] OTHER -> {k}
Compacted(k, b) ==
  CASE b = "quiet" \/ (b = "soft" /\ k.noticed) -> {[k EXCEPT !.runs = 0, !.stuck = FALSE]}
    [] b = "soft" /\ ~k.noticed -> {[k EXCEPT !.noticed = TRUE]}
    [] b = "high" /\ ~k.stuck -> {k, [k EXCEPT !.runs = @ + 1, !.stuck = k.runs + 1 >= 2]}
    [] OTHER -> {k}

MaybeCompact ==
  \E b \in Bands :
    /\ fold' \in Compacted(fold, b)
    /\ folds' = IF b # "high" THEN 0
                ELSE IF fold'.runs > fold.runs THEN folds + 1 ELSE folds
NoCompaction == UNCHANGED <<fold, folds>>

(***************************************************************************)
(* The loop.                                                               *)
(***************************************************************************)
Ends(how) == pc' = "ending" /\ outcome' = how
Again == pc' = "top" /\ UNCHANGED outcome
Next1(r) == [r EXCEPT !.step = @ + 1]

\* The head of the loop: one steer is put into the session.
Top ==
  /\ pc = "top"
  /\ IF maxSteps = 0 \/ run.step < maxSteps \/ run.grace
     THEN /\ pc' = "stream" /\ UNCHANGED outcome
          /\ IF queue = <<>> THEN UNCHANGED <<queue, late>>
             ELSE queue' = Tail(queue) /\ late' = late \ {Head(queue)}
     ELSE Ends("paused") /\ UNCHANGED <<queue, late>>
  /\ UNCHANGED <<maxSteps, run, cancelled, batch, guard, fold, steers, runs, rounds, lost, folds>>

\* The stream breaks and is asked again; the retry costs no step.
RecoversAlways(r) == TRUE
Recovers(r) == r.recoveries < MaxRecoveries
Recovered(r) == [r EXCEPT !.recoveries = IF @ < MaxRecoveries THEN @ + 1 ELSE @]

Interrupted ==
  /\ pc = "stream" /\ Recovers(run)
  /\ run' = Recovered(run) /\ Again
  /\ UNCHANGED <<maxSteps, cancelled, batch, guard, fold, folds, queue, steers, runs, rounds, ghosts>>

StreamFails ==
  /\ pc = "stream" /\ Ends("error")
  /\ UNCHANGED <<maxSteps, run, cancelled, batch, guard, fold, folds, queue, steers, runs, rounds, ghosts>>

\* An answer without calls.
Answers ==
  /\ pc = "stream" /\ ~cancelled
  /\ pc' = "answer" /\ run' = [run EXCEPT !.recoveries = 0]
  /\ UNCHANGED <<maxSteps, cancelled, batch, guard, fold, folds, queue, steers, runs, outcome, rounds, ghosts>>

Ready == ~owed \/ pass

\* finalReadinessCheck.
NotReady ==
  /\ pc = "answer" /\ ~Ready
  /\ run' = Next1([run EXCEPT !.blocks = @ + 1])
  /\ IF run'.blocks >= MaxBlocks THEN Ends("error") /\ NoCompaction ELSE Again /\ MaybeCompact
  /\ UNCHANGED <<maxSteps, cancelled, batch, guard, queue, steers, runs, rounds, ghosts>>

EmptyAnswer ==
  /\ pc = "answer" /\ Ready
  /\ run' = Next1([run EXCEPT !.empty = @ + 1])
  /\ IF run'.empty >= MaxEmpty THEN Ends("error") /\ NoCompaction ELSE Again /\ MaybeCompact
  /\ UNCHANGED <<maxSteps, cancelled, batch, guard, queue, steers, runs, rounds, ghosts>>

\* An executor that answers without having done anything is nudged once.
Nudged ==
  /\ pc = "answer" /\ Ready /\ ~run.tool /\ ~run.nudged
  /\ run' = Next1([run EXCEPT !.nudged = TRUE]) /\ Again /\ MaybeCompact
  /\ UNCHANGED <<maxSteps, cancelled, batch, guard, queue, steers, runs, rounds, ghosts>>

\* A last look at the steer queue: with a steer waiting the loop goes on.
GoesOnNever == FALSE
GoesOn == queue # <<>>

Accepted ==
  /\ pc = "answer" /\ Ready
  /\ IF GoesOn THEN run' = Next1(run) /\ Again /\ NoCompaction /\ UNCHANGED late
     ELSE Ends("answered") /\ MaybeCompact /\ late' = {} /\ UNCHANGED run
  /\ UNCHANGED <<maxSteps, cancelled, batch, guard, queue, steers, runs, rounds, lost>>

\* The deferred clearSteerQueue.
Return ==
  /\ pc = "ending" /\ pc' = "idle"
  /\ queue' = <<>> /\ lost' = {queue[i] : i \in 1..Len(queue)}
  /\ UNCHANGED <<maxSteps, run, cancelled, batch, guard, fold, folds, steers, runs, outcome, rounds, late>>

(***************************************************************************)
(* A batch of calls.                                                       *)
(***************************************************************************)
\* In the grace round no call is run any more.
MayRunAlways(r) == TRUE
MayRun(r) == ~r.grace

CallsTools ==
  /\ pc = "stream" /\ ~cancelled
  /\ maxSteps = 0 => rounds < MaxRounds
  /\ run' = [run EXCEPT !.recoveries = 0, !.empty = 0, !.tool = TRUE]
  /\ IF MayRun(run)
     THEN /\ \E n \in 1..MaxCalls : calls' \in [1..n -> Kinds]
          /\ at' = 1 /\ running' = {} /\ out' = [i \in DOMAIN calls' |-> "none"] /\ ran' = {}
          /\ pc' = "batch" /\ rounds' = rounds + 1 /\ UNCHANGED outcome
     ELSE Ends("paused") /\ UNCHANGED <<batch, rounds>>
  /\ UNCHANGED <<maxSteps, cancelled, guard, fold, folds, queue, steers, runs, ghosts>>

ParallelUnlessWrite(k) == k # "write"
Parallelisable(k) == k = "read"

\* partitionToolCalls: neighbouring read-only calls run side by side.
MayStart(i) ==
  \/ running = {}
  \/ Parallelisable(calls[i]) /\ \A j \in running : Parallelisable(calls[j])

StartCall ==
  /\ pc = "batch" /\ at <= Len(calls) /\ ~cancelled /\ MayStart(at)
  /\ running' = running \cup {at} /\ ran' = ran \cup {at} /\ at' = at + 1
  /\ UNCHANGED <<maxSteps, pc, run, cancelled, calls, out, guard, fold, folds, queue, steers, runs,
                 outcome, rounds, ghosts>>

\* executeOne returns; a success leaves its receipt.
EndCall(i) ==
  /\ pc = "batch" /\ i \in running /\ running' = running \ {i}
  /\ \E o \in {"ok", "err", "blocked"} :
       /\ out' = [out EXCEPT ![i] = o]
       /\ owed' = IF o = "ok" /\ calls[i] # "read" THEN calls[i] = "write" ELSE owed
  /\ UNCHANGED <<maxSteps, pc, run, cancelled, calls, at, ran, storm, pass, gained, fold, folds, queue, steers,
                 runs, outcome, rounds, ghosts>>

\* markCancelled: the calls that were never started are answered, too.
FromTheStretch(n) == {i \in 1..n : \A j \in i..n : calls[j] = "read" \/ j >= at}
Unstarted(n) == at..n

MarkCancelled ==
  /\ pc = "batch" /\ cancelled /\ running = {} /\ at <= Len(calls)
  /\ out' = [i \in DOMAIN out |-> IF i \in Unstarted(Len(calls)) THEN "cancelled" ELSE out[i]]
  /\ at' = Len(calls) + 1
  /\ UNCHANGED <<maxSteps, pc, run, cancelled, calls, running, ran, guard, fold, folds, queue, steers,
                 runs, outcome, rounds, ghosts>>

\* applyStormBreaker: the same refusal or failure Threshold times in a row, or
\* nothing but refusals for as long, fires the guard; so does a call the
\* repeat guard refused.  Whether a batch repeats the one before (stormSig) is
\* a matter of its arguments and its errors' texts.
AllBlocked == \A i \in DOMAIN out : out[i] = "blocked"
NoneSucceeded == \A i \in DOMAIN out : out[i] # "ok"
Least(x) == IF x > Threshold THEN Threshold ELSE x
Stormed(repeats) ==
  [streak |-> IF AllBlocked THEN Least(storm.streak + 1) ELSE 0,
   count |-> IF ~NoneSucceeded THEN 0 ELSE IF repeats THEN Least(storm.count + 1) ELSE 1]
Fires(s) == s.count >= Threshold \/ s.streak >= Threshold
Progress == \E i \in DOMAIN out : out[i] = "ok" /\ calls[i] # "read"

\* loopGuardAllowsFinal: the mark is taken before the batch, so what the batch
\* itself achieved revokes the pass.
PassAfterTheBatch(fired) == fired \/ (pass /\ ~Progress)
PassAfter(fired) == (fired \/ pass) /\ ~Progress

\* A cancelled batch is not judged; the cancel may also come after that.
Breaks ==
  \/ cancelled /\ UNCHANGED <<storm, pass, gained>>
  \/ /\ \A i \in DOMAIN out : out[i] # "cancelled"
     /\ \E repeats \in BOOLEAN : storm' = Stormed(repeats)
     /\ \E repeat \in {FALSE} \cup {out[i] = "blocked" : i \in DOMAIN out} :
          LET fired == Fires(storm') \/ repeat IN
          /\ pass' = PassAfter(fired)
          /\ gained' = (Progress \/ (gained /\ ~fired))

LastRound(r) == maxSteps > 0 /\ r.step + 1 >= maxSteps

BatchDone ==
  /\ pc = "batch" /\ running = {} /\ at > Len(calls)
  /\ Breaks /\ DropsBatch
  /\ IF cancelled THEN Ends("error") /\ NoCompaction /\ UNCHANGED run
     ELSE /\ Again /\ MaybeCompact
          /\ run' = [Next1(run) EXCEPT !.grace = @ \/ LastRound(run)]
  /\ UNCHANGED <<maxSteps, cancelled, owed, queue, steers, runs, rounds, ghosts>>

Loop ==
  \/ Top \/ Interrupted \/ StreamFails \/ Answers \/ NotReady \/ EmptyAnswer \/ Nudged \/ Accepted
  \/ Return \/ CallsTools \/ StartCall \/ (\E i \in running : EndCall(i)) \/ MarkCancelled
  \/ BatchDone
Next == Start \/ Cancel \/ Steer \/ Loop

Spec == Init /\ [][Next]_vars /\ WF_vars(Loop)

(***************************************************************************)
(* Properties.                                                             *)
(***************************************************************************)
\* The variables have their types, a batch is in hand only while it runs.
TypeOK ==
  /\ maxSteps \in {0, MaxSteps}
  /\ pc \in {"idle", "top", "stream", "answer", "batch", "ending"}
  /\ run.step \in Nat /\ run.blocks \in 0..MaxBlocks /\ run.empty \in 0..MaxEmpty
  /\ run.recoveries \in 0..MaxRecoveries
  /\ running \subseteq DOMAIN calls /\ ran \subseteq DOMAIN calls
  /\ (pc # "batch" => calls = <<>>)
  /\ storm.count \in 0..Threshold /\ storm.streak \in 0..Threshold
  /\ fold.runs \in 0..2

\* A tool that writes or runs a command never overlaps another call of its
\* batch, in whatever order the parallel ones end (partitionToolCalls).
WritersRunAlone ==
  \A i, j \in running : i # j => calls[i] = "read" /\ calls[j] = "read"

\* Every call of the answer has a result before the model is asked again, and
\* "cancelled" is said only of calls that never started: cancelling in the
\* middle of a parallel stretch loses no result (executeBatch).
CallsAreAnswered ==
  /\ (pc = "batch" /\ at > Len(calls) /\ running = {}) => \A i \in DOMAIN out : out[i] # "none"
  /\ \A i \in DOMAIN out : i \in ran => out[i] # "cancelled"

\* A limit on rounds holds for the batches that run: neither stream retries nor
\* refused answers nor the grace round buy another one.
BudgetHolds == maxSteps > 0 => rounds <= maxSteps

\* A turn does not end in an answer while a write of it is unverified, unless
\* the loop guard fired and nothing was achieved since (loopGuardAllowsFinal):
\* calls that succeed beside a refused one revoke the pass.
AnswersAreVerified == outcome = "answered" /\ owed => ~gained

\* A turn that ends with an answer drops no steer it could have seen: what the
\* end clears was queued after the loop's last look.
SeenSteersAreAnswered ==
  pc = "idle" /\ outcome = "answered" => \A s \in lost : s \in late

\* Compaction pauses rather than loops: at most two passes while the prompt
\* stays at the trigger.
CompactionIsCapped == folds <= 2

\* A turn ends: with a limit on rounds by itself, without one when it is
\* cancelled - broken streams, refused answers and steers included.
RunEnds == (pc # "idle" /\ (maxSteps > 0 \/ cancelled)) ~> pc = "idle"

\* Whatever sends the loop round again, its batches are run whole - writers alone, every
\* call answered - and its limits on rounds and compactions hold (Run, executeBatch).
\* The variables have their types.
LoopIsSound ==
  /\ TypeOK
  /\ WritersRunAlone
  /\ CallsAreAnswered
  /\ BudgetHolds
  /\ CompactionIsCapped
=============================================================================
