-------------------------- MODULE AgentLoopProofs --------------------------
(***************************************************************************)
(* For any limits, calls and steers: writers run alone, every call is      *)
(* answered, a budget holds, an unverified write is not answered over, a   *)
(* steer the loop could see is not dropped, and compaction pauses.         *)
(***************************************************************************)
EXTENDS AgentLoop, TLAPS, SequenceTheorems

InTurn == pc \in {"top", "stream", "answer", "batch"}

Runs == [step : Nat, grace : BOOLEAN, blocks : 0..MaxBlocks, empty : 0..MaxEmpty,
         nudged : BOOLEAN, recoveries : 0..MaxRecoveries, tool : BOOLEAN]

\* The counters of a run stay below their limits while it goes on.
RunOK ==
  /\ maxSteps \in {0, MaxSteps}
  /\ pc \in {"idle", "top", "stream", "answer", "batch", "ending"}
  /\ run \in Runs
  /\ InTurn => run.blocks < MaxBlocks /\ run.empty < MaxEmpty

\* A round counts before its step does.
BudgetOK ==
  /\ rounds \in Nat
  /\ maxSteps > 0 =>
       /\ rounds <= maxSteps
       /\ pc \in {"top", "stream", "answer"} => rounds <= run.step
       /\ pc \in {"stream", "answer"} => run.step < maxSteps \/ run.grace
       /\ pc = "batch" => run.step < maxSteps /\ rounds <= run.step + 1

Outs == {"none", "ok", "err", "blocked", "cancelled"}

\* A call that was started is running or has its result.
BatchOK ==
  /\ calls \in Seq(Kinds) /\ at \in 1..(Len(calls) + 1)
  /\ running \subseteq 1..(at - 1) /\ ran \subseteq 1..(at - 1)
  /\ out \in [1..Len(calls) -> Outs]
  /\ \A i \in 1..(at - 1) : out[i] = "none" => i \in running
  /\ \A i \in at..Len(calls) : out[i] = "none"
  /\ \A i \in ran : out[i] # "cancelled"
  /\ pc # "batch" => calls = <<>>

\* A pass stands for a guard that fired and nothing achieved since.
GuardOK ==
  /\ storm \in [count : 0..Threshold, streak : 0..Threshold]
  /\ owed \in BOOLEAN /\ pass \in BOOLEAN /\ gained \in BOOLEAN
  /\ pass => ~gained
  /\ outcome = "answered" => pc \in {"ending", "idle"} /\ (owed => pass)

Folds == [runs : 0..2, stuck : BOOLEAN, noticed : BOOLEAN]

\* Every fold at the trigger counts toward the pause.
FoldOK ==
  /\ fold \in Folds
  /\ folds \in Nat /\ folds <= fold.runs
  /\ ~fold.stuck => fold.runs < 2

\* What waits when a turn ends with an answer came after the last look.
SteersOK ==
  /\ queue \in Seq(Nat) /\ steers \in Nat
  /\ outcome = "answered" /\ pc = "ending" => \A i \in 1..Len(queue) : queue[i] \in late
  /\ outcome = "answered" /\ pc = "idle" => \A s \in lost : s \in late

\* The inductive invariant.
IInv == RunOK /\ BudgetOK /\ BatchOK /\ WritersRunAlone /\ GuardOK /\ FoldOK /\ SteersOK

\* The initial state satisfies the inductive invariant.
LEMMA InitIInv == Init => IInv
<1> SUFFICES ASSUME Init PROVE IInv
    OBVIOUS
<1> USE LoopAssumption DEF Init, LoopAssumption
<1>1. RunOK
  BY DEF RunOK, Runs, NewRun, InTurn
<1>2. BudgetOK /\ WritersRunAlone
  BY DEF BudgetOK, WritersRunAlone, NoBatch
<1>3. BatchOK
  BY DEF BatchOK, NoBatch
<1>4. GuardOK /\ FoldOK
  <2>1. Threshold \in Nat /\ storm \in [count : 0..Threshold, streak : 0..Threshold]
    OBVIOUS
  <2>2. GuardOK
    BY <2>1, Zenon DEF GuardOK
  <2>3. fold \in Folds /\ fold.runs = 0 /\ folds = 0
    BY DEF Folds
  <2>4. FoldOK
    BY <2>3 DEF FoldOK
  <2> QED BY <2>2, <2>4
<1>5. SteersOK
  BY EmptySeq DEF SteersOK
<1> QED BY <1>1, <1>2, <1>3, <1>4, <1>5 DEF IInv

\* The next step of a run.
LEMMA NextOfARun ==
  ASSUME NEW r \in Runs
  PROVE  /\ Next1(r) \in Runs /\ Next1(r).step = r.step + 1 /\ Next1(r).grace = r.grace
         /\ Next1(r).blocks = r.blocks /\ Next1(r).empty = r.empty
  BY DEF Runs, Next1

\* What the loop makes of a run.
LEMMA MadeOfARun ==
  ASSUME NEW r \in Runs
  PROVE  /\ Recovered(r) \in Runs
         /\ [r EXCEPT !.recoveries = 0] \in Runs
         /\ r.blocks < MaxBlocks => [r EXCEPT !.blocks = r.blocks + 1] \in Runs
         /\ r.empty < MaxEmpty => [r EXCEPT !.empty = r.empty + 1] \in Runs
         /\ [r EXCEPT !.nudged = TRUE] \in Runs
         /\ [r EXCEPT !.recoveries = 0, !.empty = 0, !.tool = TRUE] \in Runs
         /\ \A b \in BOOLEAN : [r EXCEPT !.grace = b] \in Runs
<1> USE LoopAssumption DEF LoopAssumption
<1>1. Recovered(r) \in Runs
  BY DEF Runs, Recovered
<1>2. [r EXCEPT !.recoveries = 0] \in Runs
  BY DEF Runs
<1>3. r.blocks < MaxBlocks => [r EXCEPT !.blocks = r.blocks + 1] \in Runs
  BY DEF Runs
<1>4. r.empty < MaxEmpty => [r EXCEPT !.empty = r.empty + 1] \in Runs
  BY DEF Runs
<1>5. [r EXCEPT !.nudged = TRUE] \in Runs
  BY DEF Runs
<1>6. [r EXCEPT !.recoveries = 0, !.empty = 0, !.tool = TRUE] \in Runs
  <2>1. \A q \in Runs : [q EXCEPT !.empty = 0] \in Runs
    BY DEF Runs
  <2>2. \A q \in Runs : [q EXCEPT !.tool = TRUE] \in Runs
    BY DEF Runs
  <2> QED BY <1>2, <2>1, <2>2
<1>7. \A b \in BOOLEAN : [r EXCEPT !.grace = b] \in Runs
  BY DEF Runs
<1> QED BY <1>1, <1>2, <1>3, <1>4, <1>5, <1>6, <1>7

\* Every step keeps the counters of the run.
LEMMA RunStep == RunOK /\ [Next]_vars => RunOK'
<1> SUFFICES ASSUME RunOK, [Next]_vars PROVE RunOK'
    OBVIOUS
<1>0. run \in Runs /\ (InTurn => run.blocks < MaxBlocks /\ run.empty < MaxEmpty)
  BY DEF RunOK
<1> USE LoopAssumption DEF RunOK, InTurn, Ends, Again, LoopAssumption
<1>1. CASE Start
  <2>1. NewRun \in Runs /\ NewRun.blocks = 0 /\ NewRun.empty = 0
    BY DEF Runs, NewRun
  <2> QED BY <1>1, <2>1 DEF Start
<1>2. CASE Cancel \/ Steer \/ UNCHANGED vars
  BY <1>2 DEF Cancel, Steer, vars
<1>3. CASE Top \/ StreamFails \/ Return \/ StartCall \/ MarkCancelled
  BY <1>3 DEF Top, StreamFails, Return, StartCall, MarkCancelled
<1>4. CASE \E i \in running : EndCall(i)
  BY <1>4 DEF EndCall
<1>5. CASE Interrupted
  <2>1. run' = Recovered(run) /\ Recovered(run).blocks = run.blocks /\ Recovered(run).empty = run.empty
    BY <1>0, <1>5 DEF Interrupted, Recovered, Runs
  <2> QED BY <1>0, <1>5, <2>1, MadeOfARun DEF Interrupted
<1>6. CASE Answers
  <2>1. run' = [run EXCEPT !.recoveries = 0] /\ run'.blocks = run.blocks /\ run'.empty = run.empty
    BY <1>0, <1>6 DEF Answers, Runs
  <2> QED BY <1>0, <1>6, <2>1, MadeOfARun DEF Answers
<1>7. CASE NotReady
  <2> DEFINE r == [run EXCEPT !.blocks = run.blocks + 1]
  <2>1. r \in Runs /\ r.blocks = run.blocks + 1 /\ r.empty = run.empty
    <3>1. r \in Runs
      BY <1>0, <1>7, MadeOfARun DEF NotReady
    <3> QED BY <1>0, <3>1 DEF Runs
  <2>2. run' = Next1(r)
    BY <1>7 DEF NotReady
  <2>3. run' \in Runs /\ run'.blocks = run.blocks + 1 /\ run'.empty = run.empty
    BY <2>1, <2>2, NextOfARun
  <2> QED BY <1>0, <1>7, <2>3 DEF NotReady, Runs
<1>8. CASE EmptyAnswer
  <2> DEFINE r == [run EXCEPT !.empty = run.empty + 1]
  <2>1. r \in Runs /\ r.empty = run.empty + 1 /\ r.blocks = run.blocks
    <3>1. r \in Runs
      BY <1>0, <1>8, MadeOfARun DEF EmptyAnswer
    <3> QED BY <1>0, <3>1 DEF Runs
  <2>2. run' = Next1(r)
    BY <1>8 DEF EmptyAnswer
  <2>3. run' \in Runs /\ run'.empty = run.empty + 1 /\ run'.blocks = run.blocks
    BY <2>1, <2>2, NextOfARun
  <2> QED BY <1>0, <1>8, <2>3 DEF EmptyAnswer, Runs
<1>9. CASE Nudged
  <2> DEFINE r == [run EXCEPT !.nudged = TRUE]
  <2>1. r \in Runs /\ r.empty = run.empty /\ r.blocks = run.blocks
    <3>1. r \in Runs
      BY <1>0, MadeOfARun
    <3> QED BY <1>0, <3>1 DEF Runs
  <2>2. run' = Next1(r)
    BY <1>9 DEF Nudged
  <2>3. run' \in Runs /\ run'.empty = run.empty /\ run'.blocks = run.blocks
    BY <2>1, <2>2, NextOfARun
  <2> QED BY <1>0, <1>9, <2>3 DEF Nudged
<1>10. CASE Accepted
  BY <1>0, <1>10, NextOfARun DEF Accepted
<1>11. CASE CallsTools
  <2>1. run' = [run EXCEPT !.recoveries = 0, !.empty = 0, !.tool = TRUE]
    BY <1>11 DEF CallsTools
  <2>2. run' \in Runs
    BY <1>0, <2>1, MadeOfARun
  <2>3. run'.blocks = run.blocks /\ run'.empty = 0
    BY <1>0, <2>1 DEF Runs
  <2> QED BY <1>0, <1>11, <2>2, <2>3 DEF CallsTools
<1>12. CASE BatchDone
  <2>1. CASE run' = run /\ pc' = "ending"
    BY <1>0, <1>12, <2>1 DEF BatchDone
  <2>2. ASSUME run' = [Next1(run) EXCEPT !.grace = @ \/ LastRound(run)] /\ pc' = "top" PROVE RunOK'
    <3> DEFINE r == Next1(run)
               b == r.grace \/ LastRound(run)
    <3>1. r \in Runs /\ r.blocks = run.blocks /\ r.empty = run.empty
      BY <1>0, NextOfARun
    <3>2. b \in BOOLEAN /\ run' = [r EXCEPT !.grace = b]
      BY <2>2
    <3> HIDE DEF r, b
    <3>3. run' \in Runs
      BY <3>1, <3>2, MadeOfARun
    <3>4. run'.blocks = run.blocks /\ run'.empty = run.empty
      BY <3>1, <3>2 DEF Runs
    <3> QED BY <1>0, <1>12, <2>2, <3>3, <3>4 DEF BatchDone
  <2> QED BY <1>12, <2>1, <2>2 DEF BatchDone
<1> QED BY <1>1, <1>2, <1>3, <1>4, <1>5, <1>6, <1>7, <1>8, <1>9, <1>10, <1>11, <1>12 DEF Next, Loop

\* Every step keeps the rounds within the steps.
LEMMA BudgetStep == RunOK /\ BudgetOK /\ [Next]_vars => BudgetOK'
<1> SUFFICES ASSUME RunOK, BudgetOK, [Next]_vars PROVE BudgetOK'
    OBVIOUS
<1>0. run \in Runs /\ run.step \in Nat /\ run.grace \in BOOLEAN /\ maxSteps \in Nat /\ MaxSteps \in Nat \ {0}
  BY LoopAssumption DEF RunOK, Runs, LoopAssumption
<1> USE DEF BudgetOK, Ends, Again
<1>1. CASE Start
  <2>1. NewRun.step = 0 /\ NewRun.grace = FALSE
    BY DEF NewRun
  <2> QED BY <1>0, <1>1, <2>1 DEF Start
<1>2. CASE Cancel \/ Steer \/ UNCHANGED vars
  BY <1>2 DEF Cancel, Steer, vars
<1>3. CASE StreamFails \/ Return \/ StartCall \/ MarkCancelled
  BY <1>3 DEF StreamFails, Return, StartCall, MarkCancelled
<1>4. CASE \E i \in running : EndCall(i)
  BY <1>4 DEF EndCall
<1>5. CASE Top
  BY <1>0, <1>5 DEF Top
<1>6. CASE Interrupted
  <2>1. run'.step = run.step
    BY <1>0, <1>6 DEF Interrupted, Recovered, Runs
  <2> QED BY <1>0, <1>6, <2>1 DEF Interrupted
<1>7. CASE Answers
  <2>1. run'.step = run.step /\ run'.grace = run.grace
    BY <1>0, <1>7 DEF Answers, Runs
  <2> QED BY <1>0, <1>7, <2>1 DEF Answers
<1>8. CASE NotReady \/ EmptyAnswer \/ Nudged
  <2>1. run'.step = run.step + 1
    BY <1>0, <1>8 DEF NotReady, EmptyAnswer, Nudged, Next1, Runs
  <2>2. pc = "answer" /\ pc' \in {"top", "ending"} /\ UNCHANGED <<maxSteps, rounds>>
    BY <1>8 DEF NotReady, EmptyAnswer, Nudged
  <2> QED BY <1>0, <2>1, <2>2
<1>9. CASE Accepted
  <2>1. run'.step \in {run.step, run.step + 1}
    BY <1>0, <1>9, NextOfARun DEF Accepted
  <2>2. pc = "answer" /\ pc' \in {"top", "ending"} /\ UNCHANGED <<maxSteps, rounds>>
    BY <1>9 DEF Accepted
  <2> QED BY <1>0, <2>1, <2>2
<1>10. CASE CallsTools
  <2>1. run'.step = run.step
    BY <1>0, <1>10 DEF CallsTools, Runs
  <2>2. \/ ~run.grace /\ pc' = "batch" /\ rounds' = rounds + 1
        \/ pc' = "ending" /\ rounds' = rounds
    BY <1>10 DEF CallsTools, MayRun
  <2>3. pc = "stream" /\ UNCHANGED maxSteps
    BY <1>10 DEF CallsTools
  <2> QED BY <1>0, <2>1, <2>2, <2>3
<1>11. CASE BatchDone
  <2>1. pc = "batch" /\ UNCHANGED <<maxSteps, rounds>>
    BY <1>11 DEF BatchDone
  <2>2. CASE pc' = "ending"
    BY <1>0, <2>1, <2>2
  <2>3. CASE pc' = "top" /\ run' = [Next1(run) EXCEPT !.grace = @ \/ LastRound(run)]
    <3>1. run'.step = run.step + 1
      BY <1>0, <2>3 DEF Next1, Runs
    <3> QED BY <1>0, <2>1, <2>3, <3>1
  <2> QED BY <1>11, <2>2, <2>3 DEF BatchDone
<1> QED BY <1>1, <1>2, <1>3, <1>4, <1>5, <1>6, <1>7, <1>8, <1>9, <1>10, <1>11 DEF Next, Loop

\* What a prompt makes of the fold counters.
LEMMA FoldNoticed ==
  ASSUME NEW k \in Folds
  PROVE  [k EXCEPT !.noticed = TRUE] \in Folds
  BY DEF Folds

\* A prompt below the trigger clears the run of folds.
LEMMA FoldCleared ==
  ASSUME NEW k \in Folds
  PROVE  [k EXCEPT !.runs = 0, !.stuck = FALSE] \in Folds /\ [k EXCEPT !.runs = 0, !.stuck = FALSE].runs = 0
<1>1. [k EXCEPT !.runs = 0] \in Folds
  BY DEF Folds
<1>2. \A q \in Folds : [q EXCEPT !.stuck = FALSE] \in Folds
  BY DEF Folds
<1>3. [k EXCEPT !.runs = 0, !.stuck = FALSE].runs = 0
  BY DEF Folds
<1> QED BY <1>1, <1>2, <1>3

\* A fold is counted, and the second one in a row latches the pause.
LEMMA FoldCounted ==
  ASSUME NEW k \in Folds, k.runs < 2, NEW q, q = [k EXCEPT !.runs = k.runs + 1, !.stuck = k.runs + 1 >= 2]
  PROVE  q \in Folds /\ q.runs = k.runs + 1 /\ (~q.stuck => q.runs < 2)
<1>1. k.runs + 1 \in 0..2 /\ (k.runs + 1 >= 2) \in BOOLEAN
  BY DEF Folds
<1>2. [k EXCEPT !.runs = k.runs + 1] \in Folds
  BY <1>1 DEF Folds
<1>3. ASSUME NEW p \in Folds, NEW b \in BOOLEAN PROVE [p EXCEPT !.stuck = b] \in Folds
  BY DEF Folds
<1>4. q \in Folds
  BY <1>1, <1>2, <1>3
<1>5. q.runs = k.runs + 1 /\ (~q.stuck => ~(k.runs + 1 >= 2))
  BY <1>1 DEF Folds
<1>6. ~(k.runs + 1 >= 2) => k.runs + 1 < 2
  BY <1>1
<1> QED BY <1>4, <1>5, <1>6

\* Every step keeps count of the folds.
LEMMA FoldStep == FoldOK /\ [Next]_vars => FoldOK'
<1> SUFFICES ASSUME FoldOK, [Next]_vars PROVE FoldOK'
    OBVIOUS
<1>0. /\ fold \in Folds
      /\ folds \in Nat /\ folds <= fold.runs /\ (~fold.stuck => fold.runs < 2)
      /\ fold.runs \in 0..2 /\ fold.stuck \in BOOLEAN
  BY DEF FoldOK, Folds
<1>1. CASE NoCompaction
  BY <1>0, <1>1 DEF NoCompaction, FoldOK
<1>2. ASSUME MaybeCompact PROVE FoldOK'
  <2>1. PICK b \in Bands :
          /\ fold' \in Compacted(fold, b)
          /\ folds' = IF b # "high" THEN 0 ELSE IF fold'.runs > fold.runs THEN folds + 1 ELSE folds
    BY <1>2 DEF MaybeCompact
  <2>2. CASE b = "quiet" \/ (b = "soft" /\ fold.noticed)
    <3>1. fold' = [fold EXCEPT !.runs = 0, !.stuck = FALSE]
      BY <2>1, <2>2 DEF Compacted
    <3>2. fold' \in Folds /\ fold'.runs = 0
      BY <1>0, <3>1, FoldCleared
    <3> QED BY <2>1, <2>2, <3>2 DEF FoldOK
  <2>3. CASE b = "soft" /\ ~fold.noticed
    <3>1. fold' = [fold EXCEPT !.noticed = TRUE]
      BY <2>1, <2>3 DEF Compacted
    <3>2. /\ fold' \in Folds
          /\ fold'.runs = fold.runs /\ fold'.stuck = fold.stuck
      BY <1>0, <3>1 DEF Folds
    <3> QED BY <1>0, <2>1, <2>3, <3>2 DEF FoldOK
  <2>4. CASE b = "high" /\ ~fold.stuck
    <3>1. fold' = fold \/ fold' = [fold EXCEPT !.runs = fold.runs + 1, !.stuck = fold.runs + 1 >= 2]
      BY <2>1, <2>4 DEF Compacted
    <3>2. CASE fold' = fold
      BY <1>0, <2>1, <2>4, <3>2 DEF FoldOK
    <3>3. CASE fold' = [fold EXCEPT !.runs = fold.runs + 1, !.stuck = fold.runs + 1 >= 2]
      <4>1. fold' \in Folds /\ fold'.runs = fold.runs + 1 /\ (~fold'.stuck => fold'.runs < 2)
        BY <1>0, <2>4, <3>3, FoldCounted
      <4> QED BY <1>0, <2>1, <2>4, <4>1 DEF FoldOK, Folds
    <3> QED BY <3>1, <3>2, <3>3
  <2>5. CASE b \notin {"quiet", "soft"} /\ ~(b = "high" /\ ~fold.stuck)
    <3>1. fold' = fold
      BY <2>1, <2>5 DEF Compacted
    <3> QED BY <1>0, <2>1, <3>1 DEF FoldOK
  <2> QED BY <2>1, <2>2, <2>3, <2>4, <2>5 DEF Bands
<1>3. CASE NotReady \/ EmptyAnswer \/ Nudged \/ Accepted \/ BatchDone
  BY <1>1, <1>2, <1>3 DEF NotReady, EmptyAnswer, Nudged, Accepted, BatchDone
<1>4. CASE Start
  BY <1>0, <1>4 DEF Start, FoldOK
<1>5. CASE Top \/ Interrupted \/ StreamFails \/ Answers \/ Return \/ CallsTools \/ StartCall \/ MarkCancelled
  BY <1>1, <1>5 DEF Top, Interrupted, StreamFails, Answers, Return, CallsTools, StartCall, MarkCancelled,
                    NoCompaction
<1>6. CASE Cancel \/ Steer \/ UNCHANGED vars \/ \E i \in running : EndCall(i)
  BY <1>1, <1>6 DEF Cancel, Steer, vars, EndCall, NoCompaction
<1> QED BY <1>3, <1>4, <1>5, <1>6 DEF Next, Loop

\* A list of calls.
LEMMA AListOfCalls ==
  ASSUME NEW n \in Nat, NEW s \in [1..n -> Kinds]
  PROVE  s \in Seq(Kinds) /\ Len(s) = n
  OBVIOUS

\* The calls of a batch, for the proofs of its steps.
LEMMA BatchFacts ==
  ASSUME BatchOK
  PROVE  /\ Len(calls) \in Nat /\ DOMAIN calls = 1..Len(calls) /\ DOMAIN out = 1..Len(calls)
         /\ at \in Nat /\ running \subseteq 1..Len(calls) /\ ran \subseteq 1..Len(calls)
<1>1. Len(calls) \in Nat /\ DOMAIN calls = 1..Len(calls)
  BY LenProperties DEF BatchOK
<1> QED BY <1>1 DEF BatchOK

\* Every step keeps the calls of the batch accounted for, and writers alone.
LEMMA BatchStep == RunOK /\ BatchOK /\ WritersRunAlone /\ [Next]_vars => BatchOK' /\ WritersRunAlone'
<1> SUFFICES ASSUME RunOK, BatchOK, WritersRunAlone, [Next]_vars PROVE BatchOK' /\ WritersRunAlone'
    OBVIOUS
<1>0. /\ Len(calls) \in Nat /\ DOMAIN calls = 1..Len(calls) /\ DOMAIN out = 1..Len(calls)
      /\ at \in Nat /\ running \subseteq 1..Len(calls) /\ ran \subseteq 1..Len(calls)
  BY BatchFacts
<1>u. ASSUME UNCHANGED batch, pc' = pc \/ calls = <<>> PROVE BatchOK' /\ WritersRunAlone'
  BY <1>u DEF BatchOK, WritersRunAlone, batch
<1>1. CASE Start \/ Cancel \/ Steer \/ UNCHANGED vars
  BY <1>1, <1>u DEF Start, Cancel, Steer, vars, BatchOK
<1>2. CASE Top \/ Interrupted \/ StreamFails \/ Answers \/ NotReady \/ EmptyAnswer \/ Nudged \/ Accepted \/ Return
  <2>1. UNCHANGED batch /\ pc # "batch"
    BY <1>2 DEF Top, Interrupted, StreamFails, Answers, NotReady, EmptyAnswer, Nudged, Accepted, Return
  <2> QED BY <2>1, <1>u DEF BatchOK
<1>3. CASE CallsTools
  <2>1. CASE UNCHANGED batch /\ pc = "stream"
    BY <2>1, <1>u DEF BatchOK
  <2>2. ASSUME NEW n \in 1..MaxCalls, calls' \in [1..n -> Kinds], pc' = "batch",
               at' = 1 /\ running' = {} /\ out' = [i \in DOMAIN calls' |-> "none"] /\ ran' = {}
        PROVE  BatchOK' /\ WritersRunAlone'
    <3>1. calls' \in Seq(Kinds) /\ Len(calls') = n /\ DOMAIN calls' = 1..n
      BY <2>2, AListOfCalls
    <3>2. BatchOK'
      BY <2>2, <3>1 DEF BatchOK, Outs
    <3>3. WritersRunAlone'
      BY <2>2 DEF WritersRunAlone
    <3> QED BY <3>2, <3>3
  <2>3. (UNCHANGED batch /\ pc = "stream") \/
        \E n \in 1..MaxCalls : /\ calls' \in [1..n -> Kinds] /\ pc' = "batch"
                               /\ at' = 1 /\ running' = {} /\ ran' = {}
                               /\ out' = [i \in DOMAIN calls' |-> "none"]
    BY <1>3 DEF CallsTools
  <2> QED BY <2>1, <2>2, <2>3
<1>4. CASE StartCall
  <2>1. /\ pc = "batch" /\ at <= Len(calls) /\ running' = running \cup {at} /\ ran' = ran \cup {at}
        /\ at' = at + 1 /\ UNCHANGED <<pc, calls, out>> /\ MayStart(at)
    BY <1>4 DEF StartCall
  <2>2. BatchOK'
    BY <2>1, <1>0 DEF BatchOK
  <2>3. WritersRunAlone'
    BY <2>1, <1>0 DEF WritersRunAlone, MayStart, Parallelisable
  <2> QED BY <2>2, <2>3
<1>5. ASSUME NEW i \in running, EndCall(i) PROVE BatchOK' /\ WritersRunAlone'
  <2>1. /\ pc = "batch" /\ running' = running \ {i} /\ UNCHANGED <<pc, calls, at, ran>>
    BY <1>5 DEF EndCall
  <2>2. PICK o \in {"ok", "err", "blocked"} : out' = [out EXCEPT ![i] = o]
    BY <1>5 DEF EndCall
  <2>3. /\ out' \in [1..Len(calls) -> Outs] /\ out'[i] = o
        /\ \A j \in 1..Len(calls) : j # i => out'[j] = out[j]
    BY <2>2, <1>0, <1>5 DEF BatchOK, Outs
  <2>4. BatchOK'
    BY <2>1, <2>3, <1>0 DEF BatchOK
  <2> QED BY <2>1, <2>4 DEF WritersRunAlone
<1>6. CASE MarkCancelled
  <2>1. /\ running = {} /\ at' = Len(calls) + 1 /\ UNCHANGED <<pc, calls, running, ran>> /\ pc = "batch"
        /\ out' = [i \in DOMAIN out |-> IF i \in at..Len(calls) THEN "cancelled" ELSE out[i]]
    BY <1>6 DEF MarkCancelled, Unstarted
  <2>2. /\ out' \in [1..Len(calls) -> Outs]
        /\ \A i \in 1..Len(calls) : out'[i] = IF i \in at..Len(calls) THEN "cancelled" ELSE out[i]
    BY <2>1, <1>0 DEF BatchOK, Outs
  <2>3. BatchOK'
    BY <2>1, <2>2, <1>0 DEF BatchOK
  <2> QED BY <2>1, <2>3 DEF WritersRunAlone
<1>7. CASE BatchDone
  <2>1. /\ calls' = <<>> /\ at' = 1 /\ running' = {} /\ out' = <<>> /\ ran' = {}
    BY <1>7 DEF BatchDone, DropsBatch
  <2> QED BY <2>1, EmptySeq DEF BatchOK, WritersRunAlone
<1> QED BY <1>1, <1>2, <1>3, <1>4, <1>5, <1>6, <1>7 DEF Next, Loop

\* Every step keeps a pass in step with what was achieved.
LEMMA GuardStep == RunOK /\ GuardOK /\ [Next]_vars => GuardOK'
<1> SUFFICES ASSUME RunOK, GuardOK, [Next]_vars PROVE GuardOK'
    OBVIOUS
<1> DEFINE Answered == outcome = "answered" => pc \in {"ending", "idle"} /\ (owed => pass)
           Storms == [count : 0..Threshold, streak : 0..Threshold]
<1>0. storm \in Storms /\ owed \in BOOLEAN /\ pass \in BOOLEAN /\ gained \in BOOLEAN /\ Threshold \in Nat \ {0}
  BY LoopAssumption DEF GuardOK, LoopAssumption
<1> USE DEF GuardOK, Ends, Again
<1>1. CASE Start
  <2>1. [storm EXCEPT !.streak = 0] \in Storms
    BY <1>0
  <2> QED BY <1>1, <2>1 DEF Start
<1>2. CASE Cancel \/ Steer \/ UNCHANGED vars
  BY <1>2 DEF Cancel, Steer, vars, guard
<1>3. CASE Top \/ Interrupted \/ StreamFails \/ Answers \/ NotReady \/ EmptyAnswer \/ Nudged \/ Return
  BY <1>3 DEF Top, Interrupted, StreamFails, Answers, NotReady, EmptyAnswer, Nudged, Return, guard
<1>4. CASE Accepted
  <2>1. pc' = "ending" \/ outcome' # "answered"
    BY <1>4 DEF Accepted
  <2>2. UNCHANGED guard /\ (owed => pass)
    BY <1>4, Zenon DEF Accepted, Ready
  <2> QED BY <1>0, <2>1, <2>2, Zenon DEF guard
<1>5. CASE CallsTools \/ StartCall \/ MarkCancelled
  <2>1. UNCHANGED guard
    BY <1>5 DEF CallsTools, StartCall, MarkCancelled
  <2>2. outcome' # "answered"
    BY <1>5 DEF CallsTools, StartCall, MarkCancelled
  <2> QED BY <2>1, <2>2, Zenon DEF guard
<1>6. CASE \E i \in running : EndCall(i)
  <2>1. PICK i \in running : EndCall(i)
    BY <1>6
  <2>2. UNCHANGED <<storm, pass, gained>> /\ outcome' # "answered"
    BY <2>1 DEF EndCall
  <2>3. owed' \in BOOLEAN
    BY <2>1 DEF EndCall
  <2> QED BY <2>2, <2>3, Zenon
<1>7. CASE BatchDone
  <2>1. pc = "batch" /\ outcome # "answered" /\ outcome' # "answered"
    BY <1>7 DEF BatchDone
  <2>2. CASE UNCHANGED <<storm, pass, gained>>
    BY <1>7, <2>1, <2>2 DEF BatchDone
  <2>3. CASE ~UNCHANGED <<storm, pass, gained>>
    <3>1. PICK repeats \in BOOLEAN, fired \in BOOLEAN :
            /\ storm' = Stormed(repeats)
            /\ pass' = PassAfter(fired) /\ gained' = (Progress \/ (gained /\ ~fired))
      <4>1. PICK repeats \in BOOLEAN : storm' = Stormed(repeats)
        BY <1>7, <2>3 DEF BatchDone, Breaks
      <4>2. PICK repeat \in {FALSE} \cup {out[i] = "blocked" : i \in DOMAIN out} :
              LET fired == Fires(storm') \/ repeat IN
              pass' = PassAfter(fired) /\ gained' = (Progress \/ (gained /\ ~fired))
        BY <1>7, <2>3 DEF BatchDone, Breaks
      <4>3. (Fires(storm') \/ repeat) \in BOOLEAN
        OBVIOUS
      <4> QED BY <4>1, <4>2, <4>3
    <3>2. storm' \in Storms
      BY <1>0, <3>1 DEF Stormed, Least
    <3>3. pass' \in BOOLEAN /\ gained' \in BOOLEAN /\ (pass' => ~gained')
      BY <1>0, <3>1, Zenon DEF PassAfter, Progress
    <3>4. owed' = owed
      BY <1>7 DEF BatchDone
    <3> QED BY <1>0, <2>1, <3>2, <3>3, <3>4
  <2> QED BY <2>2, <2>3
<1> QED BY <1>1, <1>2, <1>3, <1>4, <1>5, <1>6, <1>7 DEF Next, Loop

\* Every step keeps account of the steers that came after the last look.
LEMMA SteersStep == RunOK /\ GuardOK /\ SteersOK /\ [Next]_vars => SteersOK'
<1> SUFFICES ASSUME RunOK, GuardOK, SteersOK, [Next]_vars PROVE SteersOK'
    OBVIOUS
<1>0. /\ queue \in Seq(Nat) /\ steers \in Nat /\ Len(queue) \in Nat
      /\ outcome = "answered" => pc \in {"ending", "idle"}
  BY LenProperties DEF SteersOK, GuardOK
<1> USE DEF SteersOK, Ends, Again, ghosts
<1>1. CASE Start
  BY <1>0, <1>1 DEF Start
<1>2. CASE Steer
  <2>1. /\ queue' = Append(queue, steers + 1) /\ late' = late \cup {steers + 1} /\ steers' = steers + 1
        /\ UNCHANGED <<pc, outcome, lost>> /\ pc # "idle"
    BY <1>2 DEF Steer
  <2>2. /\ queue' \in Seq(Nat) /\ Len(queue') = Len(queue) + 1 /\ queue'[Len(queue) + 1] = steers + 1
        /\ \A i \in 1..Len(queue) : queue'[i] = queue[i]
    BY <1>0, <2>1
  <2> QED BY <1>0, <2>1, <2>2
<1>3. CASE Cancel \/ UNCHANGED vars
  BY <1>0, <1>3 DEF Cancel, vars
<1>4. CASE Top
  <2>1. outcome' # "answered"
    BY <1>0, <1>4 DEF Top
  <2>2. queue' \in Seq(Nat) /\ steers' = steers
    BY <1>0, <1>4, HeadTailProperties DEF Top
  <2> QED BY <1>0, <2>1, <2>2
<1>5. CASE Interrupted \/ StreamFails \/ Answers \/ NotReady \/ EmptyAnswer \/ Nudged \/ CallsTools \/ BatchDone
  <2>1. outcome' # "answered" /\ UNCHANGED <<queue, steers>>
    BY <1>0, <1>5 DEF Interrupted, StreamFails, Answers, NotReady, EmptyAnswer, Nudged, CallsTools, BatchDone
  <2> QED BY <1>0, <2>1
<1>6. CASE Accepted
  <2>1. UNCHANGED <<queue, steers, lost>> /\ pc = "answer" /\ pc' \in {"top", "ending"}
    BY <1>6 DEF Accepted
  <2>2. outcome' = "answered" => queue = <<>>
    BY <1>0, <1>6 DEF Accepted, GoesOn
  <2>3. queue = <<>> => Len(queue) = 0
    BY EmptySeq
  <2> QED BY <1>0, <2>1, <2>2, <2>3
<1>7. CASE Return
  <2>1. /\ queue' = <<>> /\ lost' = {queue[i] : i \in 1..Len(queue)} /\ UNCHANGED <<steers, outcome, late>>
        /\ pc = "ending" /\ pc' = "idle"
    BY <1>7 DEF Return
  <2> QED BY <1>0, <2>1, EmptySeq
<1>8. CASE StartCall \/ MarkCancelled \/ \E i \in running : EndCall(i)
  BY <1>0, <1>8 DEF StartCall, MarkCancelled, EndCall
<1> QED BY <1>1, <1>2, <1>3, <1>4, <1>5, <1>6, <1>7, <1>8 DEF Next, Loop

\* Every step preserves the inductive invariant.
LEMMA StepIInv == IInv /\ [Next]_vars => IInv'
  BY RunStep, BudgetStep, BatchStep, GuardStep, FoldStep, SteersStep DEF IInv

\* The inductive invariant holds throughout.
THEOREM Invariant == Spec => []IInv
  BY InitIInv, StepIInv, PTL DEF Spec

\* The loop, its counters and its batch have their types, whatever the limits.
THEOREM TypeCorrect == Spec => []TypeOK
<1>1. IInv => TypeOK
  <2> SUFFICES ASSUME IInv PROVE TypeOK
      OBVIOUS
  <2>1. /\ DOMAIN calls = 1..Len(calls) /\ running \subseteq 1..Len(calls) /\ ran \subseteq 1..Len(calls)
    BY BatchFacts DEF IInv
  <2> QED BY <2>1 DEF IInv, TypeOK, RunOK, Runs, BatchOK, GuardOK, FoldOK, Folds
<1> QED BY Invariant, <1>1, PTL

\* No writer overlaps another call, however many calls a batch has.
THEOREM WritersAreAlone == Spec => []WritersRunAlone
<1>1. IInv => WritersRunAlone
  BY DEF IInv
<1> QED BY Invariant, <1>1, PTL

\* Every call of a batch is answered, and "cancelled" means it never started.
THEOREM EveryCallIsAnswered == Spec => []CallsAreAnswered
<1>1. IInv => CallsAreAnswered
  <2> SUFFICES ASSUME IInv PROVE CallsAreAnswered
      OBVIOUS
  <2>1. DOMAIN out = 1..Len(calls) /\ Len(calls) \in Nat /\ at \in Nat
    BY BatchFacts DEF IInv
  <2> QED BY <2>1 DEF IInv, BatchOK, CallsAreAnswered
<1> QED BY Invariant, <1>1, PTL

\* A limit on rounds holds, whatever it is.
THEOREM BudgetIsKept == Spec => []BudgetHolds
<1>1. IInv => BudgetHolds
  BY DEF IInv, BudgetOK, BudgetHolds
<1> QED BY Invariant, <1>1, PTL

\* A turn does not answer over an unverified write while its guard stands.
THEOREM AnswersAreChecked == Spec => []AnswersAreVerified
<1>1. IInv => AnswersAreVerified
  BY DEF IInv, GuardOK, AnswersAreVerified
<1> QED BY Invariant, <1>1, PTL

\* What the end of an answered turn drops came after its last look.
THEOREM SeenSteersAreNotDropped == Spec => []SeenSteersAreAnswered
<1>1. IInv => SeenSteersAreAnswered
  BY DEF IInv, SteersOK, SeenSteersAreAnswered
<1> QED BY Invariant, <1>1, PTL

\* At most two passes while the prompt stays at the trigger.
THEOREM CompactionPauses == Spec => []CompactionIsCapped
<1>1. IInv => CompactionIsCapped
  BY DEF IInv, FoldOK, Folds, CompactionIsCapped
<1> QED BY Invariant, <1>1, PTL

\* Batches run whole and within the limits, whatever the limits.
THEOREM LoopsAreSound == Spec => []LoopIsSound
  BY TypeCorrect, WritersAreAlone, EveryCallIsAnswered, BudgetIsKept, CompactionPauses, PTL DEF LoopIsSound
=============================================================================
