---------------------------- MODULE Checkpoints ----------------------------
(***************************************************************************)
(* Checkpoints and rewind (internal/checkpoint, control/checkpoint.go and  *)
(* the Rewind, Summarize and Fork of control/controller.go).  Every user   *)
(* turn opens a checkpoint: the length of the transcript and the contents  *)
(* files had before the turn's editing tools first touched them, one file  *)
(* per turn beside the session.  A rewind puts the files back, then cuts   *)
(* the transcript.  The process may die between any two steps.             *)
(*                                                                         *)
(* A message is the number of its turn if it is the user's prompt, minus   *)
(* that number if the model wrote it, 0 if it is a digest.  The content of *)
(* a file is a number, 0 when there is no file.                            *)
(***************************************************************************)
EXTENDS Integers, Sequences, FiniteSets, FiniteSetsExt, Functions

CONSTANTS
  Paths,
  MaxTurns, MaxMessages, MaxEdits,  \* bounds on turns, transcript and edits
  MaxRewinds,   \* bound on rewinds
  MaxFolds,     \* bound on compactions
  MaxSummaries, \* bound on summaries
  MaxForks,     \* bound on forks
  MaxFaults,    \* bound on writes and removals that fail
  MaxRestarts,  \* bound on crashes
  MaxUpsets     \* bound on all of these together

ASSUME CheckpointAssumption ==
  {MaxTurns, MaxMessages, MaxEdits, MaxRewinds, MaxFolds, MaxSummaries, MaxForks, MaxFaults,
   MaxRestarts, MaxUpsets}
    \subseteq Nat

VARIABLES
  mode,        \* what the controller is doing
  job,         \* the rewind in hand
  msgs,        \* the session in memory
  files,       \* the workspace
  m,           \* checkpointManager and its Store: turn, bound, cps (done and cur), cur
  disk,        \* turn -> the checkpoint turn-N.json holds, where it can be read
  transcript,  \* the session file
  marker,      \* the in-flight mark of the session's metadata
  round,       \* where the running round of the turn began
  edits, used, \* counters of the bounds
  past,        \* history: transcript and files at the start of every turn begun
  exact,       \* history: turns no compaction, lost save, summary or rewind to a
               \* turn that is gone has moved
  clean,       \* history: turns whose file snapshots are all there
  folded,      \* history: turns begun before the last summary
  dirty        \* history: the last save failed, or a compaction is not saved

vars == <<mode, job, msgs, files, m, disk, transcript, marker, round, edits, used,
          past, exact, clean, folded, dirty>>
history == <<past, exact, clean, folded>>

NoTurn == -1
NoRound == [start |-> NoTurn, keep |-> FALSE]
NoJob == [turn |-> NoTurn, scope |-> "code", todo |-> {}, failed |-> FALSE]
Empty == <<>>
Fresh == [turn |-> 0, bound |-> Empty, cps |-> Empty, cur |-> NoTurn]

With(f, k, v) == [x \in DOMAIN f \cup {k} |-> IF x = k THEN v ELSE f[x]]
Without(f, S) == [x \in DOMAIN f \ S |-> f[x]]
From(f, t) == {k \in DOMAIN f : k >= t}
Prefix(ms, n) == SubSeq(ms, 1, n)
May(what, max) ==
  /\ used[what] < max /\ FoldFunction(+, 0, used) < MaxUpsets
  /\ used' = [used EXCEPT ![what] = @ + 1]
Fails == May("faults", MaxFaults)
Succeeds == UNCHANGED used

Init ==
  /\ mode = "idle" /\ job = NoJob /\ msgs = <<>> /\ files = [p \in Paths |-> 0]
  /\ m = Fresh /\ disk = Empty /\ transcript = <<>>
  /\ marker = NoRound /\ round = NoRound /\ edits = 0
  /\ used = [w \in {"rewinds", "folds", "summaries", "forks", "faults", "restarts"} |-> 0]
  /\ past = <<>> /\ exact = {} /\ clean = {} /\ folded = {} /\ dirty = FALSE

\* persist: written over the old file in place, so a write that fails leaves
\* the old checkpoint or one that cannot be read.
Persist(t, cp) ==
  \/ Succeeds /\ disk' = With(disk, t, cp)
  \/ Fails /\ disk' \in {disk, Without(disk, {t})}

\* A save of the transcript.
SaveMessages ==
  \/ Succeeds /\ transcript' = msgs /\ dirty' = FALSE
  \/ Fails /\ UNCHANGED transcript /\ dirty' = TRUE

(***************************************************************************)
(* A turn.                                                                 *)
(***************************************************************************)
Opened(mm, u, index) ==
  [turn |-> mm.turn + 1, bound |-> With(mm.bound, mm.turn, index), cur |-> mm.turn,
   cps |-> With(mm.cps, mm.turn, [uid |-> u, index |-> index, snaps |-> Empty])]

Begin ==
  /\ mode = "idle" /\ Len(past) < MaxTurns
  /\ LET u == Len(past) + 1 IN
     /\ m' = Opened(m, u, Len(msgs))
     /\ Persist(m.turn, m'.cps[m.turn])
     /\ past' = Append(past, [msgs |-> msgs, files |-> files])
     /\ exact' = exact \cup {u} /\ clean' = clean \cup {u}
  /\ round' = [start |-> Len(msgs), keep |-> TRUE] /\ marker' = round'
  /\ mode' = "turn"
  /\ UNCHANGED <<job, msgs, files, transcript, edits, folded, dirty>>

\* The prompt first, then what the model and its tools say.
Say ==
  /\ mode = "turn" /\ Len(msgs) < MaxMessages
  /\ LET u == Len(past) IN
     msgs' = Append(msgs, IF round.keep /\ u \notin {msgs[i] : i \in 1..Len(msgs)} THEN u ELSE -u)
  /\ UNCHANGED <<mode, job, files, m, disk, transcript, marker, round, edits, used, history, dirty>>

\* Only the first touch of a path in the turn is kept.
SnappedAgain(cp, p, old) == [cp EXCEPT !.snaps = With(@, p, old)]
Snapped(cp, p, old) ==
  IF p \in DOMAIN cp.snaps THEN cp ELSE [cp EXCEPT !.snaps = With(@, p, old)]

\* An editing tool: the pre-edit hook's snapshot, then the edit, which writes
\* the file or deletes it (or leaves it absent).
Edit(p) ==
  /\ mode = "turn" /\ edits < MaxEdits /\ edits' = edits + 1
  /\ files' \in {[files EXCEPT ![p] = v] : v \in {edits + 1, 0}}
  /\ m' = [m EXCEPT !.cps[m.cur] = Snapped(@, p, files[p])]
  /\ IF m' = m THEN Succeeds /\ UNCHANGED disk ELSE Persist(m.cur, m'.cps[m.cur])
  /\ UNCHANGED <<mode, job, msgs, transcript, marker, round, history, dirty>>

\* autosaveWhileRunning.
Autosave ==
  /\ mode = "turn" /\ SaveMessages
  /\ UNCHANGED <<mode, job, msgs, files, m, disk, marker, round, edits, history>>

\* What a cancelled round leaves: the user's prompt at most.
Stripped(ms, r) ==
  LET prompts == {i \in r.start + 1..Len(ms) : ms[i] > 0}
      cut == Prefix(ms, r.start)
  IN IF Len(ms) <= r.start THEN ms
     ELSE IF r.keep /\ prompts # {} THEN Append(cut, ms[Min(prompts)]) ELSE cut

\* The file may hold more of the round than the memory now does: flush it.
FlushNever == Succeeds /\ UNCHANGED <<transcript, dirty>>
FlushStripped ==
  \/ Len(msgs) <= round.start /\ Succeeds /\ UNCHANGED <<transcript, dirty>>
  \/ Len(msgs) > round.start /\ Succeeds /\ transcript' = Stripped(msgs, round) /\ dirty' = FALSE
  \/ Len(msgs) > round.start /\ Fails /\ UNCHANGED transcript /\ dirty' = TRUE

Cancelled ==
  /\ mode = "turn"
  /\ msgs' = Stripped(msgs, round) /\ FlushStripped
  /\ mode' = "over"
  /\ UNCHANGED <<job, files, m, disk, marker, round, edits, history>>

\* The round is over: its mark goes, then the transcript is saved if it grew.
ClearMark ==
  /\ mode \in {"turn", "over"}
  /\ marker' = NoRound /\ mode' = "saving"
  /\ UNCHANGED <<job, msgs, files, m, disk, transcript, round, edits, used, history, dirty>>

SaveRound ==
  IF Len(msgs) <= round.start
  THEN Succeeds /\ UNCHANGED transcript /\ dirty' = (dirty \/ used["folds"] > 0)
  ELSE SaveMessages

EndTurn ==
  /\ mode = "saving" /\ SaveRound
  /\ mode' = "idle" /\ round' = NoRound
  /\ UNCHANGED <<job, msgs, files, m, disk, marker, edits, history>>

\* A synthetic round of the same turn opens no checkpoint.
NextRound ==
  /\ mode = "saving" /\ Len(msgs) < MaxMessages /\ SaveRound
  /\ mode' = "turn" /\ round' = [start |-> Len(msgs), keep |-> FALSE] /\ marker' = round'
  /\ UNCHANGED <<job, msgs, files, m, disk, edits, history>>

\* Compaction, by the loop or by /compact: the model's messages of a stretch
\* become one digest; the prompts and digests in it are kept, and so are the
\* boundaries.
Kept(ms) ==
  LET upTo[i \in 0..Len(ms)] ==
        IF i = 0 THEN <<>> ELSE IF ms[i] >= 0 THEN Append(upTo[i - 1], ms[i]) ELSE upTo[i - 1]
  IN upTo[Len(ms)]
Compact ==
  /\ mode \in {"idle", "turn"} /\ May("folds", MaxFolds)
  /\ \E h \in 0..1, k \in 1..Len(msgs) :
       LET region == SubSeq(msgs, h + 1, k)
           kept == Kept(region)
       IN /\ Len(kept) < Len(region)
          /\ msgs' = Prefix(msgs, h) \o kept \o <<0>> \o SubSeq(msgs, k + 1, Len(msgs))
  /\ exact' = {} /\ dirty' = TRUE
  /\ UNCHANGED <<mode, job, files, m, disk, transcript, marker, round, edits, past, clean, folded>>

(***************************************************************************)
(* Rewind, summarize, fork: between turns, under the rotation gate.        *)
(***************************************************************************)
Touched(cps, t) == UNION {DOMAIN cps[k].snaps : k \in From(cps, t)}
Earliest(cps, t, p) == cps[Min({k \in From(cps, t) : p \in DOMAIN cps[k].snaps})].snaps[p]
Uids(cps, S) == {cps[k].uid : k \in S}

\* The code first: Rewind collects what RestoreCode will write.
Rewind(t, scope) ==
  /\ mode = "idle" /\ May("rewinds", MaxRewinds)
  /\ job' = [turn |-> t, scope |-> scope, failed |-> FALSE,
             todo |-> IF scope = "conversation" THEN {} ELSE Touched(m.cps, t)]
  /\ mode' = "restore"
  /\ clean' = IF scope = "conversation" THEN clean ELSE clean \ Uids(m.cps, From(m.cps, t + 1))
  /\ UNCHANGED <<msgs, files, m, disk, transcript, marker, round, edits, past, exact, folded, dirty>>

\* RestoreCode goes on to the next file after one that failed.
RestoreOne(p) ==
  /\ mode = "restore" /\ p \in job.todo
  /\ \/ Succeeds /\ files' = [files EXCEPT ![p] = Earliest(m.cps, job.turn, p)]
        /\ job' = [job EXCEPT !.todo = @ \ {p}]
     \/ Fails /\ UNCHANGED files /\ job' = [job EXCEPT !.todo = @ \ {p}, !.failed = TRUE]
  /\ UNCHANGED <<mode, msgs, m, disk, transcript, marker, round, edits, history, dirty>>

CanCut == ~job.failed /\ job.scope # "code" /\ job.turn \in DOMAIN m.bound
          /\ m.bound[job.turn] <= Len(msgs)

\* A file failed, only code was asked for, or there is no such boundary.
RewindStops ==
  /\ mode = "restore" /\ job.todo = {} /\ ~CanCut
  /\ mode' = "idle" /\ job' = NoJob
  /\ UNCHANGED <<msgs, files, m, disk, transcript, marker, round, edits, used, history, dirty>>

TruncatedKeepsBounds(mm, t) ==
  [mm EXCEPT !.turn = t, !.cps = Without(@, From(@, t)), !.cur = IF @ >= t THEN NoTurn ELSE @]
Truncated(mm, t) ==
  [turn |-> t, bound |-> Without(mm.bound, From(mm.bound, t)), cps |-> Without(mm.cps, From(mm.cps, t)),
   cur |-> IF mm.cur >= t THEN NoTurn ELSE mm.cur]
RemovalsOfDone(mm, t) == From(mm.cps, t) \ {mm.cur}
Removals(mm, t) == From(mm.cps, t)

Cut ==
  /\ mode = "restore" /\ job.todo = {} /\ CanCut
  /\ msgs' = Prefix(msgs, m.bound[job.turn])
  /\ m' = Truncated(m, job.turn)
  /\ mode' = "remove" /\ job' = [job EXCEPT !.todo = Removals(m, job.turn)]
  /\ clean' = IF job.scope = "both" THEN clean ELSE {}
  /\ exact' = exact \ Uids(m.cps, {t \in DOMAIN m.cps : m.cps[t].index > m.bound[job.turn]})
  /\ UNCHANGED <<files, disk, transcript, marker, round, edits, used, past, folded, dirty>>

RemoveOne(k) ==
  /\ mode = "remove" /\ k \in job.todo
  /\ job' = [job EXCEPT !.todo = @ \ {k}]
  /\ \/ Succeeds /\ disk' = Without(disk, {k}) /\ UNCHANGED <<exact, clean>>
     \/ Fails /\ UNCHANGED disk /\ clean' = {}
        /\ exact' = exact \ Uids(disk, {k} \cap DOMAIN disk)
  /\ UNCHANGED <<mode, msgs, files, m, transcript, marker, round, edits, past, folded, dirty>>

\* SnapshotRewrite, after a rewind or a summary; an error is only logged.
Flush ==
  /\ mode = "remove" /\ job.todo = {} /\ SaveMessages
  /\ mode' = "idle" /\ job' = NoJob
  /\ UNCHANGED <<msgs, files, m, disk, marker, round, edits, history>>

ClearedNot(mm) == mm
Cleared(mm) == [mm EXCEPT !.bound = Empty]

Summarize(t, upTo) ==
  /\ mode = "idle" /\ t \in DOMAIN m.bound /\ May("summaries", MaxSummaries)
  /\ LET b == m.bound[t] IN
     msgs' = IF b > Len(msgs) THEN msgs
             ELSE IF upTo THEN IF b = 0 THEN msgs ELSE <<0>> \o SubSeq(msgs, b + 1, Len(msgs))
             ELSE IF b = Len(msgs) THEN msgs ELSE Append(Prefix(msgs, b), 0)
  /\ m' = Cleared(m) /\ folded' = 1..Len(past)
  /\ mode' = "remove"
  /\ UNCHANGED <<job, files, disk, transcript, marker, round, edits, past, exact, clean, dirty>>

\* A new session with the messages up to the turn, and no checkpoints yet.
Fork(t) ==
  /\ mode = "idle" /\ t \in DOMAIN m.bound /\ May("forks", MaxForks)
  /\ msgs' = Prefix(msgs, IF m.bound[t] > Len(msgs) THEN Len(msgs) ELSE m.bound[t])
  /\ transcript' = msgs' /\ dirty' = FALSE
  /\ m' = Fresh /\ disk' = Empty /\ marker' = NoRound
  /\ UNCHANGED <<mode, job, files, round, edits, history>>

(***************************************************************************)
(* The process dies; the session is opened again.                          *)
(***************************************************************************)
Crash ==
  /\ mode # "down" /\ May("restarts", MaxRestarts)
  /\ mode' = "down" /\ job' = NoJob /\ msgs' = <<>> /\ m' = Fresh /\ round' = NoRound
  /\ clean' = IF used["faults"] > 0 \/ mode = "remove" THEN {} ELSE clean
  /\ exact' = IF dirty THEN {} ELSE exact
  /\ dirty' = FALSE
  /\ UNCHANGED <<files, disk, transcript, marker, edits, past, folded>>

\* rebind: what the directory holds, numbered on from the highest turn.
CountedTurn(cps) == Cardinality(DOMAIN cps)
NextTurn(cps) == IF DOMAIN cps = {} THEN 0 ELSE Max(DOMAIN cps) + 1
Loaded(cps) == [turn |-> NextTurn(cps), bound |-> [t \in DOMAIN cps |-> cps[t].index],
                cps |-> cps, cur |-> NoTurn]

\* Resume, with recoverInterruptedTurn.
Recovered == IF marker = NoRound THEN transcript ELSE Stripped(transcript, marker)

Resume ==
  /\ mode = "down"
  /\ m' = Loaded(disk)
  /\ msgs' = Recovered /\ transcript' = Recovered
  /\ marker' = NoRound /\ mode' = "idle"
  /\ exact' = exact \ folded
  /\ UNCHANGED <<job, files, disk, round, edits, used, past, clean, folded, dirty>>

Next ==
  \/ Begin \/ Say \/ (\E p \in Paths : Edit(p)) \/ Autosave \/ Cancelled \/ ClearMark
  \/ EndTurn \/ NextRound \/ Compact
  \/ \E t \in DOMAIN m.cps : \E s \in {"code", "conversation", "both"} : Rewind(t, s)
  \/ (\E p \in Paths : RestoreOne(p)) \/ RewindStops \/ Cut
  \/ (\E k \in job.todo : RemoveOne(k)) \/ Flush
  \/ (\E t \in DOMAIN m.bound : Fork(t) \/ \E u \in BOOLEAN : Summarize(t, u))
  \/ Crash \/ Resume

Spec == Init /\ [][Next]_vars

(***************************************************************************)
(* Properties.                                                             *)
(***************************************************************************)
Files == [Paths -> 0..MaxEdits]
Messages == -MaxTurns..MaxTurns
Turns == 0..MaxTurns
IsCheckpoints(cps) ==
  /\ DOMAIN cps \subseteq Turns
  /\ \A t \in DOMAIN cps : /\ cps[t].uid \in 1..Len(past) /\ cps[t].index \in 0..MaxMessages
                           /\ DOMAIN cps[t].snaps \subseteq Paths

\* The controller's bookkeeping stays well formed: every boundary has its
\* checkpoint (control/checkpoint.go).
TypeOK ==
  /\ mode \in {"idle", "turn", "over", "saving", "restore", "remove", "down"}
  /\ \A i \in 1..Len(msgs) : msgs[i] \in Messages
  /\ files \in Files /\ IsCheckpoints(m.cps) /\ IsCheckpoints(disk)
  /\ DOMAIN m.bound \subseteq DOMAIN m.cps /\ m.cur \in DOMAIN m.cps \cup {NoTurn}
  /\ exact \subseteq 1..Len(past) /\ clean \subseteq 1..Len(past)

\* A turn never takes the number of a checkpoint that is still there, whatever
\* gaps failed writes, rewinds and restarts have left ("decoupled from the store
\* so it never collides", control/checkpoint.go:19).
NumbersAreFresh == \A t \in DOMAIN m.cps : t < m.turn

\* A boundary on offer is the start of its turn: what Rewind and Fork keep is
\* the transcript the turn started from.  Exempt are turns a compaction moved
\* (the boundaries are left alone), turns a summary moved once the session is
\* opened again, turns whose transcript a failed save lost, and turns beyond the
\* cut of a rewind to a turn that came back because its file was not removed.
BoundariesAreTurnStarts ==
  \A t \in DOMAIN m.bound :
    m.cps[t].uid \in exact => Prefix(msgs, m.bound[t]) = past[m.cps[t].uid].msgs

\* Restoring the code of a turn brings back every file the editing tools
\* changed since, as it was when the turn began - after restarts, earlier code
\* rewinds and code rewinds cut short by a crash or a failing file, too.  Exempt
\* are turns after the target of a code rewind, turns before a rewind of the
\* conversation alone (it drops later snapshots), and all turns when a write has
\* failed before a crash or a crash fell among the removals.
CodeComesBack ==
  \A t \in DOMAIN m.cps :
    m.cps[t].uid \in clean =>
      \A p \in Paths : past[m.cps[t].uid].files[p] =
                         IF p \in Touched(m.cps, t) THEN Earliest(m.cps, t, p) ELSE files[p]

\* While no write fails, the directory holds the checkpoints the store has and
\* no other: a turn that was rewound away cannot return with a restart, not even
\* after a crash among the removals.
DirectoryFollowsTheStore ==
  used["faults"] = 0 /\ mode \notin {"remove", "down"} => disk = m.cps

\* Between turns the session file holds the conversation, after a cancelled
\* round and a rewind too, unless a save failed or a compaction shrank the
\* transcript below the turn's start (snapshotActivityIfChanged then skips it).
IdleIsSaved ==
  mode = "idle" /\ ~dirty /\ used["folds"] = 0 => transcript = msgs

\* The store, its directory and the manager's counter agree on which checkpoints there
\* are (checkpoint.Store, checkpointManager).  The variables have their types.
StoreIsSound ==
  /\ TypeOK
  /\ NumbersAreFresh
  /\ DirectoryFollowsTheStore
=============================================================================
