----------------------------- MODULE SessionSave -----------------------------
(***************************************************************************)
(* Saving sessions (agent/save.go, agent/session_events.go and the         *)
(* snapshot path of control/controller.go): several runtimes of one        *)
(* process hold the same transcript in memory and save it to the same      *)
(* files.  A save is a compare-and-swap against the disk under the save    *)
(* locks of the path; a conflict adopts the disk, forks a recovery branch  *)
(* or, at the depth cap, writes by force.  Writes are separate (event log, *)
(* anchor, revision ledger) and may fail, tear or be cut off by a crash.   *)
(*                                                                         *)
(* A transcript is a sequence of messages; its digest is the transcript.   *)
(* A path is the chain of digests that led to it: <<>> is the original,    *)
(* Append(p, d) the recovery branch that a conflict over p made of d.      *)
(***************************************************************************)
EXTENDS Naturals, Sequences, SequencesExt

CONSTANTS
  Runtimes,      \* controllers of one process
  Saves,         \* calls of Snapshot, SnapshotRewrite, Rewind and Cancel's cleanup
  Idle,          \* nobody: a lock that is free, a runtime without a session
  MaxMessages,   \* bound on the messages made in a behaviour
  MaxFaults,     \* bound on failed writes and crashes
  MaxDepth       \* SessionRecoveryMaxDepth

ASSUME SaveAssumption ==
  /\ Idle \notin Runtimes \cup Saves
  /\ MaxMessages \in Nat /\ MaxFaults \in Nat /\ MaxDepth \in Nat

VARIABLES
  disk,     \* path -> what is stored under it
  mem,      \* runtime -> its agent.Session and the controller's session path
  mu,       \* runtime -> the call that holds snapshotMu
  locked,   \* path -> the call that holds its save locks
  call,     \* call -> where it is and what it captured
  made,     \* messages made so far
  faults,
  acked,    \* history: messages of transcripts whose save succeeded
  cut,      \* history: path -> messages an acknowledged rewrite removed
  removed,  \* history: messages removed by a save that may remove some
  wrote     \* history: path -> runtimes whose bytes reached it; Idle for what a second fork found

saveVars == <<disk, mem, mu, locked, call, made, faults, acked, cut, removed, wrote>>

(***************************************************************************)
(* Messages and transcripts.  A tool call is answered by its result; a     *)
(* transcript that ends in a call is repaired on load with a placeholder.  *)
(***************************************************************************)
MessageKinds == {"say", "call", "result", "stub"}
Message == MessageKinds \X Nat
Transcript == Seq(Message)
Path == Seq(Transcript)

MessagesOf(t) == {t[i] : i \in DOMAIN t}
EndsInCall(t) == t # <<>> /\ Last(t)[1] = "call"
Boundaries(t) == {k \in 1..(Len(t) - 1) : ~EndsInCall(SubSeq(t, 1, k))}
Normalize(t) == IF EndsInCall(t) THEN Append(t, <<"stub", Last(t)[2]>>) ELSE t

(* An absent file is an empty sequence; a log whose first record tore is   *)
(* foreign to the probe and never written again.                           *)
NoFile == [log |-> <<>>, foreign |-> FALSE, torn |-> FALSE, anchor |-> <<>>,
           rev |-> 0, digest |-> <<>>, depth |-> 0]
File(p) == IF p \in DOMAIN disk THEN disk[p] ELSE NoFile
Stored(f) == IF f.log # <<>> THEN f.log ELSE f.anchor
RepairedNever(f) == f
Repaired(f) == [f EXCEPT !.torn = FALSE]

Holder(f, p) == IF p \in DOMAIN f THEN f[p] ELSE Idle
Put(f, p, v) == [q \in DOMAIN f \cup {p} |-> IF q = p THEN v ELSE f[q]]
OnlyOriginal(v) == [p \in {<<>>} |-> v]
SetOf(f, p) == IF p \in DOMAIN f THEN f[p] ELSE {}

NoBase == [path |-> <<>>, ok |-> FALSE, msgs |-> <<>>, rev |-> 0]
Base(p, t, n) == [path |-> p, ok |-> TRUE, msgs |-> t, rev |-> n]
Down == [up |-> FALSE, msgs |-> <<>>, rw |-> 0, saved |-> 0, base |-> NoBase, path |-> <<>>]
NewCall == [pc |-> "new", on |-> Idle, op |-> "snapshot", mode |-> "snapshot",
            path |-> <<>>, cap |-> <<>>, rw |-> 0, rev |-> 0, shape |-> "append", was |-> <<>>,
            kind |-> "diverged", depth |-> 0, end |-> "none"]

Loaded(p) == LET t == Normalize(Stored(File(p)))
             IN  [up |-> TRUE, msgs |-> t, rw |-> 0, saved |-> 0,
                  base |-> Base(p, t, File(p).rev), path |-> p]

(* The session is an old checkpoint without log and ledger, or a recovery  *)
(* branch at the depth cap.                                                *)
Opening == <<<<"say", 0>>>>
LegacyFile == [NoFile EXCEPT !.anchor = Opening]
BranchFile == [NoFile EXCEPT !.anchor = Opening, !.log = Opening, !.rev = 1, !.digest = Opening,
                             !.depth = MaxDepth]

SaveInit ==
  /\ \E first \in {LegacyFile, BranchFile} : disk = OnlyOriginal(first)
  /\ mem = [r \in Runtimes |-> Down]
  /\ mu = [r \in Runtimes |-> Idle]
  /\ locked = OnlyOriginal(Idle)
  /\ call = [c \in Saves |-> NewCall]
  /\ made = 0 /\ faults = 0
  /\ acked = {<<"say", 0>>}
  /\ cut = OnlyOriginal({})
  /\ removed = {}
  /\ wrote = OnlyOriginal({})

(***************************************************************************)
(* What happens in memory.                                                 *)
(***************************************************************************)
Active(r, ops) == \E c \in Saves : /\ call[c].on = r /\ call[c].op \in ops
                                    /\ call[c].pc \notin {"new", "done"}

(* Resume of a saved session by a runtime that has none.                   *)
Resume(r, p) ==
  /\ ~mem[r].up /\ mu[r] = Idle /\ Holder(locked, p) = Idle
  /\ Stored(File(p)) # <<>>
  /\ mem' = [mem EXCEPT ![r] = Loaded(p)]
  /\ UNCHANGED <<disk, mu, locked, call, made, faults, acked, cut, removed, wrote>>

Extends(r, msgs, rewrites) ==
  /\ mem[r].up /\ ~Active(r, {"rewind", "strip"})
  /\ mem' = [mem EXCEPT ![r].msgs = msgs, ![r].rw = @ + rewrites]
  /\ UNCHANGED <<disk, mu, locked, call, faults, acked, cut, removed, wrote>>

(* A running turn adds a message; a call is followed by its result.        *)
Add(r) ==
  IF EndsInCall(mem[r].msgs)
  THEN /\ Extends(r, Append(mem[r].msgs, <<"result", Last(mem[r].msgs)[2]>>), 0)
       /\ UNCHANGED made
  ELSE /\ made < MaxMessages /\ made' = made + 1
       /\ \E k \in {"say", "call"} : Extends(r, Append(mem[r].msgs, <<k, made'>>), 0)

(* Compaction folds the log but its last message into a summary.           *)
Compact(r) ==
  /\ made < MaxMessages /\ made' = made + 1
  /\ Len(mem[r].msgs) > 1 /\ ~EndsInCall(mem[r].msgs)
  /\ Extends(r, <<<<"say", made'>>, Last(mem[r].msgs)>>, 1)

(***************************************************************************)
(* The controller: one save or recovery at a time per runtime.             *)
(***************************************************************************)
Ended(k, how) == [NewCall EXCEPT !.pc = "done", !.mode = k.mode, !.end = how]
MoveTo(c, pc) == call' = [call EXCEPT ![c].pc = pc]

Begins(c, r, op, kept) ==
  /\ call[c].pc = "new" /\ mem[r].up
  /\ call' = [call EXCEPT ![c] = [@ EXCEPT !.pc = "enter", !.on = r, !.op = op, !.cap = kept]]
  /\ UNCHANGED <<disk, mu, locked, made, faults, acked, cut, removed, wrote>>

Snapshot(c, r) == Begins(c, r, "snapshot", <<>>) /\ UNCHANGED mem

(* Rewind truncates in memory before its SnapshotRewrite takes snapshotMu. *)
Rewind(c, r) ==
  /\ ~Active(r, {"rewind", "strip"})
  /\ \E k \in Boundaries(mem[r].msgs) : mem' = [mem EXCEPT ![r].msgs = SubSeq(@, 1, k)]
  /\ Begins(c, r, "rewind", <<>>)

(* The cleanup after a cancel picks the messages to keep, waits for        *)
(* snapshotMu and puts them in place of what is in memory then.            *)
Cleanup(c, r) ==
  /\ ~Active(r, {"rewind", "strip"})
  /\ \E k \in Boundaries(mem[r].msgs) : Begins(c, r, "strip", SubSeq(mem[r].msgs, 1, k))
  /\ UNCHANGED mem

Replaced(c) == [mem EXCEPT ![call[c].on].msgs = call[c].cap]

Enter(c) ==
  LET r == call[c].on IN
  /\ call[c].pc = "enter" /\ mu[r] = Idle
  /\ mu' = [mu EXCEPT ![r] = c]
  /\ call' = [call EXCEPT ![c] = [@ EXCEPT !.pc = "lock", !.path = mem[r].path,
                !.mode = IF call[c].op # "snapshot" \/ mem[r].rw > mem[r].saved
                         THEN "rewrite" ELSE "snapshot"]]
  /\ mem' = IF call[c].op = "strip" THEN Replaced(c) ELSE mem
  /\ UNCHANGED <<disk, locked, made, faults, acked, cut, removed, wrote>>

(***************************************************************************)
(* checkSnapshotWrite, over the transcript as loaded (existing) and as     *)
(* stored before the load-time repair (raw).                               *)
(***************************************************************************)
View(f, next) == IF IsPrefix(Normalize(Stored(f)), next) THEN Normalize(Stored(f)) ELSE Stored(f)
AppendShaped(f, next) == IsPrefix(View(f, next), next)
RepairPending(f, next) == View(f, next) # Stored(f)

(* The baseline of this session for the path, and whether an append would  *)
(* bring back what another runtime cut.                                    *)
BaseFor(r, p) == mem[r].base.ok /\ mem[r].base.path = p
CoversBaseline(view, next, base) == IsPrefix(base.msgs, next) /\ Len(view) >= Len(base.msgs)
ResurrectsNever(r, p, next) == FALSE
Resurrects(r, p, next) ==
  LET f == File(p)  v == View(f, next) IN
  /\ BaseFor(r, p) /\ f.rev # mem[r].base.rev /\ v # next
  /\ ~CoversBaseline(v, next, mem[r].base)

Owns(r, p) ==
  LET f == File(p)  b == mem[r].base IN
  /\ BaseFor(r, p)
  /\ \E t \in {Normalize(Stored(f)), Stored(f)} :
       b.msgs = t /\ (f.rev = 0 \/ f.rev = b.rev \/ f.digest = t)

Fresh(p) == Stored(File(p)) = <<>>
MayAppend(r, p, next) == AppendShaped(File(p), next) /\ ~Resurrects(r, p, next)
MayRewrite(r, p, next, mode) == mode = "rewrite" /\ ~AppendShaped(File(p), next) /\ Owns(r, p)
UpToDate(p, next) == ~Fresh(p) /\ View(File(p), next) = next /\ ~RepairPending(File(p), next)
Allowed(c) == LET r == call[c].on  p == call[c].path  next == mem[r].msgs IN
              Fresh(p) \/ MayAppend(r, p, next) \/ MayRewrite(r, p, next, call[c].mode)
Covered(p, next) == \E t \in {Normalize(Stored(File(p))), Stored(File(p))} : IsPrefix(next, t)

ReleaseLocks(c) == locked' = [p \in DOMAIN locked |-> IF locked[p] = c THEN Idle ELSE locked[p]]
Leave(c, how) == /\ mu' = [mu EXCEPT ![call[c].on] = Idle]
                 /\ call' = [call EXCEPT ![c] = Ended(@, how)]

(* A save that succeeded moves this session's baseline; what it saved is   *)
(* what the user may now rely on.                                          *)
MarkPersisted(r, p, t, n, rw) ==
  /\ mem' = [mem EXCEPT ![r].base = Base(p, t, n), ![r].path = p,
                        ![r].saved = IF rw > @ THEN rw ELSE @]
  /\ acked' = acked \cup MessagesOf(t)

(***************************************************************************)
(* The save takes the locks, captures the transcript, drops a torn tail    *)
(* and decides.                                                            *)
(***************************************************************************)
Locks(c) == /\ call[c].pc = "lock" /\ Holder(locked, call[c].path) = Idle
            /\ disk' = Put(disk, call[c].path, Repaired(File(call[c].path)))

Captures(c, p, shape) ==
  LET r == call[c].on IN
  /\ locked' = Put(locked, p, c)
  /\ call' = [call EXCEPT ![c] = [@ EXCEPT !.pc = IF shape = "heal" THEN "record" ELSE "log",
                !.cap = mem[r].msgs, !.rw = mem[r].rw, !.rev = File(p).rev, !.shape = shape,
                !.was = Stored(File(p))]]

SaveWrites(c) ==
  LET p == call[c].path  f == File(p)  next == mem[call[c].on].msgs IN
  /\ Locks(c) /\ Allowed(c)
  /\ \/ UpToDate(p, next) /\ f.digest \notin {<<>>, next} /\ Captures(c, p, "heal")
     \/ /\ ~UpToDate(p, next)
        /\ IF ~Fresh(p) /\ AppendShaped(f, next) /\ ~RepairPending(f, next) /\ ~f.foreign
           THEN \E s \in {"append", "compact"} : Captures(c, p, s)
           ELSE Captures(c, p, "replace")
  /\ UNCHANGED <<mem, mu, made, faults, acked, cut, removed, wrote>>

SaveIsUpToDate(c) ==
  LET r == call[c].on  p == call[c].path  next == mem[r].msgs IN
  /\ Locks(c) /\ Allowed(c) /\ UpToDate(p, next) /\ File(p).digest \in {<<>>, next}
  /\ MarkPersisted(r, p, next, File(p).rev, mem[r].rw)
  /\ Leave(c, "saved")
  /\ UNCHANGED <<locked, made, faults, cut, removed, wrote>>

SaveConflicts(c) ==
  LET p == call[c].path  next == mem[call[c].on].msgs IN
  /\ Locks(c) /\ ~Allowed(c)
  /\ call' = [call EXCEPT ![c] = [@ EXCEPT !.pc = "conflict", !.cap = next,
                !.kind = IF Covered(p, next) THEN "stale" ELSE "diverged"]]
  /\ UNCHANGED <<mem, mu, locked, made, faults, acked, cut, removed, wrote>>

(***************************************************************************)
(* The writes of a save, in the order of the code: event log, anchor,      *)
(* revision ledger.  A record appended behind a torn one is never read.    *)
(***************************************************************************)
Skips(c) == LET f == File(call[c].path) IN
            f.foreign \/ (call[c].shape = "force" /\ f.log = <<>>)
Atomic(c) == call[c].shape \in {"compact", "force"}
Logged(c) == LET f == File(call[c].path) IN
             IF Skips(c) \/ (f.torn /\ ~Atomic(c)) THEN f
             ELSE [f EXCEPT !.log = call[c].cap, !.torn = FALSE]
Real(ms) == {m \in ms : m[1] # "stub"}
Gone(c) == Real(MessagesOf(call[c].was) \ MessagesOf(call[c].cap))
IsRewrite(c) == call[c].shape = "replace" /\ call[c].mode = "rewrite"
(* Two saves compare nothing: the forced one, and a second fork under the  *)
(* name of a branch that another runtime has gone on from.                 *)
Refork(c) == call[c].shape = "fork" /\ call[c].was \notin {<<>>, call[c].cap}
Overwrites(c) == call[c].shape = "force" \/ Refork(c)
Wrote(c) == /\ wrote' = Put(wrote, call[c].path, SetOf(wrote, call[c].path) \cup {call[c].on})
            /\ removed' = removed \cup (IF IsRewrite(c) \/ Overwrites(c) THEN Gone(c) ELSE {})

(* These, and the cleanup after a cancel that puts back what it had picked *)
(* before this runtime adopted the file, may bring back what was cut.      *)
BringsBack(c) == Overwrites(c) \/ call[c].op = "strip"

WriteLog(c) ==
  /\ call[c].pc = "log"
  /\ disk' = Put(disk, call[c].path, Logged(c))
  /\ MoveTo(c, IF call[c].shape = "append" THEN "record" ELSE "anchor")
  /\ Wrote(c)
  /\ cut' = IF BringsBack(c)
            THEN Put(cut, call[c].path, SetOf(cut, call[c].path) \ MessagesOf(call[c].cap)) ELSE cut
  /\ UNCHANGED <<mem, mu, locked, made, faults, acked>>

WriteAnchor(c) ==
  /\ call[c].pc = "anchor"
  /\ disk' = Put(disk, call[c].path, [File(call[c].path) EXCEPT !.anchor = call[c].cap])
  /\ MoveTo(c, "record")
  /\ Wrote(c)
  /\ UNCHANGED <<mem, mu, locked, made, faults, acked, cut>>

RecordedDeeper(c) == [File(call[c].path) EXCEPT !.rev = @ + 1, !.digest = call[c].cap,
                                               !.depth = call[c].depth + MaxDepth]
(* A recovery branch's ledger keeps a higher revision it finds.            *)
Recorded(c) ==
  LET f == File(call[c].path) IN
  IF call[c].shape = "fork"
  THEN [f EXCEPT !.rev = IF @ > 1 THEN @ ELSE 1, !.digest = IF f.rev > 1 THEN @ ELSE call[c].cap,
                 !.depth = call[c].depth]
  ELSE [f EXCEPT !.rev = (IF @ < call[c].rev THEN call[c].rev ELSE @) + 1, !.digest = call[c].cap]

Record(c) ==
  LET p == call[c].path IN
  /\ call[c].pc = "record"
  /\ disk' = Put(disk, p, Recorded(c))
  /\ MarkPersisted(call[c].on, p, call[c].cap, Recorded(c).rev, call[c].rw)
  /\ cut' = Put(cut, p, SetOf(cut, p) \cup (IF IsRewrite(c) THEN Gone(c) ELSE {}))
  /\ ReleaseLocks(c) /\ Leave(c, IF call[c].shape = "fork" THEN "forked" ELSE "saved")
  /\ UNCHANGED <<made, faults, removed, wrote>>

(***************************************************************************)
(* The controller's answers to a conflict.                                 *)
(***************************************************************************)
NeedsRewriteNever(r) == FALSE
NeedsRewrite(r) == mem[r].rw > mem[r].saved

(* A compaction since the decision: once more, as an owned rewrite.        *)
Retry(c) ==
  /\ call[c].pc = "conflict" /\ call[c].mode = "snapshot" /\ NeedsRewrite(call[c].on)
  /\ call' = [call EXCEPT ![c] = [@ EXCEPT !.pc = "lock", !.mode = "rewrite"]]
  /\ UNCHANGED <<disk, mem, mu, locked, made, faults, acked, cut, removed, wrote>>

GivesUp(c) == call[c].pc = "conflict" /\ ~(call[c].mode = "snapshot" /\ NeedsRewrite(call[c].on))

Adopt(c) ==
  LET p == call[c].path IN
  /\ call[c].pc = "adopt" \/ (GivesUp(c) /\ call[c].kind = "stale")
  /\ Holder(locked, p) = Idle
  /\ mem' = [mem EXCEPT ![call[c].on] = Loaded(p)]
  /\ Leave(c, "adopted")
  /\ UNCHANGED <<disk, locked, made, faults, acked, cut, removed, wrote>>

(* SaveRecoveryBranch captures again and looks at the original under its   *)
(* locks, which it gives up before it takes those of the branch.           *)
Recover(c) ==
  LET p == call[c].path  r == call[c].on IN
  /\ GivesUp(c) /\ call[c].kind = "diverged" /\ Holder(locked, p) = Idle
  /\ call' = [call EXCEPT ![c] = [@ EXCEPT
                !.pc = IF Covered(p, mem[r].msgs) THEN "adopt"
                       ELSE IF File(p).depth >= MaxDepth THEN "force" ELSE "fork",
                !.cap = mem[r].msgs, !.rw = mem[r].rw, !.depth = File(p).depth + 1]]
  /\ UNCHANGED <<disk, mem, mu, locked, made, faults, acked, cut, removed, wrote>>

ForceSave(c) ==
  /\ call[c].pc = "force" /\ Holder(locked, call[c].path) = Idle
  /\ Captures(c, call[c].path, "force")
  /\ disk' = Put(disk, call[c].path, Repaired(File(call[c].path)))
  /\ UNCHANGED <<mem, mu, made, faults, acked, cut, removed, wrote>>

\* A second fork finds what somebody, perhaps of an earlier process, left there.
Found(cap, stored) == IF stored \in {<<>>, cap} THEN {} ELSE {Idle}
Fork(c) ==
  LET q == Append(call[c].path, call[c].cap) IN
  /\ call[c].pc = "fork" /\ Holder(locked, q) = Idle
  /\ locked' = Put(locked, q, c)
  /\ call' = [call EXCEPT ![c] = [@ EXCEPT !.path = q, !.shape = "fork", !.was = Stored(File(q)),
                !.pc = IF Normalize(Stored(File(q))) = call[c].cap THEN "record" ELSE "log"]]
  /\ wrote' = Put(wrote, q, SetOf(wrote, q) \cup Found(call[c].cap, Stored(File(q))))
  /\ UNCHANGED <<disk, mem, mu, made, faults, acked, cut, removed>>

(***************************************************************************)
(* Faults.  A write fails and the save with it; an append may leave a torn *)
(* record.  A crash takes the process: all its memory and locks.           *)
(***************************************************************************)
Fault == faults < MaxFaults /\ faults' = faults + 1

WriteFails(c) ==
  LET p == call[c].path  f == File(p) IN
  /\ call[c].pc \in {"log", "anchor", "record"} /\ Fault
  /\ \/ disk' = disk
     \/ /\ call[c].pc = "log" /\ ~Atomic(c) /\ ~Skips(c)
        /\ disk' = Put(disk, p, IF f.log = <<>> THEN [f EXCEPT !.foreign = TRUE]
                                ELSE [f EXCEPT !.torn = TRUE])
  /\ ReleaseLocks(c) /\ Leave(c, "failed")
  /\ UNCHANGED <<mem, made, acked, cut, removed, wrote>>

ProcessDies ==
  /\ Fault
  /\ \E r \in Runtimes : mem[r].up
  /\ mem' = [r \in Runtimes |-> Down]
  /\ mu' = [r \in Runtimes |-> Idle]
  /\ locked' = [p \in DOMAIN locked |-> Idle]
  /\ call' = [c \in Saves |-> IF call[c].pc \in {"new", "done"} THEN call[c]
                              ELSE Ended(call[c], "crashed")]
  /\ UNCHANGED <<disk, made, acked, cut, removed, wrote>>

SaveNext ==
  \/ \E r \in Runtimes : Add(r) \/ Compact(r)
  \/ \E r \in Runtimes : \E p \in DOMAIN disk : Resume(r, p)
  \/ \E c \in Saves, r \in Runtimes : Snapshot(c, r) \/ Rewind(c, r) \/ Cleanup(c, r)
  \/ \E c \in Saves : \/ Enter(c) \/ SaveWrites(c) \/ SaveIsUpToDate(c) \/ SaveConflicts(c)
                      \/ WriteLog(c) \/ WriteAnchor(c) \/ Record(c)
                      \/ Retry(c) \/ Adopt(c) \/ Recover(c) \/ ForceSave(c) \/ Fork(c)
                      \/ WriteFails(c)
  \/ ProcessDies

SaveSpec == SaveInit /\ [][SaveNext]_saveVars

(***************************************************************************)
(* Properties.                                                             *)
(***************************************************************************)
SavesTypeOK ==
  /\ \A p \in DOMAIN disk : /\ disk[p].rev \in Nat /\ disk[p].depth \in 0..MaxDepth
                            /\ disk[p].foreign => disk[p].log = <<>>
  /\ \A r \in Runtimes : mem[r].up => mem[r].saved <= mem[r].rw /\ mem[r].msgs # <<>>
  /\ mu \in [Runtimes -> Saves \cup {Idle}]

(* What an acknowledged rewind or compaction of one runtime removed from a *)
(* file, no later save of another brings back, but for one that compares   *)
(* nothing and a late cleanup (unless a save failed on the way, see the    *)
(* README).                                                                *)
CutStaysCut ==
  (\A c \in Saves : call[c].end # "failed")
    => \A p \in DOMAIN cut : MessagesOf(Stored(File(p))) \cap cut[p] = {}

(* A message whose save succeeded is in some file for good, or a rewrite   *)
(* by the owner of that file removed it, or a save that compares nothing:  *)
(* no conflict, crash, failed or torn write and no new branch loses it.    *)
OnDisk == UNION {MessagesOf(Stored(disk[p])) : p \in DOMAIN disk}
NothingSavedIsLost == Real(acked) \subseteq OnDisk \cup removed

(* A runtime that alone wrote a file never finds itself in conflict with   *)
(* it, however its own writes failed or were cut off; but for a branch     *)
(* that a second fork found there, behind whose torn record it may write   *)
(* what no load reads.                                                     *)
RewriteFailed == \E c \in Saves : call[c].mode = "rewrite" /\ call[c].end = "failed"
NoConflictWithOneself ==
  \A c \in Saves :
    /\ GivesUp(c) /\ ~Active(call[c].on, {"rewind"})
    /\ (faults = 0) \/ (call[c].mode = "snapshot" /\ ~RewriteFailed)
    => SetOf(wrote, call[c].path) \ {call[c].on} # {}

(* A save that reports success left exactly its transcript to be loaded,   *)
(* and a ledger that agrees with it; a second fork may have appended it    *)
(* behind a torn record.                                                   *)
SuccessIsOnDisk ==
  [][\A c \in Saves : call[c].pc # "done" /\ call'[c].end \in {"saved", "forked"} /\ ~Refork(c)
       => LET b == mem'[call[c].on].base  f == disk'[b.path] IN
          /\ Stored(f) = b.msgs /\ f.rev = b.rev
          /\ call'[c].end = "saved" => f.digest \in {<<>>, b.msgs}]_saveVars

\* A conflict is always with somebody else's bytes, and the files and runtimes are well
\* formed when it is looked for (checkSnapshotWrite).
NobodyFightsItself ==
  /\ SavesTypeOK
  /\ NoConflictWithOneself
=============================================================================
