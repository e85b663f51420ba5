-------------------------------- MODULE Jobs --------------------------------
(***************************************************************************)
(* The background-job table of a session (internal/jobs): bash and task    *)
(* jobs that outlive the turn that started them.  A job's goroutine runs   *)
(* the work, settles its outcome, queues the completion note, publishes    *)
(* the status and closes done, each in a critical section of its own;      *)
(* kill, session destruction, adoption, the stall monitor and Close come   *)
(* in between.  The manager's mutex and a job's mutex are never held over  *)
(* two of the actions below.                                               *)
(*                                                                         *)
(* Output, artifacts, tombstones and notices are left out: no step below   *)
(* depends on them.  Readers (Output, Wait, Running, HasUnfinished) change *)
(* nothing here; Wait returns when done is closed, which is pc "exited".   *)
(***************************************************************************)
CONSTANTS
    Jobs,       \* the jobs that may be started
    Sessions,   \* the sessions with a transcript path
    Unscoped,   \* the empty session id: no path is bound yet
    Origins,    \* for each job, the sessions it may be started in
    Idle        \* the jobs without output for longer than the stall warning

ASSUME JobsAssumption ==
    /\ Unscoped \notin Sessions
    /\ Origins \in [Jobs -> SUBSET (Sessions \cup {Unscoped})]
    /\ Idle \subseteq Jobs

VARIABLES
    pc,           \* how far the job's goroutine got
    status,       \* Job.status, what every reader sees
    outcome,      \* the status the goroutine settled on
    birth,        \* the session the goroutine captured when it started
    owner,        \* Job.SessionID, the session that owns the job now
    table,        \* the jobs in Manager.jobs
    cancelling,   \* jobs flipped to Killed whose cancel() is yet to be called
    cancelled,    \* jobs whose own context is cancelled
    monitor,      \* the stall monitor of each job
    completed,    \* Manager.completed: the notes awaiting a drain
    told,         \* history: the jobs whose completion a drain returned
    destroying,   \* Manager.destroying
    targets,      \* the jobs each destruction waits for
    destroyed,    \* the sessions whose destruction began; no frontend returns to one
    adopting,     \* the session a path is being bound to, between two lock holds
    bound,        \* the keys of Manager.artifactDirs
    closed        \* the root context is cancelled

jobVars == <<pc, status, outcome, birth, owner, table>>
killVars == <<cancelling, cancelled>>
noteVars == <<monitor, completed, told>>
destroyVars == <<destroying, targets, destroyed>>
bindVars == <<adopting, bound>>
vars == <<jobVars, killVars, noteVars, destroyVars, bindVars, closed>>

Unset == "none"
Owners == Sessions \cup {Unscoped}

Init ==
    /\ pc = [j \in Jobs |-> "new"]
    /\ status = [j \in Jobs |-> Unset]
    /\ outcome = [j \in Jobs |-> Unset]
    /\ birth = [j \in Jobs |-> Unscoped]
    /\ owner = [j \in Jobs |-> Unscoped]
    /\ table = {}
    /\ cancelling = {} /\ cancelled = {}
    /\ monitor = [j \in Jobs |-> "watching"]
    /\ completed = {} /\ told = {}
    /\ destroying = {} /\ destroyed = {}
    /\ targets = [s \in Sessions |-> {}]
    /\ adopting = Unscoped /\ bound = {}
    /\ closed = FALSE

-----------------------------------------------------------------------------
Goto(j, from, to) == pc[j] = from /\ pc' = [pc EXCEPT ![j] = to]

\* A job's context is done when it was cancelled or the manager's root was.
ContextDone(j) == j \in cancelled \/ closed

\* sessionMatches: the unscoped caller sees every session's jobs.
Matches(caller, s) == caller = Unscoped \/ caller = s

Note(j, s, what) == [job |-> j, session |-> s, what |-> what]

(* The job's goroutine *)

\* StartForSession: the job enters the table under mu, running to every reader, and its
\* goroutine starts.  No job starts in a session that is or was destroyed: its path is
\* not used again.
Start(j, s) ==
    /\ Goto(j, "new", "running")
    /\ s \notin destroyed
    /\ status' = [status EXCEPT ![j] = "running"]
    /\ birth' = [birth EXCEPT ![j] = s]
    /\ owner' = [owner EXCEPT ![j] = s]
    /\ table' = table \cup {j}
    /\ UNCHANGED <<outcome, killVars, noteVars, destroyVars, bindVars, closed>>

\* run returns, of itself or because its context is done.
Return(j) ==
    /\ Goto(j, "running", "returned")
    /\ UNCHANGED <<status, outcome, birth, owner, table, killVars, noteVars, destroyVars,
                   bindVars, closed>>

\* A cancelled context wins over the error, and the error over the result.
Settle(j) ==
    /\ Goto(j, "returned", "settled")
    /\ \E st \in IF ContextDone(j) THEN {"killed"} ELSE {"failed", "done"} :
        outcome' = [outcome EXCEPT ![j] = st]
    /\ UNCHANGED <<status, birth, owner, table, killVars, noteVars, destroyVars, bindVars,
                   closed>>

\* Mutant: the destroy window is not looked at.
QueuedAlways(j, what) == completed \cup {Note(j, birth[j], what)}

\* The queue after a note of job j: a session in its destroy window gets none.  The
\* session is the one captured at the start, whoever owns the job by now.
Queued(j, what) ==
    IF birth[j] \in destroying THEN completed ELSE completed \cup {Note(j, birth[j], what)}

\* recordCompletion, under mu.
Record(j) ==
    /\ Goto(j, "settled", "recorded")
    /\ completed' = Queued(j, "end")
    /\ UNCHANGED <<status, outcome, birth, owner, table, killVars, monitor, told, destroyVars,
                   bindVars, closed>>

\* Mutant: the outcome is not carried over.
PublishedNothing(j) == IF status[j] = "killed" THEN "killed" ELSE Unset

\* Mutant: the status is published whatever a kill has published.
PublishedAnyway(j) == outcome[j]

\* What the goroutine publishes: a kill that came first is kept.
Published(j) == IF status[j] = "killed" THEN "killed" ELSE outcome[j]

Publish(j) ==
    /\ Goto(j, "recorded", "published")
    /\ status' = [status EXCEPT ![j] = Published(j)]
    /\ UNCHANGED <<outcome, birth, owner, table, killVars, noteVars, destroyVars, bindVars,
                   closed>>

\* close(done)
Exit(j) ==
    /\ Goto(j, "published", "exited")
    /\ UNCHANGED <<status, outcome, birth, owner, table, killVars, noteVars, destroyVars,
                   bindVars, closed>>

-----------------------------------------------------------------------------
(* The stall monitor: one warning per job, decided and queued apart *)

\* The timer fires and finds the job idle: under the job's mutex it runs, and to every
\* reader too.  A timer that finds it over, or done closed, ends the monitor.
Flag(j) ==
    /\ j \in Idle
    /\ monitor[j] = "watching"
    /\ pc[j] = "running" /\ status[j] = "running"
    /\ monitor' = [monitor EXCEPT ![j] = "flagged"]
    /\ UNCHANGED <<jobVars, killVars, completed, told, destroyVars, bindVars, closed>>

\* recordStalled
Warn(j) ==
    /\ monitor[j] = "flagged"
    /\ completed' = Queued(j, "stalled")
    /\ monitor' = [monitor EXCEPT ![j] = "over"]
    /\ UNCHANGED <<jobVars, killVars, told, destroyVars, bindVars, closed>>

-----------------------------------------------------------------------------
(* kill_shell *)

\* Mutant: the kill is published and the context never cancelled.
CancelNobody(K) == cancelling

\* The cancel functions the caller will call once the locks are released.
ToCancel(K) == cancelling \cup K

\* KillForSession: a running job is killed to every reader at once.
Kill(j, caller) ==
    /\ j \in table /\ Matches(caller, owner[j])
    /\ status[j] = "running"
    /\ status' = [status EXCEPT ![j] = "killed"]
    /\ cancelling' = ToCancel({j})
    /\ UNCHANGED <<pc, outcome, birth, owner, table, cancelled, noteVars, destroyVars,
                   bindVars, closed>>

\* The caller of Kill or BeginDestroySession calls cancel() after the unlock.
Cancel(j) ==
    /\ j \in cancelling
    /\ cancelling' = cancelling \ {j}
    /\ cancelled' = cancelled \cup {j}
    /\ UNCHANGED <<jobVars, noteVars, destroyVars, bindVars, closed>>

-----------------------------------------------------------------------------
(* The notes *)

\* The notes a drain returns.
Taken(caller) == {n \in completed : Matches(caller, n.session)}

\* Mutant: a drain returns its session's notes and empties the queue.
KeptNothing(caller) == {}

\* The notes a drain leaves queued.
Kept(caller) == completed \ Taken(caller)

\* DrainCompletedNoteForSession, when the next turn of a session is composed.
Drain(s) ==
    /\ Taken(s) # {}
    /\ completed' = Kept(s)
    /\ told' = told \cup {n.job : n \in {m \in Taken(s) : m.what = "end"}}
    /\ UNCHANGED <<jobVars, killVars, monitor, destroyVars, bindVars, closed>>

-----------------------------------------------------------------------------
(* A session gets its path: SetActiveSessionPath *)

\* Under mu; jobs started before any path was bound are to be adopted.  A frontend
\* binds one session at a time, and none it destroyed.
Bind(s) ==
    /\ adopting = Unscoped
    /\ s \notin bound \cup destroyed
    /\ bound' = bound \cup {s}
    /\ adopting' = IF \E j \in table : owner[j] = Unscoped THEN s ELSE Unscoped
    /\ UNCHANGED <<jobVars, killVars, noteVars, destroyVars, closed>>

\* After the files have been moved, under mu again: the jobs and the queued notes
\* without a session get the new one.
Adopt ==
    /\ adopting # Unscoped
    /\ owner' = [j \in Jobs |-> IF j \in table /\ owner[j] = Unscoped THEN adopting
                                                                      ELSE owner[j]]
    /\ completed' = {[n EXCEPT !.session = IF @ = Unscoped THEN adopting ELSE @] :
                        n \in completed}
    /\ adopting' = Unscoped
    /\ UNCHANGED <<pc, status, outcome, birth, table, killVars, monitor, told, destroyVars,
                   bound, closed>>

-----------------------------------------------------------------------------
(* A session is destroyed, the manager closed *)

OwnedBy(s) == {j \in table : owner[j] = s}

\* The queue once the notes of a destroyed session are dropped.
Swept(s) == {n \in completed : n.session # s}

\* Mutant: a job that a kill has flipped is taken for gone.
AwaitedRunning(s) == {j \in OwnedBy(s) : status[j] = "running"}

\* The jobs a destruction waits for: a killed job may still be unwinding.
Awaited(s) == {j \in OwnedBy(s) : status[j] \in {"running", "killed"}}

\* BeginDestroySession, under mu.  No path is being bound to the session.
BeginDestroy(s) ==
    /\ s \notin destroyed /\ adopting # s
    /\ destroying' = destroying \cup {s}
    /\ destroyed' = destroyed \cup {s}
    /\ completed' = Swept(s)
    /\ targets' = [targets EXCEPT ![s] = Awaited(s)]
    /\ LET running == {j \in OwnedBy(s) : status[j] = "running"}
       IN  /\ status' = [j \in Jobs |-> IF j \in running THEN "killed" ELSE status[j]]
           /\ cancelling' = ToCancel(running)
    /\ UNCHANGED <<pc, outcome, birth, owner, table, cancelled, monitor, told, bindVars,
                   closed>>

\* WaitTeardown, or WaitAll after it timed out, has returned and the files are gone:
\* FinishDestroySession, under mu, ends the window and purges the session's jobs.
FinishDestroy(s) ==
    /\ s \in destroying
    /\ \A j \in targets[s] : pc[j] = "exited"
    /\ destroying' = destroying \ {s}
    /\ targets' = [targets EXCEPT ![s] = {}]
    /\ bound' = bound \ {s}
    /\ table' = table \ OwnedBy(s)
    /\ UNCHANGED <<pc, status, outcome, birth, owner, killVars, noteVars, destroyed, adopting,
                   closed>>

\* Close and CloseAsync cancel the root context ...
Close ==
    /\ ~closed
    /\ closed' = TRUE
    /\ UNCHANGED <<jobVars, killVars, noteVars, destroyVars, bindVars>>

\* ... and Close flips what still runs before it waits: closeTargets.
CloseTargets ==
    /\ closed
    /\ \E j \in table : status[j] = "running"
    /\ status' = [j \in Jobs |-> IF j \in table /\ status[j] = "running" THEN "killed"
                                                                          ELSE status[j]]
    /\ UNCHANGED <<pc, outcome, birth, owner, table, killVars, noteVars, destroyVars, bindVars,
                   closed>>

-----------------------------------------------------------------------------
Goroutine(j) == Settle(j) \/ Record(j) \/ Publish(j) \/ Exit(j)

JobStep(j) ==
    \/ \E s \in Origins[j] : Start(j, s)
    \/ \E s \in Owners : Kill(j, s)
    \/ Goroutine(j) \/ Return(j)
    \/ Flag(j) \/ Warn(j)
    \/ Cancel(j)

SessionStep(s) == Bind(s) \/ BeginDestroy(s) \/ FinishDestroy(s)

Next ==
    \/ \E j \in Jobs : JobStep(j)
    \/ \E s \in Sessions : SessionStep(s)
    \/ \E s \in Owners : Drain(s)
    \/ Adopt \/ Close \/ CloseTargets

Spec == Init /\ [][Next]_vars

\* The scheduler runs every goroutine; a run whose context is done returns; a caller
\* that flipped a job goes on to cancel it, and one that destroys a session to finish.
FairSpec ==
    /\ Spec
    /\ \A j \in Jobs : /\ WF_vars(Goroutine(j))
                       /\ WF_vars(ContextDone(j) /\ Return(j))
                       /\ WF_vars(Cancel(j))
    /\ \A s \in Sessions : WF_vars(FinishDestroy(s))

-----------------------------------------------------------------------------
(* Properties *)

Statuses == {"running", "done", "failed", "killed"}
Terminal == Statuses \ {"running"}
Over == {"published", "exited"}

\* Every variable keeps its type; a job has a status once it started and an outcome once
\* its goroutine settled.
TypeOK ==
    /\ pc \in [Jobs -> {"new", "running", "returned", "settled", "recorded", "published",
                        "exited"}]
    /\ status \in [Jobs -> Statuses \cup {Unset}]
    /\ outcome \in [Jobs -> Terminal \cup {Unset}]
    /\ birth \in [Jobs -> Owners] /\ owner \in [Jobs -> Owners]
    /\ table \subseteq Jobs
    /\ cancelling \subseteq Jobs /\ cancelled \subseteq Jobs
    /\ monitor \in [Jobs -> {"watching", "flagged", "over"}]
    /\ completed \subseteq [job : Jobs, session : Owners, what : {"end", "stalled"}]
    /\ told \subseteq Jobs
    /\ destroying \subseteq Sessions /\ destroyed \subseteq Sessions
    /\ targets \in [Sessions -> SUBSET Jobs]
    /\ adopting \in Owners /\ bound \subseteq Sessions
    /\ closed \in BOOLEAN
    /\ \A j \in Jobs : status[j] = Unset <=> pc[j] = "new"
    /\ \A j \in Jobs : outcome[j] = Unset <=> pc[j] \in {"new", "running", "returned"}

\* StartForSession: "an observed terminal status imply the note is already queued", and
\* DrainCompletedNoteForSession: "notes for other sessions stay queued".  Once a reader
\* can see a job done or failed, or its done channel closed, its note is queued or was
\* drained, unless its session was destroyed.  (A kill shows before the note, and a job
\* that was adopted while it ran is not covered.)
CompletionIsNoted ==
    \A j \in Jobs :
        (status[j] \in {"done", "failed"} \/ pc[j] = "exited") /\ owner[j] = birth[j] =>
            \/ birth[j] \in destroyed
            \/ \E n \in completed : n.job = j /\ n.what = "end"
            \/ j \in told

\* While a session is being destroyed no note of it is queued, however its jobs, their
\* stall monitors and the destruction interleave.
DestroyedSessionIsSilent ==
    \A n \in completed : n.session \notin destroying

\* FinishDestroySession comes "after all owned jobs have unwound": a job leaves the
\* table only when its goroutine has nothing left to do but to close done.
PurgedJobsAreOver ==
    \A j \in Jobs : pc[j] # "new" /\ j \notin table => pc[j] \in Over

\* "A concurrent Kill already published Killed - keep it": a status that a reader took
\* for terminal never changes again.
TerminalIsFinal ==
    [][\A j \in Jobs : status[j] \in Terminal => status'[j] = status[j]]_vars

\* A job that readers are told is killed does unwind: somebody cancels its context.
KilledJobsEnd ==
    \A j \in Jobs : status[j] = "killed" ~> pc[j] = "exited"

\* A destruction ends, also when it waits for a job somebody else is killing.
DestructionEnds ==
    \A s \in Sessions : s \in destroying ~> s \notin destroying

\* A session under destruction hears nothing, and what a destruction forgets is over
\* (BeginDestroySession, FinishDestroySession).  The variables have their types.
DestructionIsClean ==
  /\ TypeOK
  /\ DestroyedSessionIsSilent
  /\ PurgedJobsAreOver

\* What was told to go goes: a killed job's goroutine ends, and with the jobs it waits
\* for a destruction.
TeardownEnds ==
  /\ KilledJobsEnd
  /\ DestructionEnds
=============================================================================
