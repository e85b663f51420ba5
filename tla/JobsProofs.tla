---------------------------- MODULE JobsProofs ----------------------------
(***************************************************************************)
(* For every set of jobs and sessions: no completion is lost, a destroyed  *)
(* session is silent and forgets only jobs that are over, and a terminal   *)
(* status is final.                                                        *)
(***************************************************************************)
EXTENDS Jobs, TLAPS

Noted(j) == \E n \in completed : n.job = j /\ n.what = "end" /\ n.session = birth[j]

\* What a status and a place in the table say of the job's goroutine; a job without an
\* owner was started without one.
StatusInv ==
    /\ \A j \in Jobs : status[j] \in {"done", "failed"} => pc[j] \in Over
    /\ \A j \in table : pc[j] # "new"
    /\ \A j \in Jobs : pc[j] # "new" /\ owner[j] = Unscoped => j \in table
    /\ \A j \in Jobs : owner[j] = Unscoped => birth[j] = Unscoped

\* A session is destroyed once, nothing is bound to it afterwards, and whatever it
\* still owns is awaited or over.
DestroyInv ==
    /\ destroying \subseteq destroyed
    /\ adopting # Unscoped => adopting \notin destroyed
    /\ \A s \in destroying : \A j \in OwnedBy(s) : j \in targets[s] \/ pc[j] \in Over

\* The completion of a job that was never adopted is queued under its own session
\* until it is drained or its session destroyed.
NoteInv ==
    \A j \in Jobs :
        pc[j] \in {"recorded", "published", "exited"} /\ owner[j] = birth[j] =>
            birth[j] \in destroyed \/ Noted(j) \/ j \in told

\* The inductive invariant.
IInv ==
    TypeOK /\ StatusInv /\ DestroyInv /\ NoteInv /\ DestroyedSessionIsSilent /\ PurgedJobsAreOver

\* The initial state satisfies the inductive invariant.
LEMMA InitIInv == Init => IInv
<1> SUFFICES ASSUME Init PROVE IInv
    OBVIOUS
<1> USE DEF Init, Owners, Unset
<1>1. TypeOK
  BY DEF TypeOK, Statuses, Terminal
<1>2. StatusInv /\ NoteInv
  BY DEF StatusInv, NoteInv, Over
<1>3. DestroyInv /\ DestroyedSessionIsSilent /\ PurgedJobsAreOver
  BY DEF DestroyInv, DestroyedSessionIsSilent, PurgedJobsAreOver
<1> QED BY <1>1, <1>2, <1>3 DEF IInv

\* Every step keeps the types.
LEMMA TypeStep == IInv /\ [Next]_vars => TypeOK'
<1> SUFFICES ASSUME IInv, [Next]_vars PROVE TypeOK'
    OBVIOUS
<1> USE JobsAssumption DEF JobsAssumption, IInv, TypeOK, Owners, Statuses, Terminal, Unset, jobVars, killVars, noteVars,
        destroyVars, bindVars, Goto
<1>1. ASSUME NEW j \in Jobs, JobStep(j) PROVE TypeOK'
  <2>1. ASSUME NEW s \in Origins[j], Start(j, s) PROVE TypeOK'
    BY <2>1 DEF Start
  <2>2. ASSUME NEW s \in Owners, Kill(j, s) PROVE TypeOK'
    BY <2>2 DEF Kill, ToCancel, StatusInv
  <2>3. CASE Return(j)
    BY <2>3 DEF Return
  <2>4. CASE Settle(j)
    <3>1. PICK st \in {"killed", "failed", "done"} : outcome' = [outcome EXCEPT ![j] = st]
      BY <2>4 DEF Settle
    <3> QED BY <3>1, <2>4 DEF Settle
  <2>5. CASE Record(j)
    BY <2>5 DEF Record, Queued, Note
  <2>6. CASE Publish(j)
    BY <2>6 DEF Publish, Published
  <2>7. CASE Exit(j)
    BY <2>7 DEF Exit
  <2>8. CASE Flag(j)
    BY <2>8 DEF Flag
  <2>9. CASE Warn(j)
    BY <2>9 DEF Warn, Queued, Note
  <2>10. CASE Cancel(j)
    BY <2>10 DEF Cancel
  <2> QED
    BY <1>1, <2>1, <2>2, <2>3, <2>4, <2>5, <2>6, <2>7, <2>8, <2>9, <2>10 DEF JobStep, Goroutine
<1>2. ASSUME NEW s \in Sessions, SessionStep(s) PROVE TypeOK'
  <2>1. CASE Bind(s)
    BY <2>1 DEF Bind
  <2>2. CASE BeginDestroy(s)
    BY <2>2 DEF BeginDestroy, Swept, Awaited, OwnedBy, ToCancel
  <2>3. CASE FinishDestroy(s)
    BY <2>3 DEF FinishDestroy, OwnedBy
  <2> QED BY <1>2, <2>1, <2>2, <2>3 DEF SessionStep
<1>3. ASSUME NEW s \in Owners, Drain(s) PROVE TypeOK'
  BY <1>3 DEF Drain, Taken, Kept
<1>4. CASE Adopt
  <2>1. completed' \subseteq [job : Jobs, session : Owners, what : {"end", "stalled"}]
    BY <1>4 DEF Adopt
  <2> QED BY <2>1, <1>4 DEF Adopt
<1>5. CASE Close
  BY <1>5 DEF Close
<1>6. CASE CloseTargets
  BY <1>6 DEF CloseTargets, StatusInv
<1>7. CASE UNCHANGED vars
  BY <1>7 DEF vars
<1> QED BY <1>1, <1>2, <1>3, <1>4, <1>5, <1>6, <1>7 DEF Next

\* A status is terminal only over a goroutine that published it, or through a kill;
\* and a job that has none of the sessions as its owner is never purged.
LEMMA StatusStep == IInv /\ [Next]_vars => StatusInv'
<1> SUFFICES ASSUME IInv, [Next]_vars PROVE StatusInv'
    OBVIOUS
<1> USE JobsAssumption DEF JobsAssumption, IInv, TypeOK, StatusInv, Owners, Statuses, Terminal,
        Unset, Over, jobVars, Goto
<1>1. ASSUME NEW j \in Jobs, JobStep(j) PROVE StatusInv'
  <2>1. ASSUME NEW s \in Origins[j], Start(j, s) PROVE StatusInv'
    BY <2>1 DEF Start
  <2>2. ASSUME NEW s \in Owners, Kill(j, s) PROVE StatusInv'
    BY <2>2 DEF Kill
  <2>3. CASE Return(j) \/ Settle(j) \/ Record(j) \/ Exit(j)
    BY <2>3 DEF Return, Settle, Record, Exit
  <2>4. CASE Publish(j)
    BY <2>4 DEF Publish, Published
  <2>5. CASE Flag(j) \/ Warn(j) \/ Cancel(j)
    BY <2>5 DEF Flag, Warn, Cancel
  <2> QED BY <1>1, <2>1, <2>2, <2>3, <2>4, <2>5 DEF JobStep, Goroutine
<1>2. ASSUME NEW s \in Sessions, SessionStep(s) PROVE StatusInv'
  <2>1. CASE Bind(s)
    BY <2>1 DEF Bind
  <2>2. CASE BeginDestroy(s)
    BY <2>2 DEF BeginDestroy
  <2>3. CASE FinishDestroy(s)
    BY <2>3 DEF FinishDestroy, OwnedBy
  <2> QED BY <1>2, <2>1, <2>2, <2>3 DEF SessionStep
<1>3. ASSUME NEW s \in Owners, Drain(s) PROVE StatusInv'
  BY <1>3 DEF Drain
<1>4. CASE Adopt
  BY <1>4 DEF Adopt
<1>5. CASE Close \/ CloseTargets
  BY <1>5 DEF Close, CloseTargets
<1>6. CASE UNCHANGED vars
  BY <1>6 DEF vars
<1> QED BY <1>1, <1>2, <1>3, <1>4, <1>5, <1>6 DEF Next

\* A destruction awaits whatever its session owns and is not over: nothing is started
\* in the session or adopted by it afterwards.
LEMMA DestroyStep == IInv /\ [Next]_vars => DestroyInv' /\ PurgedJobsAreOver'
<1> SUFFICES ASSUME IInv, [Next]_vars PROVE DestroyInv' /\ PurgedJobsAreOver'
    OBVIOUS
<1> USE JobsAssumption DEF JobsAssumption, IInv, TypeOK, DestroyInv, PurgedJobsAreOver, OwnedBy,
        Owners, Over, jobVars, destroyVars, bindVars, Goto
<1>1. ASSUME NEW j \in Jobs, JobStep(j) PROVE DestroyInv' /\ PurgedJobsAreOver'
  <2>1. ASSUME NEW s \in Origins[j], Start(j, s) PROVE DestroyInv' /\ PurgedJobsAreOver'
    BY <2>1 DEF Start
  <2>2. ASSUME NEW s \in Owners, Kill(j, s) PROVE DestroyInv' /\ PurgedJobsAreOver'
    BY <2>2 DEF Kill
  <2>3. CASE Return(j) \/ Settle(j) \/ Record(j)
    BY <2>3 DEF Return, Settle, Record
  <2>4. CASE Publish(j) \/ Exit(j)
    BY <2>4 DEF Publish, Exit
  <2>5. CASE Flag(j) \/ Warn(j) \/ Cancel(j)
    BY <2>5 DEF Flag, Warn, Cancel
  <2> QED BY <1>1, <2>1, <2>2, <2>3, <2>4, <2>5 DEF JobStep, Goroutine
<1>2. ASSUME NEW s \in Sessions, SessionStep(s) PROVE DestroyInv' /\ PurgedJobsAreOver'
  <2>1. CASE Bind(s)
    BY <2>1 DEF Bind
  <2>2. CASE BeginDestroy(s)
    <3>1. \A j \in OwnedBy(s) : j \in Awaited(s) \/ pc[j] \in Over
      BY DEF Awaited, StatusInv, Statuses, Unset
    <3>2. UNCHANGED <<pc, owner, table>> /\ targets'[s] = Awaited(s)
      BY <2>2 DEF BeginDestroy
    <3>3. \A u \in Sessions \ {s} : targets'[u] = targets[u]
      BY <2>2 DEF BeginDestroy
    <3>4. destroying' = destroying \cup {s} /\ destroyed' = destroyed \cup {s}
          /\ adopting # s /\ adopting' = adopting
      BY <2>2 DEF BeginDestroy
    <3> QED BY <3>1, <3>2, <3>3, <3>4
  <2>3. CASE FinishDestroy(s)
    BY <2>3 DEF FinishDestroy
  <2> QED BY <1>2, <2>1, <2>2, <2>3 DEF SessionStep
<1>3. ASSUME NEW s \in Owners, Drain(s) PROVE DestroyInv' /\ PurgedJobsAreOver'
  BY <1>3 DEF Drain
<1>4. CASE Adopt
  BY <1>4 DEF Adopt
<1>5. CASE Close \/ CloseTargets
  BY <1>5 DEF Close, CloseTargets
<1>6. CASE UNCHANGED vars
  BY <1>6 DEF vars
<1> QED BY <1>1, <1>2, <1>3, <1>4, <1>5, <1>6 DEF Next

\* A note queued under a session that is being destroyed would have to pass the look
\* at the window, survive the sweep, or be renamed to a session nobody returns to.
LEMMA SilentStep == IInv /\ [Next]_vars => DestroyedSessionIsSilent'
<1> SUFFICES ASSUME IInv, [Next]_vars PROVE DestroyedSessionIsSilent'
    OBVIOUS
<1> USE JobsAssumption DEF JobsAssumption, IInv, DestroyedSessionIsSilent, noteVars, destroyVars
<1>1. ASSUME NEW j \in Jobs, JobStep(j) PROVE DestroyedSessionIsSilent'
  <2>1. \A what \in {"end", "stalled"} :
            completed' = Queued(j, what) /\ UNCHANGED destroying => DestroyedSessionIsSilent'
    BY DEF Queued, Note
  <2>2. CASE Record(j) \/ Warn(j)
    BY <2>1, <2>2 DEF Record, Warn
  <2>3. CASE ~Record(j) /\ ~Warn(j)
    <3>1. UNCHANGED <<completed, destroying>>
      BY <1>1, <2>3 DEF JobStep, Goroutine, Start, Kill, Return, Settle, Publish, Exit, Flag, Cancel
    <3> QED BY <3>1
  <2> QED BY <2>2, <2>3
<1>2. ASSUME NEW s \in Sessions, SessionStep(s) PROVE DestroyedSessionIsSilent'
  BY <1>2 DEF SessionStep, Bind, BeginDestroy, FinishDestroy, Swept
<1>3. ASSUME NEW s \in Owners, Drain(s) PROVE DestroyedSessionIsSilent'
  BY <1>3 DEF Drain, Kept
<1>4. CASE Adopt
  <2> SUFFICES ASSUME NEW n \in completed' PROVE n.session \notin destroying'
      BY DEF DestroyedSessionIsSilent
  <2>1. PICK m \in completed :
            n = [m EXCEPT !.session = IF @ = Unscoped THEN adopting ELSE @]
    BY <1>4 DEF Adopt
  <2>2. n.session = IF m.session = Unscoped THEN adopting ELSE m.session
    BY <2>1 DEF TypeOK
  <2> QED BY <1>4, <2>2 DEF Adopt, DestroyInv
<1>5. CASE Close \/ CloseTargets \/ UNCHANGED vars
  BY <1>5 DEF Close, CloseTargets, vars
<1> QED BY <1>1, <1>2, <1>3, <1>4, <1>5 DEF Next

\* The completion of a job stays queued under its own session until it is drained or
\* the session is destroyed, unless the job is adopted.
LEMMA NoteStep == IInv /\ [Next]_vars => NoteInv'
<1> SUFFICES ASSUME IInv, [Next]_vars PROVE NoteInv'
    OBVIOUS
<1> USE JobsAssumption DEF JobsAssumption, IInv, TypeOK, NoteInv, Noted, Owners, jobVars, noteVars, destroyVars, Goto
<1>1. ASSUME NEW j \in Jobs, JobStep(j) PROVE NoteInv'
  <2>1. ASSUME NEW s \in Origins[j], Start(j, s) PROVE NoteInv'
    BY <2>1 DEF Start
  <2>2. CASE Record(j)
    <3>1. UNCHANGED <<owner, birth, told, destroyed, destroying>> /\ completed \subseteq completed'
      BY <2>2 DEF Record, Queued
    <3>2. \A i \in Jobs \ {j} : pc'[i] = pc[i]
      BY <2>2 DEF Record
    <3>3. birth[j] \in destroyed \/ Note(j, birth[j], "end") \in completed'
      BY <2>2 DEF Record, Queued, DestroyInv
    <3>4. birth'[j] \in destroyed' \/ Noted(j)'
      BY <3>1, <3>3 DEF Note
    <3> QED BY <3>1, <3>2, <3>4
  <2>3. CASE Warn(j)
    <3>1. UNCHANGED <<pc, owner, birth, told, destroyed>> /\ completed \subseteq completed'
      BY <2>3 DEF Warn, Queued
    <3> QED BY <3>1
  <2>4. CASE Return(j) \/ Settle(j) \/ Flag(j) \/ Cancel(j)
    BY <2>4 DEF Return, Settle, Flag, Cancel
  <2>5. CASE Publish(j) \/ Exit(j)
    BY <2>5 DEF Publish, Exit
  <2>6. ASSUME NEW s \in Owners, Kill(j, s) PROVE NoteInv'
    BY <2>6 DEF Kill
  <2> QED BY <1>1, <2>1, <2>2, <2>3, <2>4, <2>5, <2>6 DEF JobStep, Goroutine
<1>2. ASSUME NEW s \in Sessions, SessionStep(s) PROVE NoteInv'
  <2>1. CASE Bind(s)
    BY <2>1 DEF Bind
  <2>2. CASE BeginDestroy(s)
    BY <2>2 DEF BeginDestroy, Swept
  <2>3. CASE FinishDestroy(s)
    BY <2>3 DEF FinishDestroy
  <2> QED BY <1>2, <2>1, <2>2, <2>3 DEF SessionStep
<1>3. ASSUME NEW s \in Owners, Drain(s) PROVE NoteInv'
  BY <1>3 DEF Drain, Kept, Taken
<1>4. CASE Adopt
  <2> SUFFICES ASSUME NEW j \in Jobs, pc[j] \in {"recorded", "published", "exited"},
                      owner'[j] = birth[j], birth[j] \notin destroyed, j \notin told
               PROVE  Noted(j)'
      BY <1>4 DEF Adopt
  <2>1. owner[j] = birth[j] /\ birth[j] # Unscoped
    BY <1>4 DEF Adopt, StatusInv, Unset
  <2>2. PICK n \in completed : n.job = j /\ n.what = "end" /\ n.session = birth[j]
    BY <2>1
  <2>3. n \in completed'
    BY <1>4, <2>1, <2>2 DEF Adopt
  <2> QED BY <1>4, <2>2, <2>3 DEF Adopt
<1>5. CASE Close \/ CloseTargets
  BY <1>5 DEF Close, CloseTargets
<1>6. CASE UNCHANGED vars
  BY <1>6 DEF vars
<1> QED BY <1>1, <1>2, <1>3, <1>4, <1>5, <1>6 DEF Next

\* The inductive invariant holds of every reachable state.
THEOREM Invariant == Spec => []IInv
<1>1. IInv /\ [Next]_vars => IInv'
  BY TypeStep, StatusStep, DestroyStep, SilentStep, NoteStep DEF IInv
<1> QED BY <1>1, InitIInv, PTL DEF Spec

\* Every variable keeps its type.
THEOREM TypeCorrect == Spec => []TypeOK
<1>1. IInv => TypeOK
  BY DEF IInv
<1> QED BY <1>1, Invariant, PTL

\* A reader that sees a job done, failed or closed finds its note queued, unless the
\* note was drained or the session destroyed.
THEOREM CompletionsAreNoted == Spec => []CompletionIsNoted
<1>1. IInv => CompletionIsNoted
  BY DEF IInv, StatusInv, NoteInv, Noted, CompletionIsNoted, Over
<1> QED BY <1>1, Invariant, PTL

\* No note of a session is queued while the session is destroyed.
THEOREM DestroyedIsSilent == Spec => []DestroyedSessionIsSilent
<1>1. IInv => DestroyedSessionIsSilent
  BY DEF IInv
<1> QED BY <1>1, Invariant, PTL

\* A destroyed session forgets only jobs that are over.
THEOREM PurgedAreOver == Spec => []PurgedJobsAreOver
<1>1. IInv => PurgedJobsAreOver
  BY DEF IInv
<1> QED BY <1>1, Invariant, PTL

\* A status that is terminal never changes, whichever of the kill, the goroutine, the
\* destruction and Close came first.
THEOREM TerminalStays == Spec => TerminalIsFinal
<1>1. ASSUME IInv, [Next]_vars, NEW j \in Jobs, status[j] \in Terminal
      PROVE  status'[j] = status[j]
  <2> USE <1>1 DEF IInv, TypeOK, StatusInv, Statuses, Terminal, Unset, Over, Goto
  <2>1. ASSUME NEW i \in Jobs, JobStep(i) PROVE status'[j] = status[j]
    <3>1. CASE Publish(i)
      BY <3>1 DEF Publish, Published
    <3>2. CASE ~Publish(i)
      BY <2>1, <3>2 DEF JobStep, Goroutine, Start, Kill, Return, Settle, Record, Exit, Flag, Warn,
         Cancel, jobVars
    <3> QED BY <3>1, <3>2
  <2>2. ASSUME NEW s \in Sessions, SessionStep(s) PROVE status'[j] = status[j]
    BY <2>2 DEF SessionStep, Bind, BeginDestroy, FinishDestroy, OwnedBy, jobVars
  <2>3. CASE \E s \in Owners : Drain(s)
    BY <2>3 DEF Drain, jobVars
  <2>4. CASE Adopt \/ Close \/ CloseTargets \/ UNCHANGED vars
    BY <2>4 DEF Adopt, Close, CloseTargets, vars, jobVars
  <2> QED BY <2>1, <2>2, <2>3, <2>4 DEF Next
<1>2. IInv /\ [Next]_vars =>
        [\A j \in Jobs : status[j] \in Terminal => status'[j] = status[j]]_vars
  BY <1>1
<1> QED BY <1>2, Invariant, PTL DEF Spec, TerminalIsFinal

\* A destruction is silent and forgets only what is over, for any jobs and sessions.
THEOREM DestructionStaysClean == Spec => []DestructionIsClean
  BY TypeCorrect, DestroyedIsSilent, PurgedAreOver, PTL DEF DestructionIsClean
=============================================================================
