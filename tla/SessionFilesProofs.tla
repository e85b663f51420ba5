-------------------------- MODULE SessionFilesProofs --------------------------
(***************************************************************************)
(* The files of a session: the lease that lets one runtime at a time have  *)
(* them, and the saves of those that share a process.                      *)
(***************************************************************************)
EXTENDS SessionLease, SessionSave, TLAPS, SequenceTheorems

(***************************************************************************)
(* THE LEASE.  Where a deleted file keeps its name until its last handle   *)
(* is closed (windows), the session lease is one lock for any number of    *)
(* runtimes and calls.                                                     *)
(*                                                                         *)
(* The heart of the invariant is HandlesOnName: every open handle is on    *)
(* the file the name points to, so there is one file to lock.  That is the *)
(* conjunct unix's unlink breaks, and with it the theorem.                 *)
(***************************************************************************)

\* Every handle is open on the file the name points to.
HandlesOnName == \A c \in Calls : fd[c] = NoInode \/ fd[c] = name

\* Whoever has locked a file has it open.
LockersOpen == \A i \in Inodes, c \in Calls : locker[i] = c => fd[c] = i

FileInv == HandlesOnName /\ LockersOpen

\* Where a call has no file, has one, and has it locked.
WithoutFile ==
    {"new", "open", "disown", "giveup", "retire", "openToDelete"} \cup Over

WithLock(c) == Holding(c) \/ pc[c] = "unlink" \/ (pc[c] = "strip" /\ KindOf[c] = "probe")

CallFiles ==
    \A c \in Calls :
        /\ pc[c] \in WithoutFile => fd[c] = NoInode
        /\ pc[c] \in {"lock", "lockToDelete"} => fd[c] # NoInode
        /\ WithLock(c) => fd[c] # NoInode /\ locker[fd[c]] = c

\* Which calls own an entry, and when.
OwnerEntries ==
    \A p \in Processes : owner[p] # NoOne =>
        /\ ProcOf[owner[p]] = p
        /\ \/ pc[owner[p]] \in {"save", "held", "release", "unlock", "disown", "dropped"}
           \/ KindOf[owner[p]] = "acquire" /\ pc[owner[p]] \in {"open", "lock", "giveup"}

\* A call's kind bounds where it can be.
KindsOfPlaces ==
    \A c \in Calls :
        /\ pc[c] \in {"own"} => KindOf[c] = "reclaim"
        /\ pc[c] \in {"save", "held", "release", "unlock", "disown", "dropped"} => c \in Leases
        /\ pc[c] = "giveup" => KindOf[c] = "acquire"
        /\ pc[c] \in {"strip", "close"} => KindOf[c] \in {"probe", "infoSweep"}
        /\ pc[c] \in {"open", "lock"} => KindOf[c] \in {"acquire", "reclaim", "probe", "infoSweep"}

\* An acquire has its entry from the start, up to reclaims; a reclaim keeps what it stored.
Entries ==
    \A c \in Calls :
        /\ KindOf[c] = "acquire" /\ pc[c] \in {"open", "lock", "save", "held", "release", "unlock"}
              => owner[ProcOf[c]] = c \/ Reclaimed(ProcOf[c])
        /\ KindOf[c] = "reclaim" /\ pc[c] \in {"save", "held", "release", "unlock"}
              => owner[ProcOf[c]] = c

LeaseInv == TypeOK /\ FileInv /\ CallFiles /\ OwnerEntries /\ KindsOfPlaces /\ Entries

USE LeaseAssumption

-----------------------------------------------------------------------------
(* Operations on files *)

\* Opening keeps every handle on the name: a file is created only when nothing is open.
LEMMA Opened ==
    ASSUME TypeOK, FileInv, NEW c \in Calls, fd[c] = NoInode, Open(c), UNCHANGED locker
    PROVE  /\ FileInv'
           /\ name' \in Inodes /\ fd' \in [Calls -> Inodes \cup {NoInode}]
           /\ fd'[c] \in Inodes
           /\ \A d \in Calls \ {c} : fd'[d] = fd[d]
  BY DEF TypeOK, FileInv, HandlesOnName, LockersOpen, Open, IsOpen

\* Closing takes the name away only when no other handle is left.
LEMMA Closed ==
    ASSUME TypeOK, FileInv, NEW c \in Calls, Close(c)
    PROVE  /\ FileInv'
           /\ name' \in Inodes \cup {NoInode} /\ doomed' \subseteq Inodes
           /\ fd' \in [Calls -> Inodes \cup {NoInode}]
           /\ locker' \in [Inodes -> Calls \cup {NoOne}]
           /\ fd'[c] = NoInode
           /\ \A d \in Calls \ {c} : fd'[d] = fd[d]
           /\ \A i \in Inodes : locker[i] # c => locker'[i] = locker[i]
  BY DEF TypeOK, FileInv, HandlesOnName, LockersOpen, Close

\* A lock that is taken has one holder: the call that took it.
LEMMA LockTaken ==
    ASSUME TypeOK, FileInv, NEW c \in Calls, fd[c] # NoInode, TryLock(c)
    PROVE  /\ FileInv'
           /\ fd' = fd /\ name' = name /\ doomed' = doomed
           /\ locker' \in [Inodes -> Calls \cup {NoOne}]
           /\ locker'[fd[c]] = c
           /\ \A i \in Inodes : locker[i] # NoOne => locker'[i] = locker[i]
  BY DEF TypeOK, FileInv, HandlesOnName, LockersOpen, TryLock

-----------------------------------------------------------------------------
(* The invariant *)

LEMMA Initially == Init => LeaseInv
  BY DEF Init, LeaseInv, TypeOK, FileInv, HandlesOnName, LockersOpen, CallFiles, WithoutFile,
         WithLock, Holding, OwnerEntries, KindsOfPlaces, Entries, PCs, Over

\* Two holders would have locked the one file there is.
LEMMA OneHolder ==
    ASSUME LeaseInv, NEW c \in Calls, NEW d \in Calls, WithLock(c), WithLock(d)
    PROVE  c = d
  BY DEF LeaseInv, FileInv, HandlesOnName, CallFiles, TypeOK

LEMMA Invariant ==
    ASSUME Platform = "windows", LeaseInv, [Next]_vars
    PROVE  LeaseInv'
<1> USE DEF LeaseInv
<1>1. ASSUME NEW c \in Calls, CallStep(c)
      PROVE  LeaseInv'
  <2> USE DEF TypeOK, CallFiles, WithoutFile, WithLock, Holding, OwnerEntries, KindsOfPlaces,
              Entries, Reclaimed, Leases, PCs, Over, Goto, fileVars, Kinds
  <2> FileInv /\ UNCHANGED fileVars => FileInv'
    BY DEF FileInv, HandlesOnName, LockersOpen
  <2>1. CASE Claim(c)
    BY <2>1 DEF Claim
  <2>2. CASE LookForOrphan(c)
    BY <2>2 DEF LookForOrphan
  <2>3. CASE Probe(c)
    BY <2>3 DEF Probe
  <2>4. CASE SweepInfo(c)
    BY <2>4 DEF SweepInfo
  <2>5. CASE LookLocally(c)
    BY <2>5 DEF LookLocally
  <2>6. CASE OpenLock(c)
    <3>1. CASE MayOpen(FALSE)
      <4>1. Open(c) /\ UNCHANGED locker /\ fd[c] = NoInode
        BY <2>6, <3>1 DEF OpenLock
      <4> QED
        BY <2>6, <3>1, <4>1, Opened DEF OpenLock
    <3>2. CASE ~MayOpen(FALSE)
      <4>1. FileInv'
        BY <2>6, <3>2 DEF OpenLock, FileInv, HandlesOnName, LockersOpen
      <4> QED
        BY <2>6, <3>2, <4>1 DEF OpenLock, NotLocked
    <3> QED
      BY <3>1, <3>2
  <2>7. CASE Lock(c)
    BY <2>7, LockTaken, Closed DEF Lock, Locked, NotLocked
  <2>8. CASE Own(c)
    <3>1. \A d \in Calls \ {c} : ~WithLock(d)
      BY <2>8, OneHolder DEF Own
    <3> QED
      BY <2>8, <3>1 DEF Own
  <2>9. CASE SaveInfo(c)
    BY <2>9 DEF SaveInfo
  <2>10. CASE Release(c)
    BY <2>10 DEF Release
  <2>11. CASE Unlock(c)
    BY <2>11, Closed DEF Unlock
  <2>12. CASE ForgetOwner(c)
    BY <2>12 DEF ForgetOwner, Disown
  <2>13. CASE DropLease(c)
    BY <2>13, Closed DEF DropLease
  <2>14. CASE OpenToDelete(c)
    <3>1. CASE MayOpen(TRUE)
      <4>1. Open(c) /\ UNCHANGED locker /\ fd[c] = NoInode
        BY <2>14, <3>1 DEF OpenToDelete
      <4> QED
        BY <2>14, <3>1, <4>1, Opened DEF OpenToDelete
    <3>2. CASE ~MayOpen(TRUE)
      <4>1. FileInv'
        BY <2>14, <3>2 DEF OpenToDelete, FileInv, HandlesOnName, LockersOpen
      <4> QED
        BY <2>14, <3>2, <4>1 DEF OpenToDelete
    <3> QED
      BY <3>1, <3>2
  <2>15. CASE LockToDelete(c)
    BY <2>15, LockTaken, Closed DEF LockToDelete
  <2>16. CASE GuardReleased(c)
    BY <2>16 DEF GuardReleased
  <2>17. CASE GuardRemovesInfo(c)
    BY <2>17 DEF GuardRemovesInfo
  <2>18. CASE Unlink(c)
    <3>1. FileInv'
      BY <2>18 DEF Unlink, FileInv, HandlesOnName, LockersOpen
    <3> QED
      BY <2>18, <3>1 DEF Unlink
  <2>19. CASE CloseDeleted(c)
    BY <2>19, Closed DEF CloseDeleted
  <2>20. CASE StripInfo(c)
    BY <2>20 DEF StripInfo
  <2>21. CASE CloseLock(c)
    BY <2>21, Closed DEF CloseLock
  <2> QED
    BY <1>1, <2>1, <2>2, <2>3, <2>4, <2>5, <2>6, <2>7, <2>8, <2>9, <2>10, <2>11, <2>12, <2>13,
       <2>14, <2>15, <2>16, <2>17, <2>18, <2>19, <2>20, <2>21 DEF CallStep
<1>2. ASSUME NEW p \in Processes, Crash(p)
      PROVE  LeaseInv'
  <2> DEFINE dead == {c \in Calls : ProcOf[c] = p}
  <2>1. /\ TypeOK'
        /\ \A c \in Calls : IF c \in dead
             THEN pc'[c] = "crashed" /\ fd'[c] = NoInode
             ELSE pc'[c] = pc[c] /\ fd'[c] = fd[c]
        /\ \A i \in Inodes : locker[i] \notin dead => locker'[i] = locker[i]
        /\ \A i \in Inodes, c \in Calls : locker'[i] = c => c \notin dead /\ locker[i] = c
    BY <1>2 DEF Crash, TypeOK, PCs, Over
  <2>2. FileInv'
    <3>1. HandlesOnName'
      BY <1>2, <2>1 DEF Crash, FileInv, HandlesOnName, TypeOK
    <3>2. LockersOpen'
      BY <2>1 DEF FileInv, LockersOpen, TypeOK
    <3> QED
      BY <3>1, <3>2 DEF FileInv
  <2>3. CallFiles'
    BY <2>1 DEF CallFiles, WithoutFile, WithLock, Holding, Over, TypeOK
  <2>4. OwnerEntries' /\ Entries'
    <3>1. \A q \in Processes : owner'[q] = IF q = p THEN NoOne ELSE owner[q]
      BY <1>2 DEF Crash, TypeOK
    <3>2. OwnerEntries'
      BY <2>1, <3>1 DEF OwnerEntries, TypeOK
    <3>3. Entries'
      BY <2>1, <3>1 DEF Entries, Reclaimed, TypeOK
    <3> QED
      BY <3>2, <3>3
  <2>5. KindsOfPlaces'
    BY <2>1 DEF KindsOfPlaces
  <2> QED
    BY <2>1, <2>2, <2>3, <2>4, <2>5
<1>3. CASE UNCHANGED vars
  BY <1>3 DEF vars, fileVars, TypeOK, FileInv, HandlesOnName, LockersOpen, CallFiles, WithLock,
              Holding, OwnerEntries, KindsOfPlaces, Entries, Reclaimed
<1> QED
  BY <1>1, <1>2, <1>3 DEF Next

-----------------------------------------------------------------------------
(* What follows *)

\* The variables keep their types, for any number of runtimes and calls.
THEOREM TypeCorrect ==
    ASSUME Platform = "windows" PROVE Spec => []TypeOK
<1>1. LeaseInv => TypeOK
  BY DEF LeaseInv
<1> QED
  BY Initially, Invariant, <1>1, PTL DEF Spec

\* A held lease keeps its owner entry, up to reclaims (session_lease.go: CompareAndDelete).
THEOREM EntriesAreTheHolders ==
    ASSUME Platform = "windows" PROVE Spec => []EntryIsTheHolders
<1>1. LeaseInv => EntryIsTheHolders
  BY DEF LeaseInv, KindsOfPlaces, Entries, EntryIsTheHolders, Leases
<1> QED
  BY Initially, Invariant, <1>1, PTL DEF Spec

\* However a call ends, it leaves no lock, no open file and no owner entry behind.
THEOREM NothingIsLeftBehind ==
    ASSUME Platform = "windows" PROVE Spec => []NothingLeftBehind
<1>1. LeaseInv => NothingLeftBehind
  <2> SUFFICES ASSUME LeaseInv, NEW c \in Calls, pc[c] \in Over
               PROVE  /\ fd[c] = NoInode /\ \A i \in Inodes : locker[i] # c
                      /\ pc[c] # "dropped" => owner[ProcOf[c]] # c
    BY DEF NothingLeftBehind
  <2>1. fd[c] = NoInode
    BY DEF LeaseInv, CallFiles, WithoutFile
  <2>2. \A i \in Inodes : locker[i] # c
    BY <2>1 DEF LeaseInv, FileInv, LockersOpen
  <2>3. pc[c] # "dropped" => owner[ProcOf[c]] # c
    BY DEF LeaseInv, OwnerEntries, Over
  <2> QED
    BY <2>1, <2>2, <2>3
<1> QED
  BY Initially, Invariant, <1>1, PTL DEF Spec

\* The session lease and the removal guard together implement one exclusive lock: nobody
\* takes it while somebody has it, in whatever process, through deletions of the lock file
\* and crashes of its holders.
THEOREM LeaseImplementsMutex ==
    ASSUME Platform = "windows" PROVE Spec => LeaseIsExclusive
<1>1. Init => Mutex!Init
  BY DEF Init, Mutex!Init, Holders, Holding
<1>2. ASSUME LeaseInv, [Next]_vars
      PROVE  [Mutex!Next]_Holders
  <2> USE DEF Goto, fileVars
  <2>1. ASSUME NEW c \in Calls, CallStep(c)
        PROVE  [Mutex!Next]_Holders
    <3>1. /\ pc[c] \in PCs /\ pc'[c] \in PCs
          /\ \A d \in Calls \ {c} : pc'[d] = pc[d]
      BY <1>2, <2>1, Invariant DEF LeaseInv, TypeOK, CallStep, Claim, LookForOrphan, Probe, SweepInfo,
           LookLocally, OpenLock, Lock, Own, SaveInfo, Release, Unlock, ForgetOwner, DropLease,
           OpenToDelete, LockToDelete, GuardReleased, GuardRemovesInfo, Unlink, CloseDeleted,
           StripInfo, CloseLock
    <3>2. CASE Holding(c) /\ ~Holding(c)'
      <4>1. Holders' = Holders \ {c} /\ c \in Holders
        BY <3>1, <3>2 DEF Holders, Holding
      <4> QED
        BY <4>1 DEF Mutex!Next, Mutex!Leave
    <3>3. CASE ~Holding(c) /\ Holding(c)'
      <4>1. Lock(c) \/ LockToDelete(c)
        <5> USE DEF Holding
        <5>1. ~(Claim(c) \/ LookForOrphan(c) \/ Probe(c) \/ SweepInfo(c) \/ LookLocally(c))
          BY <1>2, <3>3 DEF LeaseInv, TypeOK, Claim, LookForOrphan, Probe, SweepInfo, LookLocally
        <5>2. ~(OpenLock(c) \/ OpenToDelete(c))
          BY <1>2, <3>3 DEF LeaseInv, TypeOK, OpenLock, NotLocked, OpenToDelete
        <5>3. ~(Own(c) \/ SaveInfo(c) \/ Release(c) \/ Unlock(c) \/ DropLease(c))
          BY <1>2, <3>3 DEF LeaseInv, TypeOK, Own, SaveInfo, Release, Unlock, DropLease
        <5>4. ~(ForgetOwner(c) \/ GuardReleased(c) \/ GuardRemovesInfo(c) \/ Unlink(c))
          BY <1>2, <3>3 DEF LeaseInv, TypeOK, ForgetOwner, GuardReleased, GuardRemovesInfo, Unlink
        <5>5. ~(CloseDeleted(c) \/ StripInfo(c) \/ CloseLock(c))
          BY <1>2, <3>3 DEF LeaseInv, TypeOK, CloseDeleted, StripInfo, CloseLock
        <5> QED
          BY <2>1, <5>1, <5>2, <5>3, <5>4, <5>5 DEF CallStep
      <4>2. pc[c] \in {"lock", "lockToDelete"} /\ locker[fd[c]] = NoOne
        BY <4>1, <3>3, <1>2 DEF LeaseInv, TypeOK, Lock, NotLocked, LockToDelete, Holding
      <4>3. Holders = {}
        BY <4>2, <1>2 DEF LeaseInv, TypeOK, FileInv, HandlesOnName, CallFiles, WithLock, Holders
      <4>4. Holders' = {c}
        BY <3>1, <3>3, <4>3 DEF Holders, Holding
      <4> QED
        BY <4>3, <4>4 DEF Mutex!Next, Mutex!Take
    <3>4. CASE Holding(c) <=> Holding(c)'
      <4>1. Holders' = Holders
        BY <3>1, <3>4 DEF Holders, Holding
      <4> QED
        BY <4>1
    <3> QED
      BY <3>2, <3>3, <3>4
  <2>2. ASSUME NEW p \in Processes, Crash(p)
        PROVE  [Mutex!Next]_Holders
    <3>1. Holders' = {c \in Holders : ProcOf[c] # p}
      BY <2>2, <1>2 DEF Crash, Holders, Holding, LeaseInv, TypeOK
    <3>2. CASE \E c \in Holders : ProcOf[c] = p
      <4>1. PICK c \in Holders : ProcOf[c] = p
        BY <3>2
      <4>2. Holders = {c}
        BY <4>1, <1>2, OneHolder DEF Holders, WithLock
      <4>3. Holders' = Holders \ {c}
        BY <3>1, <4>1, <4>2
      <4> QED
        BY <4>1, <4>3 DEF Mutex!Next, Mutex!Leave, Holders
    <3>3. CASE \A c \in Holders : ProcOf[c] # p
      BY <3>1, <3>3
    <3> QED
      BY <3>2, <3>3
  <2>3. CASE UNCHANGED vars
    BY <2>3 DEF vars, Holders, Holding
  <2> QED
    BY <1>2, <2>1, <2>2, <2>3 DEF Next
<1> QED
  BY Initially, Invariant, <1>1, <1>2, PTL DEF Spec, LeaseIsExclusive, Mutex!Spec

\* As long as no runtime sweeps infos while another one starts, a held lease is named by
\* the info file, so no probe takes the session for free.
THEOREM InfoIsTheHolders ==
    ASSUME Platform = "windows", \A c \in Calls : KindOf[c] # "infoSweep"
    PROVE  Spec => []InfoNamesHolder
<1>1. Init => InfoNamesHolder
  BY DEF Init, InfoNamesHolder, Leases
<1>2. ASSUME LeaseInv, InfoNamesHolder, [Next]_vars
      PROVE  InfoNamesHolder'
  <2> USE DEF Goto, InfoNamesHolder, Leases
  <2>1. ASSUME NEW c \in Calls, CallStep(c)
        PROVE  InfoNamesHolder'
    <3>1. \A d \in Calls \ {c} : pc'[d] = pc[d]
      BY <1>2, <2>1 DEF LeaseInv, TypeOK, CallStep, Claim, LookForOrphan, Probe, SweepInfo,
           LookLocally, OpenLock, Lock, Own, SaveInfo, Release, Unlock, ForgetOwner, DropLease,
           OpenToDelete, LockToDelete, GuardReleased, GuardRemovesInfo, Unlink, CloseDeleted,
           StripInfo, CloseLock
    <3>2. CASE UNCHANGED info
      <4>1. pc'[c] = "held" => pc[c] = "held" \/ info = ProcOf[c]
        BY <1>2, <2>1, <3>2 DEF LeaseInv, TypeOK, CallStep, Claim, LookForOrphan, Probe, SweepInfo,
             LookLocally, OpenLock, Lock, Locked, NotLocked, Own, SaveInfo, Release, Unlock,
             ForgetOwner, DropLease, OpenToDelete, LockToDelete, GuardReleased, GuardRemovesInfo,
             Unlink, CloseDeleted, StripInfo, CloseLock
      <4> QED
        BY <1>2, <3>1, <3>2, <4>1
    <3>3. CASE info' # info
      <4>1. /\ SaveInfo(c) \/ Release(c) \/ GuardRemovesInfo(c) \/ StripInfo(c)
            /\ WithLock(c)
        BY <1>2, <2>1, <3>3 DEF LeaseInv, KindsOfPlaces, WithLock, Holding, CallStep, Claim,
             LookForOrphan, Probe, SweepInfo, LookLocally, OpenLock, Lock, Own, SaveInfo, Release,
             Unlock, ForgetOwner, DropLease, OpenToDelete, LockToDelete, GuardReleased,
             GuardRemovesInfo, Unlink, CloseDeleted, StripInfo, CloseLock, fileVars
      <4>2. \A d \in Calls \ {c} : pc[d] # "held"
        BY <1>2, <4>1, OneHolder DEF WithLock, Holding
      <4>3. pc'[c] = "held" => info' = ProcOf[c]
        BY <1>2, <4>1 DEF SaveInfo, Release, GuardRemovesInfo, StripInfo, LeaseInv, TypeOK
      <4> QED
        BY <3>1, <4>2, <4>3
    <3> QED
      BY <3>2, <3>3
  <2>2. ASSUME NEW p \in Processes, Crash(p)
        PROVE  InfoNamesHolder'
    BY <1>2, <2>2 DEF Crash, LeaseInv, TypeOK
  <2>3. CASE UNCHANGED vars
    BY <1>2, <2>3 DEF vars
  <2> QED
    BY <1>2, <2>1, <2>2, <2>3 DEF Next
<1> QED
  BY Initially, Invariant, <1>1, <1>2, PTL DEF Spec

\* On windows leases are entered while they last and leave nothing when they end.
THEOREM NoTraceIsLeft ==
    ASSUME Platform = "windows" PROVE Spec => []LeasesLeaveNoTrace
  BY TypeCorrect, EntriesAreTheHolders, NothingIsLeftBehind, PTL DEF LeasesLeaveNoTrace

(***************************************************************************)
(* THE SAVES.  The invariant says of every call of a save what it holds,   *)
(* and of the file it writes what is in it at each step: what the file was *)
(* when the call captured it, or what the call captured.  So whatever a    *)
(* file held is in what replaces it, but for what a rewrite, a forced save *)
(* or a second fork drops, wherever the writes stop.                       *)
(***************************************************************************)
(***************************************************************************)
(* Shapes.                                                                 *)
(***************************************************************************)
Writing == {"log", "anchor", "record"}
Inside == Writing \cup {"lock", "conflict", "adopt", "fork", "force"}

FileShape == [log : Transcript, foreign : BOOLEAN, torn : BOOLEAN, anchor : Transcript,
              rev : Nat, digest : Transcript, depth : 0..MaxDepth]
BaseShape == [path : Path, ok : BOOLEAN, msgs : Transcript, rev : Nat]
MemShape == [up : BOOLEAN, msgs : Transcript, rw : Nat, saved : Nat, base : BaseShape, path : Path]
CallShape == [pc : Inside \cup {"new", "enter", "done"}, on : Runtimes \cup {Idle},
              op : {"snapshot", "rewind", "strip"}, mode : {"snapshot", "rewrite"},
              path : Path, cap : Transcript, rw : Nat, rev : Nat,
              shape : {"append", "compact", "heal", "replace", "force", "fork"},
              was : Transcript, kind : {"stale", "diverged"}, depth : Nat,
              end : {"none", "saved", "forked", "failed", "adopted", "crashed"}]
Shapes ==
  /\ DOMAIN disk \subseteq Path /\ \A p \in DOMAIN disk : disk[p] \in FileShape
  /\ mem \in [Runtimes -> MemShape]
  /\ mu \in [Runtimes -> Saves \cup {Idle}]
  /\ call \in [Saves -> CallShape]
  /\ made \in Nat /\ faults \in Nat

(***************************************************************************)
(* The inductive invariant.                                                *)
(***************************************************************************)
Exists(p) == Stored(File(p)) # <<>>

\* A torn record lies behind a sound one; a foreign log is not written.
LogsOK ==
  \A p \in DOMAIN disk :
    /\ disk[p].torn => disk[p].log # <<>>
    /\ disk[p].foreign => disk[p].log = <<>>

\* A runtime has a transcript, whose file exists.
RuntimesOK ==
  \A r \in Runtimes :
    mem[r].up => /\ mem[r].msgs # <<>> /\ mem[r].saved <= mem[r].rw
                 /\ Exists(mem[r].path)

\* A call holds snapshotMu of its runtime from the entry to the end, and the
\* save locks of its path while it writes.
CallOK(c) ==
  /\ call[c].pc \notin {"new", "done"} =>
       /\ call[c].on \in Runtimes /\ mem[call[c].on].up
       /\ (call[c].op = "strip" /\ call[c].pc = "enter") => call[c].cap # <<>>
  /\ call[c].pc # "done" => call[c].end = "none"
  /\ call[c].pc \in Inside => mu[call[c].on] = c
  /\ call[c].pc \in Inside /\ ~(call[c].pc \in Writing /\ call[c].shape = "fork") => Exists(call[c].path)
  /\ call[c].pc \in Writing => Holder(locked, call[c].path) = c
  /\ call[c].pc \in Writing \cup {"fork"} => call[c].cap # <<>> /\ call[c].rw <= mem[call[c].on].rw
  /\ call[c].pc = "fork" \/ (call[c].pc \in Writing /\ call[c].shape = "fork") => call[c].depth <= MaxDepth
CallsOK == \A c \in Saves : CallOK(c)

\* What the file holds while a call writes it.
WriteOK(c) ==
  LET f == File(call[c].path)  k == call[c] IN
  /\ k.pc = "log" =>
       /\ Stored(f) = k.was /\ k.shape # "heal"
       /\ k.shape # "fork" => ~f.torn
       /\ k.shape = "append" => ~f.foreign
  /\ k.pc = "anchor" =>
       /\ f.log \in {<<>>, k.cap} \/ (Refork(c) /\ f.log = k.was)
       /\ f.log = <<>> => Stored(f) = k.was
  /\ k.pc = "record" =>
       Stored(f) = k.cap \/ (Refork(c) /\ Stored(f) = k.was)
WritesOK == \A c \in Saves : WriteOK(c)

\* Only a save that may remove messages drops any.
DropOK(c) ==
  call[c].pc \in {"log", "anchor"} /\ ~IsRewrite(c) /\ ~Overwrites(c) => Gone(c) = {}

DropsOK == \A c \in Saves : DropOK(c)

Kept == OnDisk \cup removed
\* A branch was made of its digest, which is kept.
BranchesOK == \A p \in DOMAIN disk : p # <<>> /\ Stored(disk[p]) # <<>> => Real(MessagesOf(Last(p))) \subseteq Kept
ForkOK(c) ==
  call[c].pc \in Writing /\ call[c].shape = "fork" =>
    call[c].path # <<>> /\ Last(call[c].path) = call[c].cap
ForksOK == \A c \in Saves : ForkOK(c)

SaveInv == Shapes /\ LogsOK /\ RuntimesOK /\ CallsOK /\ WritesOK /\ DropsOK /\ BranchesOK /\ ForksOK /\ NothingSavedIsLost

USE SaveAssumption

(***************************************************************************)
(* Transcripts.                                                            *)
(***************************************************************************)
\* Append adds its message.
LEMMA AppendAdds ==
  ASSUME NEW t \in Transcript, NEW m \in Message
  PROVE  /\ Append(t, m) \in Transcript /\ Append(t, m) # <<>>
         /\ MessagesOf(Append(t, m)) = MessagesOf(t) \cup {m}
<1>1. /\ Append(t, m) \in Seq(Message) /\ Len(Append(t, m)) = Len(t) + 1
      /\ \A i \in 1..Len(t) : Append(t, m)[i] = t[i]
      /\ Append(t, m)[Len(t) + 1] = m
      /\ DOMAIN Append(t, m) = 1..(Len(t) + 1) /\ DOMAIN t = 1..Len(t) /\ Len(t) \in Nat
  BY DEF Transcript
<1>2. Append(t, m) # <<>>
  BY <1>1
<1>3. \A i \in 1..(Len(t) + 1) : Append(t, m)[i] \in MessagesOf(t) \cup {m}
  BY <1>1 DEF MessagesOf
<1>4. MessagesOf(t) \cup {m} \subseteq MessagesOf(Append(t, m))
  <2>1. \A i \in DOMAIN t : i \in DOMAIN Append(t, m) /\ t[i] = Append(t, m)[i]
    BY <1>1
  <2>2. Len(t) + 1 \in DOMAIN Append(t, m) /\ m = Append(t, m)[Len(t) + 1]
    BY <1>1
  <2> QED BY <2>1, <2>2 DEF MessagesOf
<1> QED BY <1>1, <1>2, <1>3, <1>4 DEF MessagesOf, Transcript

\* The last message of a transcript is one.
LEMMA LastIsOne ==
  ASSUME NEW t \in Transcript, t # <<>>
  PROVE  Last(t) \in Message /\ Last(t)[1] \in MessageKinds /\ Last(t)[2] \in Nat /\ Last(t) \in MessagesOf(t)
<1>1. Len(t) \in DOMAIN t /\ t[Len(t)] \in Message
  BY DEF Transcript
<1> QED BY <1>1 DEF Last, MessagesOf, Message

\* The repair of a load adds at most a placeholder.
LEMMA NormalizeKeeps ==
  ASSUME NEW t \in Transcript
  PROVE  /\ Normalize(t) \in Transcript /\ (t = <<>> <=> Normalize(t) = <<>>)
         /\ MessagesOf(t) \subseteq MessagesOf(Normalize(t))
         /\ Real(MessagesOf(Normalize(t))) = Real(MessagesOf(t))
<1>1. CASE EndsInCall(t)
  <2>1. <<"stub", Last(t)[2]>> \in Message
    BY <1>1, LastIsOne DEF EndsInCall, Message, MessageKinds
  <2>2. Normalize(t) = Append(t, <<"stub", Last(t)[2]>>) /\ t # <<>>
    BY <1>1 DEF Normalize, EndsInCall
  <2>3. <<"stub", Last(t)[2]>>[1] = "stub"
    OBVIOUS
  <2>4. /\ Normalize(t) \in Transcript /\ Normalize(t) # <<>>
        /\ MessagesOf(Normalize(t)) = MessagesOf(t) \cup {<<"stub", Last(t)[2]>>}
    BY <2>1, <2>2, AppendAdds
  <2>5. \A S, x : x[1] = "stub" => Real(S \cup {x}) = Real(S)
    BY DEF Real
  <2>6. Real(MessagesOf(Normalize(t))) = Real(MessagesOf(t))
    BY <2>3, <2>4, <2>5
  <2> QED BY <2>2, <2>4, <2>6
<1>2. CASE ~EndsInCall(t)
  BY <1>2 DEF Normalize
<1> QED BY <1>1, <1>2

\* What a prefix holds, the whole holds.
LEMMA PrefixKeeps ==
  ASSUME NEW s \in Transcript, NEW t \in Transcript, IsPrefix(s, t)
  PROVE  MessagesOf(s) \subseteq MessagesOf(t) /\ (s # <<>> => t # <<>>)
<1>1. /\ DOMAIN s = 1..Len(s) /\ DOMAIN t = 1..Len(t) /\ Len(s) \in Nat /\ Len(t) \in Nat
      /\ Len(s) <= Len(t)
  BY DEF Transcript, IsPrefix
<1>2. \A i \in 1..Len(s) : s[i] = t[i]
  <2> TAKE i \in 1..Len(s)
  <2>1. SubSeq(s, 1, Len(s))[i] = s[i] /\ SubSeq(t, 1, Len(s))[i] = t[i]
    BY <1>1 DEF Transcript
  <2> QED BY <2>1 DEF IsPrefix
<1>3. s # <<>> => t # <<>>
  BY <1>1 DEF Transcript
<1> QED BY <1>1, <1>2, <1>3 DEF MessagesOf

\* A cut of a transcript at a boundary is one.
LEMMA CutIsOne ==
  ASSUME NEW t \in Transcript, NEW k \in Boundaries(t)
  PROVE  SubSeq(t, 1, k) \in Transcript /\ SubSeq(t, 1, k) # <<>>
<1>1. k \in 1..(Len(t) - 1) /\ Len(t) \in Nat
  BY DEF Boundaries, Transcript
<1>2. SubSeq(t, 1, k) \in Seq(Message) /\ Len(SubSeq(t, 1, k)) = k
  BY <1>1 DEF Transcript
<1> QED BY <1>1, <1>2 DEF Transcript

LEMMA PathGrows ==
  ASSUME NEW p \in Path, NEW t \in Transcript
  PROVE  Append(p, t) \in Path /\ Append(p, t) # <<>> /\ Last(Append(p, t)) = t
BY DEF Path, Last

(***************************************************************************)
(* Files.                                                                  *)
(***************************************************************************)
\* A path has a file of the right shape; what is stored is a transcript.
LEMMA FileIsOne ==
  ASSUME Shapes, LogsOK, NEW p \in Path
  PROVE  /\ File(p) \in FileShape /\ Stored(File(p)) \in Transcript
         /\ File(p).torn => File(p).log # <<>>
         /\ File(p).foreign => File(p).log = <<>>
<1>1. <<>> \in Transcript
  BY DEF Transcript
<1>2. NoFile \in FileShape
  BY <1>1 DEF NoFile, FileShape
<1>3. NoFile.torn = FALSE /\ NoFile.foreign = FALSE
  BY DEF NoFile
<1>4. File(p) \in FileShape
  BY <1>2 DEF File, Shapes
<1>5. Stored(File(p)) \in Transcript
  BY <1>4 DEF Stored, FileShape
<1> QED BY <1>3, <1>4, <1>5 DEF File, LogsOK

\* Storing a file changes that path alone.
LEMMA PutFile ==
  ASSUME Shapes, NEW p \in Path, NEW f \in FileShape, disk' = Put(disk, p, f)
  PROVE  /\ DOMAIN disk' = DOMAIN disk \cup {p} /\ DOMAIN disk' \subseteq Path
         /\ \A q \in DOMAIN disk' : disk'[q] \in FileShape
         /\ \A q \in DOMAIN disk' : disk'[q] = IF q = p THEN f ELSE disk[q]
         /\ \A q : File(q)' = IF q = p THEN f ELSE File(q)
BY DEF Put, File, Shapes

\* What a load puts into memory.
LEMMA LoadIsOne ==
  ASSUME Shapes, LogsOK, NEW p \in Path, Exists(p)
  PROVE  Loaded(p) \in MemShape /\ Loaded(p).up /\ Loaded(p).msgs # <<>>
         /\ Loaded(p).rw = 0 /\ Loaded(p).saved = 0 /\ Loaded(p).path = p
<1>1. File(p).rev \in Nat /\ Stored(File(p)) \in Transcript
  BY FileIsOne DEF FileShape
<1>2. Normalize(Stored(File(p))) \in Transcript /\ Normalize(Stored(File(p))) # <<>>
  BY <1>1, NormalizeKeeps DEF Exists
<1> QED BY <1>1, <1>2 DEF Loaded, Base, MemShape, BaseShape

LEMMA EmptyOnes == <<>> \in Transcript /\ <<>> \in Path /\ Down \in MemShape /\ NewCall \in CallShape
BY DEF Transcript, Path, Down, NoBase, MemShape, BaseShape, NewCall, CallShape

(***************************************************************************)
(* Shapes are kept.                                                        *)
(***************************************************************************)
MemoryStep ==
  \/ \E r \in Runtimes : Add(r) \/ Compact(r) \/ (\E p \in DOMAIN disk : Resume(r, p))
  \/ \E c \in Saves : \/ \E r \in Runtimes : Snapshot(c, r) \/ Rewind(c, r) \/ Cleanup(c, r)
                      \/ Enter(c)

LEMMA MemoryShapes ==
  ASSUME Shapes, LogsOK, RuntimesOK, CallsOK,
         MemoryStep
  PROVE  Shapes'
<1>0. <<>> \in Transcript
  BY EmptyOnes
<1>a. ASSUME NEW r \in Runtimes, NEW t \in Transcript, NEW n \in Nat, Extends(r, t, n), made' \in Nat
      PROVE  Shapes'
  <2>0. mem[r] \in MemShape
    BY DEF Shapes
  <2>1. [mem[r] EXCEPT !.msgs = t, !.rw = mem[r].rw + n] \in MemShape
    <3>1. mem[r].rw + n \in Nat
      BY <2>0 DEF MemShape
    <3> QED BY <2>0, <3>1 DEF MemShape
  <2>2. mem' = [mem EXCEPT ![r] = [mem[r] EXCEPT !.msgs = t, !.rw = mem[r].rw + n]]
    BY <1>a DEF Extends, Shapes
  <2>3. mem' \in [Runtimes -> MemShape]
    BY <2>1, <2>2 DEF Shapes
  <2> QED BY <1>a, <2>3 DEF Extends, Shapes
<1>b. ASSUME NEW c \in Saves, NEW r \in Runtimes, NEW t \in Transcript,
             NEW op \in {"snapshot", "rewind", "strip"}, Begins(c, r, op, t)
      PROVE  call' \in [Saves -> CallShape] /\ UNCHANGED <<disk, mu, made, faults>>
  <2>0. call[c] \in CallShape
    BY DEF Shapes
  <2>1. [call[c] EXCEPT !.pc = "enter", !.on = r, !.op = op, !.cap = t] \in CallShape
    BY <2>0 DEF CallShape
  <2> QED BY <1>b, <2>1 DEF Begins, Shapes
<1>1. ASSUME NEW r \in Runtimes, Add(r) PROVE Shapes'
  <2>1. mem[r].up /\ mem[r].msgs \in Transcript
    BY <1>1 DEF Add, Extends, Shapes, MemShape
  <2>2. CASE EndsInCall(mem[r].msgs)
    <3>1. Append(mem[r].msgs, <<"result", Last(mem[r].msgs)[2]>>) \in Transcript
      BY <2>1, <2>2, LastIsOne, AppendAdds DEF EndsInCall, Message, MessageKinds
    <3>2. Extends(r, Append(mem[r].msgs, <<"result", Last(mem[r].msgs)[2]>>), 0) /\ made' = made
      BY <1>1, <2>2 DEF Add
    <3> QED BY <3>1, <3>2, <1>a DEF Shapes
  <2>3. CASE ~EndsInCall(mem[r].msgs)
    <3>1. PICK k \in {"say", "call"} : Extends(r, Append(mem[r].msgs, <<k, made'>>), 0)
      BY <1>1, <2>3 DEF Add
    <3>2. made' \in Nat
      BY <1>1, <2>3 DEF Add, Shapes
    <3>3. Append(mem[r].msgs, <<k, made'>>) \in Transcript
      BY <2>1, <3>2, AppendAdds DEF Message, MessageKinds
    <3> QED BY <3>1, <3>2, <3>3, <1>a
  <2> QED BY <2>2, <2>3
<1>2. ASSUME NEW r \in Runtimes, Compact(r) PROVE Shapes'
  <2>1. made' \in Nat /\ mem[r].msgs \in Transcript /\ mem[r].msgs # <<>>
    BY <1>2 DEF Compact, Shapes, MemShape, Transcript
  <2>2. <<"say", made'>> \in Message /\ Last(mem[r].msgs) \in Message
    BY <2>1, LastIsOne DEF Message, MessageKinds
  <2>3. <<<<"say", made'>>, Last(mem[r].msgs)>> \in Transcript
    BY <2>2 DEF Transcript
  <2> QED BY <1>2, <2>1, <2>3, <1>a DEF Compact
<1>3. ASSUME NEW r \in Runtimes, NEW p \in DOMAIN disk, Resume(r, p) PROVE Shapes'
  <2>1. Loaded(p) \in MemShape
    BY <1>3, LoadIsOne DEF Resume, Exists, Shapes
  <2> QED BY <1>3, <2>1 DEF Resume, Shapes
<1>4. ASSUME NEW c \in Saves, NEW r \in Runtimes, Snapshot(c, r) PROVE Shapes'
  <2>1. Begins(c, r, "snapshot", <<>>) /\ mem' = mem
    BY <1>4 DEF Snapshot
  <2> QED BY <2>1, <1>b, <1>0 DEF Shapes
<1>5. ASSUME NEW c \in Saves, NEW r \in Runtimes, Rewind(c, r) PROVE Shapes'
  <2>1. Begins(c, r, "rewind", <<>>) /\ mem[r].msgs \in Transcript
    BY <1>5 DEF Rewind, Shapes, MemShape
  <2>2. PICK k \in Boundaries(mem[r].msgs) : mem' = [mem EXCEPT ![r].msgs = SubSeq(@, 1, k)]
    BY <1>5 DEF Rewind
  <2>3. SubSeq(mem[r].msgs, 1, k) \in Transcript
    BY <2>1, CutIsOne
  <2>4. mem' \in [Runtimes -> MemShape]
    BY <2>2, <2>3 DEF Shapes, MemShape
  <2> QED BY <2>1, <2>4, <1>b, <1>0 DEF Shapes
<1>6. ASSUME NEW c \in Saves, NEW r \in Runtimes, Cleanup(c, r) PROVE Shapes'
  <2>1. mem[r].msgs \in Transcript /\ mem' = mem
    BY <1>6 DEF Cleanup, Shapes, MemShape
  <2>2. PICK k \in Boundaries(mem[r].msgs) : Begins(c, r, "strip", SubSeq(mem[r].msgs, 1, k))
    BY <1>6 DEF Cleanup
  <2>3. SubSeq(mem[r].msgs, 1, k) \in Transcript
    BY <2>1, CutIsOne
  <2> QED BY <2>1, <2>2, <2>3, <1>b DEF Shapes
<1>7. ASSUME NEW c \in Saves, Enter(c) PROVE Shapes'
  <2>1. call[c] \in CallShape /\ call[c].on \in Runtimes /\ mem[call[c].on] \in MemShape
    BY <1>7 DEF Enter, Shapes, CallsOK, CallOK
  <2>2. mem[call[c].on].path \in Path /\ call[c].cap \in Transcript
    BY <2>1 DEF MemShape, CallShape
  <2>3. mem' \in [Runtimes -> MemShape]
    BY <1>7, <2>1, <2>2 DEF Enter, Replaced, Shapes, MemShape
  <2>4. call' \in [Saves -> CallShape]
    <3>1. PICK md \in {"snapshot", "rewrite"} :
            call' = [call EXCEPT ![c] = [@ EXCEPT !.pc = "lock", !.path = mem[call[c].on].path, !.mode = md]]
      BY <1>7 DEF Enter
    <3>2. [call[c] EXCEPT !.pc = "lock", !.path = mem[call[c].on].path, !.mode = md] \in CallShape
      BY <2>1, <2>2 DEF CallShape, Inside
    <3> QED BY <3>1, <3>2 DEF Shapes
  <2>5. mu' \in [Runtimes -> Saves \cup {Idle}]
    BY <1>7, <2>1 DEF Enter, Shapes
  <2> QED BY <1>7, <2>3, <2>4, <2>5 DEF Enter, Shapes
<1> QED BY <1>1, <1>2, <1>3, <1>4, <1>5, <1>6, <1>7 DEF MemoryStep

\* What is known of a call inside.
LEMMA CallIsOne ==
  ASSUME Shapes, LogsOK, CallsOK, NEW c \in Saves, call[c].pc \in Inside
  PROVE  /\ call[c] \in CallShape /\ call[c].on \in Runtimes /\ call[c].path \in Path
         /\ call[c].cap \in Transcript /\ call[c].was \in Transcript
         /\ mem[call[c].on] \in MemShape /\ mem[call[c].on].msgs \in Transcript
         /\ mem[call[c].on].up /\ mu[call[c].on] = c
         /\ File(call[c].path) \in FileShape /\ Stored(File(call[c].path)) \in Transcript
<1>1. call[c] \in CallShape /\ call[c].on \in Runtimes /\ mem[call[c].on] \in MemShape
      /\ mem[call[c].on].up /\ mu[call[c].on] = c
  BY DEF Shapes, CallsOK, CallOK, Inside, Writing
<1>2. call[c].path \in Path /\ call[c].cap \in Transcript /\ call[c].was \in Transcript
  BY <1>1 DEF CallShape
<1>3. mem[call[c].on].msgs \in Transcript
  BY <1>1 DEF MemShape
<1> QED BY <1>1, <1>2, <1>3, FileIsOne

LEMMA RepairIsOne ==
  ASSUME NEW f \in FileShape
  PROVE  /\ Repaired(f) \in FileShape /\ Repaired(f).log = f.log /\ Repaired(f).anchor = f.anchor
         /\ Stored(Repaired(f)) = Stored(f) /\ Repaired(f).torn = FALSE
         /\ Repaired(f).foreign = f.foreign /\ Repaired(f).rev = f.rev
         /\ Repaired(f).digest = f.digest /\ Repaired(f).depth = f.depth
BY DEF Repaired, FileShape, Stored

\* What the log's write leaves.
LEMMA LoggedIsOne ==
  ASSUME Shapes, LogsOK, CallsOK, NEW c \in Saves, call[c].pc \in Inside
  PROVE  /\ Logged(c) \in FileShape
         /\ Logged(c).anchor = File(call[c].path).anchor
         /\ Logged(c).foreign = File(call[c].path).foreign
         /\ IF Skips(c) \/ (File(call[c].path).torn /\ ~Atomic(c))
            THEN Logged(c) = File(call[c].path)
            ELSE Logged(c).log = call[c].cap /\ Logged(c).torn = FALSE
<1> DEFINE f == File(call[c].path)
<1>1. f \in FileShape /\ call[c].cap \in Transcript
  BY CallIsOne
<1>2. CASE Skips(c) \/ (f.torn /\ ~Atomic(c))
  BY <1>1, <1>2 DEF Logged
<1>3. CASE ~(Skips(c) \/ (f.torn /\ ~Atomic(c)))
  <2>1. Logged(c) = [f EXCEPT !.log = call[c].cap, !.torn = FALSE]
    BY <1>3 DEF Logged
  <2> QED BY <1>1, <1>3, <2>1 DEF FileShape
<1> QED BY <1>2, <1>3

\* What the ledger's write leaves.
LEMMA RecordedIsOne ==
  ASSUME Shapes, LogsOK, CallsOK, NEW c \in Saves, call[c].pc \in Writing
  PROVE  /\ Recorded(c) \in FileShape
         /\ Recorded(c).log = File(call[c].path).log /\ Recorded(c).anchor = File(call[c].path).anchor
         /\ Recorded(c).torn = File(call[c].path).torn /\ Recorded(c).foreign = File(call[c].path).foreign
         /\ call[c].shape # "fork" => Recorded(c).digest = call[c].cap
<1> DEFINE f == File(call[c].path)
<1>1. f \in FileShape /\ call[c].cap \in Transcript /\ call[c].rev \in Nat
  BY CallIsOne DEF Inside, CallShape
<1>2. CASE call[c].shape = "fork"
  <2>1. call[c].depth \in 0..MaxDepth
    BY <1>2, CallIsOne DEF CallsOK, CallOK, CallShape, Inside
  <2>2. PICK n \in Nat, d \in Transcript : Recorded(c) = [f EXCEPT !.rev = n, !.digest = d, !.depth = call[c].depth]
    <3>1. f.rev \in Nat /\ f.digest \in Transcript /\ 1 \in Nat
      BY <1>1 DEF FileShape
    <3>2. (IF f.rev > 1 THEN f.rev ELSE 1) \in Nat
      BY <3>1
    <3>3. (IF f.rev > 1 THEN f.digest ELSE call[c].cap) \in Transcript
      BY <1>1, <3>1
    <3> QED BY <1>2, <3>2, <3>3 DEF Recorded
  <2> QED BY <1>1, <1>2, <2>1, <2>2 DEF FileShape
<1>3. CASE call[c].shape # "fork"
  <2>1. f.rev \in Nat
    BY <1>1 DEF FileShape
  <2>2. (IF f.rev < call[c].rev THEN call[c].rev ELSE f.rev) + 1 \in Nat
    BY <1>1, <2>1
  <2>3. Recorded(c) = [f EXCEPT !.rev = (IF f.rev < call[c].rev THEN call[c].rev ELSE f.rev) + 1,
                                !.digest = call[c].cap]
    BY <1>3 DEF Recorded
  <2> QED BY <1>1, <2>2, <2>3 DEF FileShape
<1> QED BY <1>2, <1>3

\* A call that moves on, or ends.
LEMMA EndedIsOne ==
  ASSUME NEW k \in CallShape, NEW how \in {"saved", "forked", "failed", "adopted", "crashed"}
  PROVE  Ended(k, how) \in CallShape /\ Ended(k, how).pc = "done"
<1>1. k.mode \in {"snapshot", "rewrite"} /\ NewCall \in CallShape
  BY EmptyOnes DEF CallShape
<1> DEFINE e == [NewCall EXCEPT !.pc = "done", !.mode = k.mode]
<1>2. e \in CallShape /\ e.pc = "done"
  BY <1>1 DEF CallShape
<1> HIDE DEF e
<1>3. [e EXCEPT !.end = how] \in CallShape /\ [e EXCEPT !.end = how].pc = "done"
  BY <1>2 DEF CallShape
<1>4. Ended(k, how) = [e EXCEPT !.end = how]
  BY DEF Ended, e
<1> QED BY <1>3, <1>4

LEMMA LeaveIsOne ==
  ASSUME Shapes, NEW c \in Saves, call[c].on \in Runtimes, NEW how \in {"saved", "forked", "failed", "adopted"}, Leave(c, how)
  PROVE  call' \in [Saves -> CallShape] /\ mu' \in [Runtimes -> Saves \cup {Idle}]
<1>1. call[c] \in CallShape
  BY DEF Shapes
<1>2. Ended(call[c], how) \in CallShape
  BY <1>1, EndedIsOne
<1> QED BY <1>2 DEF Leave, Shapes

LEMMA MoveIsOne ==
  ASSUME Shapes, NEW c \in Saves, NEW to \in Inside, MoveTo(c, to)
  PROVE  call' \in [Saves -> CallShape]
<1>1. call[c] \in CallShape
  BY DEF Shapes
<1>2. [call[c] EXCEPT !.pc = to] \in CallShape
  BY <1>1 DEF CallShape
<1> QED BY <1>2 DEF MoveTo, Shapes

LEMMA CaptureIsOne ==
  ASSUME Shapes, LogsOK, CallsOK, NEW c \in Saves, call[c].pc \in Inside,
         NEW s \in {"append", "compact", "heal", "replace", "force"}, Captures(c, call[c].path, s)
  PROVE  call' \in [Saves -> CallShape]
<1>1. call[c] \in CallShape /\ mem[call[c].on].msgs \in Transcript /\ mem[call[c].on].rw \in Nat
      /\ File(call[c].path).rev \in Nat /\ Stored(File(call[c].path)) \in Transcript
  BY CallIsOne DEF MemShape, FileShape
<1> DEFINE to == IF s = "heal" THEN "record" ELSE "log"
           k1 == [call[c] EXCEPT !.pc = to, !.shape = s]
           k2 == [k1 EXCEPT !.cap = mem[call[c].on].msgs, !.rw = mem[call[c].on].rw]
           k3 == [k2 EXCEPT !.rev = File(call[c].path).rev, !.was = Stored(File(call[c].path))]
<1>2. call'[c] = k3
  BY DEF Captures, Shapes
<1>3. to \in Inside
  BY DEF Inside, Writing
<1> HIDE DEF to
<1>4. k1 \in CallShape
  BY <1>1, <1>3 DEF CallShape
<1> HIDE DEF k1
<1>5. k2 \in CallShape
  BY <1>1, <1>4 DEF CallShape
<1> HIDE DEF k2
<1>6. k3 \in CallShape
  BY <1>1, <1>5 DEF CallShape
<1>7. call'[c] \in CallShape
  BY <1>2, <1>6
<1>8. call' = [call EXCEPT ![c] = call'[c]]
  BY DEF Captures, Shapes
<1> QED BY <1>7, <1>8 DEF Shapes

LEMMA PersistIsOne ==
  ASSUME Shapes, NEW r \in Runtimes, NEW p \in Path, NEW t \in Transcript, NEW n \in Nat, NEW w \in Nat,
         MarkPersisted(r, p, t, n, w)
  PROVE  mem' \in [Runtimes -> MemShape]
<1>1. mem[r] \in MemShape /\ mem[r].saved \in Nat
  BY DEF Shapes, MemShape
<1>2. PICK s \in Nat : mem' = [mem EXCEPT ![r] = [mem[r] EXCEPT !.base = Base(p, t, n), !.path = p, !.saved = s]]
  BY <1>1 DEF MarkPersisted, Shapes
<1>3. Base(p, t, n) \in BaseShape
  BY DEF Base, BaseShape
<1>4. [mem[r] EXCEPT !.base = Base(p, t, n), !.path = p, !.saved = s] \in MemShape
  BY <1>1, <1>3 DEF MemShape
<1> QED BY <1>2, <1>4 DEF Shapes

LEMMA SavingShapes ==
  ASSUME Shapes, LogsOK, RuntimesOK, CallsOK, NEW c \in Saves,
         \/ SaveWrites(c) \/ SaveIsUpToDate(c) \/ SaveConflicts(c)
         \/ WriteLog(c) \/ WriteAnchor(c) \/ Record(c)
         \/ Retry(c) \/ Adopt(c) \/ Recover(c) \/ ForceSave(c) \/ Fork(c) \/ WriteFails(c)
  PROVE  Shapes'
<1> DEFINE k == call[c]  p == k.path  f == File(p)  r == k.on  next == mem[r].msgs
<1>0. k.pc \in Inside
  BY DEF SaveWrites, SaveIsUpToDate, SaveConflicts, WriteLog, WriteAnchor, Record, Retry, Adopt, Recover,
         ForceSave, Fork, WriteFails, Locks, GivesUp, Inside, Writing
<1>1. /\ k \in CallShape /\ r \in Runtimes /\ p \in Path /\ k.cap \in Transcript /\ mem[r] \in MemShape
      /\ next \in Transcript /\ f \in FileShape /\ Stored(f) \in Transcript
  BY <1>0, CallIsOne
<1>2. mem[r].rw \in Nat /\ f.rev \in Nat /\ f.depth \in Nat /\ k.rw \in Nat
  BY <1>1 DEF MemShape, FileShape, CallShape
<1>3. ASSUME NEW g \in FileShape, disk' = Put(disk, p, g)
      PROVE  DOMAIN disk' \subseteq Path /\ \A q \in DOMAIN disk' : disk'[q] \in FileShape
  BY <1>1, <1>3, PutFile
<1>4. Repaired(f) \in FileShape
  BY <1>1, RepairIsOne
<1>5. CASE SaveWrites(c)
  <2>1. disk' = Put(disk, p, Repaired(f))
    BY <1>5 DEF SaveWrites, Locks
  <2>2. PICK s \in {"append", "compact", "heal", "replace"} : Captures(c, p, s)
    BY <1>5 DEF SaveWrites
  <2>3. call' \in [Saves -> CallShape]
    BY <1>0, <2>2, CaptureIsOne
  <2> QED BY <1>3, <1>4, <1>5, <2>1, <2>3 DEF SaveWrites, Shapes
<1>6. CASE SaveIsUpToDate(c)
  <2>1. disk' = Put(disk, p, Repaired(f))
    BY <1>6 DEF SaveIsUpToDate, Locks
  <2>2. mem' \in [Runtimes -> MemShape]
    BY <1>1, <1>2, <1>6, PersistIsOne DEF SaveIsUpToDate
  <2>3. call' \in [Saves -> CallShape] /\ mu' \in [Runtimes -> Saves \cup {Idle}]
    BY <1>1, <1>6, LeaveIsOne DEF SaveIsUpToDate
  <2> QED BY <1>3, <1>4, <1>6, <2>1, <2>2, <2>3 DEF SaveIsUpToDate, Shapes
<1>7. CASE SaveConflicts(c)
  <2>1. disk' = Put(disk, p, Repaired(f))
    BY <1>7 DEF SaveConflicts, Locks
  <2>2. PICK how \in {"stale", "diverged"} :
          call' = [call EXCEPT ![c] = [@ EXCEPT !.pc = "conflict", !.cap = next, !.kind = how]]
    BY <1>7 DEF SaveConflicts
  <2>3. [k EXCEPT !.pc = "conflict", !.cap = next, !.kind = how] \in CallShape
    BY <1>1 DEF CallShape, Inside
  <2> QED BY <1>3, <1>4, <1>7, <2>1, <2>2, <2>3 DEF SaveConflicts, Shapes
<1>8. CASE WriteLog(c)
  <2>1. disk' = Put(disk, p, Logged(c)) /\ Logged(c) \in FileShape
    BY <1>0, <1>8, LoggedIsOne DEF WriteLog
  <2>2. PICK to \in Inside : MoveTo(c, to)
    BY <1>8 DEF WriteLog, Inside, Writing
  <2>3. call' \in [Saves -> CallShape]
    BY <2>2, MoveIsOne
  <2> QED BY <1>3, <1>8, <2>1, <2>3 DEF WriteLog, Shapes
<1>9. CASE WriteAnchor(c)
  <2>1. disk' = Put(disk, p, [f EXCEPT !.anchor = k.cap])
    BY <1>9 DEF WriteAnchor
  <2>2. [f EXCEPT !.anchor = k.cap] \in FileShape
    BY <1>1 DEF FileShape
  <2>3. call' \in [Saves -> CallShape]
    BY <1>9, MoveIsOne DEF WriteAnchor, Inside, Writing
  <2> QED BY <1>3, <1>9, <2>1, <2>2, <2>3 DEF WriteAnchor, Shapes
<1>10. CASE Record(c)
  <2>1. disk' = Put(disk, p, Recorded(c)) /\ Recorded(c) \in FileShape
    BY <1>10, RecordedIsOne DEF Record, Writing
  <2>2. Recorded(c).rev \in Nat
    BY <2>1 DEF FileShape
  <2>3. mem' \in [Runtimes -> MemShape]
    BY <1>1, <1>2, <1>10, <2>2, PersistIsOne DEF Record
  <2>4. PICK how \in {"forked", "saved"} : Leave(c, how)
    BY <1>10 DEF Record
  <2>5. call' \in [Saves -> CallShape] /\ mu' \in [Runtimes -> Saves \cup {Idle}]
    BY <1>1, <2>4, LeaveIsOne
  <2> QED BY <1>3, <1>10, <2>1, <2>3, <2>5 DEF Record, Shapes
<1>11. CASE Retry(c)
  <2>1. [k EXCEPT !.pc = "lock", !.mode = "rewrite"] \in CallShape
    BY <1>1 DEF CallShape, Inside
  <2> QED BY <1>11, <2>1 DEF Retry, Shapes
<1>12. CASE Adopt(c)
  <2>1. Exists(p)
    BY <1>12 DEF Adopt, GivesUp, CallsOK, CallOK, Inside, Writing
  <2>2. Loaded(p) \in MemShape
    BY <1>1, <2>1, LoadIsOne
  <2>3. call' \in [Saves -> CallShape] /\ mu' \in [Runtimes -> Saves \cup {Idle}]
    BY <1>1, <1>12, LeaveIsOne DEF Adopt
  <2> QED BY <1>12, <2>2, <2>3 DEF Adopt, Shapes
<1>13. CASE Recover(c)
  <2>1. PICK to \in {"adopt", "force", "fork"} :
          call' = [call EXCEPT ![c] = [@ EXCEPT !.pc = to, !.cap = next, !.rw = mem[r].rw, !.depth = f.depth + 1]]
    BY <1>13 DEF Recover
  <2> DEFINE k1 == [k EXCEPT !.pc = to, !.depth = f.depth + 1]
  <2>a. f.depth + 1 \in Nat
    BY <1>2
  <2>2. k1 \in CallShape
    BY <1>1, <2>a DEF CallShape, Inside
  <2>3. call'[c] = [k1 EXCEPT !.cap = next, !.rw = mem[r].rw]
    BY <2>1 DEF Shapes
  <2> HIDE DEF k1
  <2>4. [k1 EXCEPT !.cap = next, !.rw = mem[r].rw] \in CallShape
    BY <1>1, <1>2, <2>2 DEF CallShape
  <2>5. call' = [call EXCEPT ![c] = call'[c]]
    BY <2>1 DEF Shapes
  <2> QED BY <1>13, <2>3, <2>4, <2>5 DEF Recover, Shapes
<1>14. CASE ForceSave(c)
  <2>1. disk' = Put(disk, p, Repaired(f))
    BY <1>14 DEF ForceSave
  <2>2. call' \in [Saves -> CallShape]
    BY <1>0, <1>14, CaptureIsOne DEF ForceSave
  <2> QED BY <1>3, <1>4, <1>14, <2>1, <2>2 DEF ForceSave, Shapes
<1>15. CASE Fork(c)
  <2> DEFINE q == Append(p, k.cap)
  <2>1. q \in Path /\ Stored(File(q)) \in Transcript
    BY <1>1, PathGrows, FileIsOne
  <2>2. PICK to \in {"record", "log"} :
          call' = [call EXCEPT ![c] = [@ EXCEPT !.path = q, !.shape = "fork", !.was = Stored(File(q)), !.pc = to]]
    BY <1>15 DEF Fork
  <2> DEFINE k1 == [k EXCEPT !.path = q, !.pc = to]
  <2>3. k1 \in CallShape
    BY <1>1, <2>1 DEF CallShape, Inside, Writing
  <2>4. call'[c] = [k1 EXCEPT !.shape = "fork", !.was = Stored(File(q))]
    BY <2>2 DEF Shapes
  <2> HIDE DEF k1
  <2>5. [k1 EXCEPT !.shape = "fork", !.was = Stored(File(q))] \in CallShape
    BY <2>1, <2>3 DEF CallShape
  <2>6. call' = [call EXCEPT ![c] = call'[c]]
    BY <2>2 DEF Shapes
  <2> QED BY <1>15, <2>4, <2>5, <2>6 DEF Fork, Shapes
<1>16. CASE WriteFails(c)
  <2>1. call' \in [Saves -> CallShape] /\ mu' \in [Runtimes -> Saves \cup {Idle}]
    BY <1>1, <1>16, LeaveIsOne DEF WriteFails
  <2>2. [f EXCEPT !.foreign = TRUE] \in FileShape /\ [f EXCEPT !.torn = TRUE] \in FileShape
    BY <1>1 DEF FileShape
  <2>3. disk' = disk \/ \E g \in FileShape : disk' = Put(disk, p, g)
    BY <1>16, <2>2 DEF WriteFails
  <2>4. DOMAIN disk' \subseteq Path /\ \A q \in DOMAIN disk' : disk'[q] \in FileShape
    BY <1>3, <2>3 DEF Shapes
  <2>5. faults' \in Nat
    BY <1>16 DEF WriteFails, Fault, Shapes
  <2> QED BY <1>16, <2>1, <2>4, <2>5 DEF WriteFails, Shapes
<1> QED BY <1>5, <1>6, <1>7, <1>8, <1>9, <1>10, <1>11, <1>12, <1>13, <1>14, <1>15, <1>16

LEMMA DeathShapes ==
  ASSUME Shapes, ProcessDies
  PROVE  Shapes'
<1>1. mem' \in [Runtimes -> MemShape] /\ mu' \in [Runtimes -> Saves \cup {Idle}]
  BY EmptyOnes DEF ProcessDies
<1>2. \A c \in Saves : call[c] \in CallShape /\ Ended(call[c], "crashed") \in CallShape
  BY EndedIsOne DEF Shapes
<1>3. call' \in [Saves -> CallShape]
  BY <1>2 DEF ProcessDies
<1> QED BY <1>1, <1>3 DEF ProcessDies, Fault, Shapes

(***************************************************************************)
(* What a step of a save does to the disk.                                 *)
(***************************************************************************)
SaveStep(c) ==
  \/ SaveWrites(c) \/ SaveIsUpToDate(c) \/ SaveConflicts(c)
  \/ WriteLog(c) \/ WriteAnchor(c) \/ Record(c)
  \/ Retry(c) \/ Adopt(c) \/ Recover(c) \/ ForceSave(c) \/ Fork(c) \/ WriteFails(c)

\* What takes the place of a file is one, holds what the file held but for what
\* the save may remove, and where there was nothing, what the call captured.
Succeeds(c, f, g) ==
  /\ g \in FileShape
  /\ g.torn => g.log # <<>>
  /\ g.foreign => g.log = <<>>
  /\ Stored(g) = Stored(f) \/ (Stored(g) = call[c].cap /\ call[c].cap # <<>>)
  /\ Real(MessagesOf(Stored(f))) \subseteq MessagesOf(Stored(g)) \cup removed'

LEMMA StepIsInside ==
  ASSUME NEW c \in Saves, SaveStep(c)
  PROVE  call[c].pc \in Inside
BY DEF SaveStep, SaveWrites, SaveIsUpToDate, SaveConflicts, WriteLog, WriteAnchor, Record, Retry, Adopt,
       Recover, ForceSave, Fork, WriteFails, Locks, GivesUp, Inside, Writing

LEMMA DiskMoves ==
  ASSUME SaveInv, NEW c \in Saves, SaveStep(c)
  PROVE  /\ removed \subseteq removed'
         /\ \/ disk' = disk
            \/ /\ Holder(locked, call[c].path) \in {c, Idle}
               /\ \E g \in FileShape : /\ disk' = Put(disk, call[c].path, g)
                                       /\ Succeeds(c, File(call[c].path), g)
<1> DEFINE k == call[c]  p == k.path  f == File(p)
<1>0. k.pc \in Inside
  BY StepIsInside
<1>1. /\ p \in Path /\ k.cap \in Transcript /\ f \in FileShape /\ Stored(f) \in Transcript
      /\ f.torn => f.log # <<>>
      /\ f.foreign => f.log = <<>>
  BY <1>0, CallIsOne, FileIsOne DEF SaveInv
<1>2. \A S : Real(S) \subseteq S
  BY DEF Real
<1>3. k.pc \in Writing => Holder(locked, p) = c /\ k.cap # <<>>
  BY DEF SaveInv, CallsOK, CallOK
<1>4. ASSUME NEW g \in FileShape, Stored(g) = Stored(f), g.torn => g.log # <<>>, g.foreign => g.log = <<>>
      PROVE  Succeeds(c, f, g)
  BY <1>2, <1>4 DEF Succeeds
<1>5. CASE SaveWrites(c) \/ SaveIsUpToDate(c) \/ SaveConflicts(c) \/ ForceSave(c)
  <2>1. disk' = Put(disk, p, Repaired(f)) /\ Holder(locked, p) = Idle /\ removed' = removed
    BY <1>5 DEF SaveWrites, SaveIsUpToDate, SaveConflicts, ForceSave, Locks
  <2>2. Repaired(f) \in FileShape /\ Succeeds(c, f, Repaired(f))
    BY <1>1, <1>4, RepairIsOne
  <2> QED BY <2>1, <2>2
<1>6. ASSUME k.pc \in {"log", "anchor"}, Wrote(c), Stored(f) = k.was, NEW g \in FileShape,
             Stored(g) = k.cap, g.torn => g.log # <<>>, g.foreign => g.log = <<>>
      PROVE  Succeeds(c, f, g) /\ removed \subseteq removed'
  <2>1. Real(MessagesOf(k.was)) \ MessagesOf(k.cap) = Gone(c)
    BY DEF Gone, Real
  <2>2. Gone(c) \subseteq removed'
    <3>1. CASE IsRewrite(c) \/ Overwrites(c)
      BY <1>6, <3>1 DEF Wrote
    <3>2. CASE ~(IsRewrite(c) \/ Overwrites(c))
      BY <1>6, <3>2 DEF SaveInv, DropsOK, DropOK
    <3> QED BY <3>1, <3>2
  <2>3. k.cap # <<>>
    BY <1>3, <1>6 DEF Writing
  <2>4. Real(MessagesOf(Stored(f))) \subseteq MessagesOf(Stored(g)) \cup removed'
    BY <1>6, <2>1, <2>2
  <2>5. removed \subseteq removed'
    BY <1>6 DEF Wrote
  <2> QED BY <1>6, <2>3, <2>4, <2>5 DEF Succeeds
<1>7. CASE WriteLog(c)
  <2>1. /\ k.pc = "log" /\ disk' = Put(disk, p, Logged(c)) /\ Wrote(c) /\ Stored(f) = k.was
        /\ Logged(c) \in FileShape
    BY <1>0, <1>7, LoggedIsOne DEF WriteLog, SaveInv, WritesOK, WriteOK
  <2>2. CASE Skips(c) \/ (f.torn /\ ~Atomic(c))
    <3>1. Logged(c) = f
      BY <1>0, <2>2, LoggedIsOne DEF SaveInv
    <3>2. Succeeds(c, f, Logged(c))
      BY <1>1, <1>4, <2>1, <3>1
    <3>3. removed \subseteq removed'
      BY <2>1 DEF Wrote
    <3> QED BY <1>3, <2>1, <3>2, <3>3 DEF Writing
  <2>3. CASE ~(Skips(c) \/ (f.torn /\ ~Atomic(c)))
    <3>1. Logged(c).log = k.cap /\ Logged(c).torn = FALSE /\ Logged(c).foreign = f.foreign
      BY <1>0, <2>3, LoggedIsOne DEF SaveInv
    <3>2. ~f.foreign /\ k.cap # <<>>
      BY <1>3, <2>1, <2>3 DEF Skips, Writing
    <3>3. Stored(Logged(c)) = k.cap
      BY <3>1, <3>2 DEF Stored
    <3>4. Succeeds(c, f, Logged(c)) /\ removed \subseteq removed'
      BY <1>6, <2>1, <3>1, <3>2, <3>3
    <3> QED BY <1>3, <2>1, <3>4 DEF Writing
  <2> QED BY <2>2, <2>3
<1>8. CASE WriteAnchor(c)
  <2> DEFINE g == [f EXCEPT !.anchor = k.cap]
  <2>1. k.pc = "anchor" /\ disk' = Put(disk, p, g) /\ Wrote(c)
    BY <1>8 DEF WriteAnchor
  <2>2. g \in FileShape /\ g.log = f.log /\ g.anchor = k.cap /\ g.torn = f.torn /\ g.foreign = f.foreign
    BY <1>1 DEF FileShape
  <2>3. CASE f.log # <<>>
    <3>1. Stored(g) = Stored(f)
      BY <2>2, <2>3 DEF Stored
    <3>2. Succeeds(c, f, g)
      BY <1>1, <1>4, <2>2, <3>1
    <3>3. removed \subseteq removed'
      BY <2>1 DEF Wrote
    <3> QED BY <1>3, <2>1, <2>2, <3>2, <3>3 DEF Writing
  <2>4. CASE f.log = <<>>
    <3>1. Stored(g) = k.cap
      BY <2>2, <2>4 DEF Stored
    <3>2. Stored(f) = k.was
      BY <2>1, <2>4 DEF SaveInv, WritesOK, WriteOK
    <3>3. Succeeds(c, f, g) /\ removed \subseteq removed'
      BY <1>1, <1>6, <2>1, <2>2, <3>1, <3>2
    <3> QED BY <1>3, <2>1, <2>2, <3>3 DEF Writing
  <2> QED BY <2>3, <2>4
<1>9. CASE Record(c)
  <2>1. disk' = Put(disk, p, Recorded(c)) /\ removed' = removed /\ k.pc \in Writing
    BY <1>9 DEF Record, Writing
  <2>2. /\ Recorded(c) \in FileShape /\ Recorded(c).log = f.log /\ Recorded(c).anchor = f.anchor
        /\ Recorded(c).torn = f.torn /\ Recorded(c).foreign = f.foreign
    BY <2>1, RecordedIsOne DEF SaveInv
  <2>3. Stored(Recorded(c)) = Stored(f)
    BY <2>2 DEF Stored
  <2>4. Succeeds(c, f, Recorded(c))
    BY <1>1, <1>4, <2>2, <2>3
  <2> QED BY <1>3, <2>1, <2>2, <2>4
<1>10. CASE WriteFails(c)
  <2>1. removed' = removed /\ k.pc \in Writing
    BY <1>10 DEF WriteFails, Writing
  <2>2. CASE disk' = disk
    BY <2>1, <2>2
  <2>3. CASE disk' # disk
    <3>1. PICK g : /\ disk' = Put(disk, p, g) /\ ~Skips(c)
                   /\ g = IF f.log = <<>> THEN [f EXCEPT !.foreign = TRUE] ELSE [f EXCEPT !.torn = TRUE]
      BY <1>10, <2>3 DEF WriteFails
    <3>2. g \in FileShape /\ g.log = f.log /\ g.anchor = f.anchor
          /\ (g.torn => g.log # <<>>) /\ (g.foreign => g.log = <<>>)
      BY <1>1, <3>1 DEF FileShape
    <3>3. Stored(g) = Stored(f)
      BY <3>2 DEF Stored
    <3>4. Succeeds(c, f, g)
      BY <1>4, <3>2, <3>3
    <3> QED BY <1>3, <2>1, <3>1, <3>2, <3>4
  <2> QED BY <2>2, <2>3
<1>11. CASE Retry(c) \/ Adopt(c) \/ Recover(c) \/ Fork(c)
  BY <1>11 DEF Retry, Adopt, Recover, Fork
<1> QED BY <1>5, <1>7, <1>8, <1>9, <1>10, <1>11 DEF SaveStep

\* Consequences: files stay, the files others write stay as they are, and what
\* is kept stays kept.
LEMMA DiskKeeps ==
  ASSUME SaveInv, NEW c \in Saves, SaveStep(c), Shapes'
  PROVE  /\ LogsOK'
         /\ \A q \in Path : Exists(q) => Exists(q)'
         /\ \A d \in Saves \ {c}, q \in Path : call[d].pc \in Writing /\ q = call[d].path => File(q)' = File(q)
         /\ \A S : S \subseteq Kept => Real(S) \subseteq Kept'
<1> DEFINE p == call[c].path
<1>0. p \in Path /\ \A S : Real(S) \subseteq S
  BY StepIsInside, CallIsOne DEF SaveInv, Real
<1>1. removed \subseteq removed'
  BY DiskMoves
<1>2. CASE disk' = disk
  <2>1. \A q : File(q)' = File(q)
    BY <1>2 DEF File
  <2>2. OnDisk' = OnDisk
    BY <1>2 DEF OnDisk
  <2>3. LogsOK'
    BY <1>2 DEF SaveInv, LogsOK
  <2>4. ASSUME NEW S, S \subseteq Kept PROVE Real(S) \subseteq Kept'
    BY <1>0, <1>1, <2>2, <2>4 DEF Kept
  <2>5. \A q \in Path : Exists(q) => Exists(q)'
    BY <2>1 DEF Exists
  <2> QED BY <2>1, <2>3, <2>4, <2>5
<1>3. CASE disk' # disk
  <2>1. Holder(locked, p) \in {c, Idle}
    BY <1>3, DiskMoves
  <2>2. PICK g \in FileShape : disk' = Put(disk, p, g) /\ Succeeds(c, File(p), g)
    BY <1>3, DiskMoves
  <2>3. /\ DOMAIN disk' = DOMAIN disk \cup {p}
        /\ \A q \in DOMAIN disk' : disk'[q] = IF q = p THEN g ELSE disk[q]
        /\ \A q : File(q)' = IF q = p THEN g ELSE File(q)
    BY <1>0, <2>2, PutFile DEF SaveInv
  <2>4. LogsOK'
    BY <2>2, <2>3 DEF SaveInv, LogsOK, Succeeds
  <2>5. \A q \in Path : Exists(q) => Exists(q)'
    BY <2>2, <2>3 DEF Exists, Succeeds
  <2>6. ASSUME NEW d \in Saves \ {c}, NEW q \in Path, call[d].pc \in Writing, q = call[d].path
        PROVE  File(q)' = File(q)
    <3>1. Holder(locked, q) = d
      BY <2>6 DEF SaveInv, CallsOK, CallOK
    <3>2. q # p
      BY <2>1, <3>1, SaveAssumption
    <3> QED BY <2>3, <3>2
  <2>7. ASSUME NEW S, S \subseteq Kept, NEW m \in Real(S)
        PROVE  m \in Kept'
    <3>1. m[1] # "stub" /\ (m \in OnDisk \/ m \in removed)
      BY <2>7 DEF Real, Kept
    <3>2. CASE m \in removed
      BY <1>1, <3>2 DEF Kept
    <3>3. CASE m \in OnDisk
      <4>1. PICK q \in DOMAIN disk : m \in MessagesOf(Stored(disk[q]))
        BY <3>3 DEF OnDisk
      <4>2. CASE q = p
        <5>1. m \in Real(MessagesOf(Stored(File(p))))
          BY <3>1, <4>1, <4>2 DEF Real, File
        <5>2. m \in MessagesOf(Stored(g)) \cup removed'
          BY <2>2, <5>1 DEF Succeeds
        <5>3. p \in DOMAIN disk' /\ disk'[p] = g
          BY <2>3
        <5> QED BY <5>2, <5>3 DEF Kept, OnDisk
      <4>3. CASE q # p
        <5>1. q \in DOMAIN disk' /\ disk'[q] = disk[q]
          BY <2>3, <4>3
        <5> QED BY <4>1, <5>1 DEF Kept, OnDisk
      <4> QED BY <4>2, <4>3
    <3> QED BY <3>1, <3>2, <3>3
  <2> QED BY <2>4, <2>5, <2>6, <2>7
<1> QED BY <1>2, <1>3

\* A step of a save is one of its own call, runtime and locks.
LEMMA OthersStay ==
  ASSUME SaveInv, NEW c \in Saves, SaveStep(c)
  PROVE  /\ \A d \in Saves \ {c} : call'[d] = call[d]
         /\ \A s \in Runtimes \ {call[c].on} : mem'[s] = mem[s] /\ mu'[s] = mu[s]
         /\ mem'[call[c].on].up
         /\ \A d \in Saves \ {c} : \A q : Holder(locked, q) = d => Holder(locked', q) = d
<1> DEFINE r == call[c].on
<1>0. /\ r \in Runtimes /\ mem[r].up /\ mem[r] \in MemShape /\ call[c].path \in Path
      /\ mem \in [Runtimes -> MemShape] /\ mu \in [Runtimes -> Saves \cup {Idle}] /\ call \in [Saves -> CallShape]
  BY StepIsInside, CallIsOne DEF SaveInv, Shapes
<1>1. \A d \in Saves \ {c} : call'[d] = call[d]
  BY <1>0 DEF SaveStep, SaveWrites, SaveIsUpToDate, SaveConflicts, WriteLog, WriteAnchor, Record, Retry, Adopt,
     Recover, ForceSave, Fork, WriteFails, Captures, Leave, MoveTo
<1>2. \A s \in Runtimes \ {r} : mu'[s] = mu[s]
  BY <1>0 DEF SaveStep, SaveWrites, SaveIsUpToDate, SaveConflicts, WriteLog, WriteAnchor, Record, Retry, Adopt,
     Recover, ForceSave, Fork, WriteFails, Leave
<1>3. (\A s \in Runtimes \ {r} : mem'[s] = mem[s]) /\ mem'[r].up
  <2>1. CASE mem' = mem
    BY <1>0, <2>1
  <2>2. CASE SaveIsUpToDate(c) \/ Record(c)
    <3>1. PICK p, t, n, w : MarkPersisted(r, p, t, n, w)
      BY <2>2 DEF SaveIsUpToDate, Record
    <3>2. mem' = [mem EXCEPT ![r] = [mem[r] EXCEPT !.base = Base(p, t, n), !.path = p,
                                       !.saved = IF w > mem[r].saved THEN w ELSE mem[r].saved]]
      BY <1>0, <3>1 DEF MarkPersisted
    <3> QED BY <1>0, <3>2 DEF MemShape
  <2>3. CASE Adopt(c)
    <3>1. mem' = [mem EXCEPT ![r] = Loaded(call[c].path)]
      BY <2>3 DEF Adopt
    <3>2. Loaded(call[c].path).up
      BY DEF Loaded
    <3> QED BY <1>0, <3>1, <3>2
  <2> QED BY <2>1, <2>2, <2>3 DEF SaveStep, SaveWrites, SaveConflicts, WriteLog, WriteAnchor, Retry, Recover,
     ForceSave, Fork, WriteFails
<1>4. \A d \in Saves \ {c} : \A q : Holder(locked, q) = d => Holder(locked', q) = d
  <2> TAKE d \in Saves \ {c}
  <2> TAKE q
  <2> HAVE Holder(locked, q) = d
  <2>0. d # Idle /\ d # c /\ q \in DOMAIN locked /\ locked[q] = d
    BY SaveAssumption DEF Holder
  <2>1. CASE locked' = locked
    BY <2>0, <2>1 DEF Holder
  <2>2. CASE \E p : Holder(locked, p) = Idle /\ locked' = Put(locked, p, c)
    BY <2>0, <2>2 DEF Holder, Put
  <2>3. CASE ReleaseLocks(c)
    BY <2>0, <2>3 DEF Holder, ReleaseLocks
  <2>4. SaveWrites(c) \/ ForceSave(c) \/ Fork(c) => <2>2!1
    BY DEF SaveWrites, ForceSave, Fork, Locks, Captures
  <2> QED BY <2>1, <2>2, <2>3, <2>4 DEF SaveStep, SaveIsUpToDate, SaveConflicts, WriteLog, WriteAnchor, Record,
     Retry, Adopt, Recover, WriteFails
<1> QED BY <1>1, <1>2, <1>3, <1>4

(***************************************************************************)
(* The step of one save keeps what the others rely on.                     *)
(***************************************************************************)
LEMMA OthersKeep ==
  ASSUME SaveInv, NEW c \in Saves, SaveStep(c), Shapes', NEW d \in Saves \ {c}
  PROVE  CallOK(d)' /\ WriteOK(d)' /\ DropOK(d)' /\ ForkOK(d)'
<1> DEFINE k == call[d]
<1>0. /\ call'[d] = k /\ k \in CallShape /\ k.path \in Path
      /\ call[c].on \in Runtimes /\ mu[call[c].on] = c /\ c # d
  BY OthersStay, StepIsInside, CallIsOne DEF SaveInv, Shapes, CallShape
<1>1. CallOK(d) /\ WriteOK(d) /\ DropOK(d) /\ ForkOK(d)
  BY DEF SaveInv, CallsOK, WritesOK, DropsOK, ForksOK
<1>2. k.pc \in Inside => k.on # call[c].on
  BY <1>0, <1>1 DEF CallOK
<1>3. k.pc \notin {"new", "done"} => mem'[k.on].up
  BY <1>1, OthersStay DEF CallOK
<1>4. k.pc \in Inside => k.on \in Runtimes /\ mem'[k.on] = mem[k.on] /\ mu'[k.on] = d
  <2>1. k.pc \in Inside => k.on \in Runtimes /\ mu[k.on] = d
    BY <1>1 DEF CallOK, Inside, Writing
  <2> QED BY <1>2, <2>1, OthersStay
<1>5. k.pc \in Inside /\ ~(k.pc \in Writing /\ k.shape = "fork") => Exists(k.path)'
  BY <1>0, <1>1, DiskKeeps DEF CallOK
<1>6. k.pc \in Writing => Holder(locked', k.path) = d /\ File(k.path)' = File(k.path)
  BY <1>0, <1>1, DiskKeeps, OthersStay DEF CallOK
<1>7. CallOK(d)'
  <2>1. Writing \subseteq Inside /\ "fork" \in Inside
    BY DEF Inside
  <2>2. k.pc \in Writing \cup {"fork"} => k.cap # <<>> /\ k.rw <= mem'[k.on].rw
    BY <1>1, <1>4, <2>1 DEF CallOK
  <2> QED BY <1>0, <1>1, <1>3, <1>4, <1>5, <1>6, <2>2 DEF CallOK, Exists, File
<1>8. WriteOK(d)'
  <2>1. CASE k.pc \in Writing
    BY <1>0, <1>1, <1>6, <2>1 DEF WriteOK, Refork, Writing, File, Stored
  <2>2. CASE k.pc \notin Writing
    BY <1>0, <2>2 DEF WriteOK, Writing
  <2> QED BY <2>1, <2>2
<1>9. DropOK(d)' /\ ForkOK(d)'
  BY <1>0, <1>1 DEF DropOK, ForkOK, IsRewrite, Overwrites, Refork, Gone
<1> QED BY <1>7, <1>8, <1>9

\* A call that writes is on a file that exists, but for a fork on a new one; a
\* call that looked at the disk found its file.
LEMMA RecordFinds ==
  ASSUME SaveInv, NEW c \in Saves, call[c].pc = "record"
  PROVE  Exists(call[c].path)
<1>1. call[c].cap # <<>>
  BY DEF SaveInv, CallsOK, CallOK, Writing
<1>2. Stored(File(call[c].path)) = call[c].cap \/ (Refork(c) /\ Stored(File(call[c].path)) = call[c].was)
  BY DEF SaveInv, WritesOK, WriteOK
<1> QED BY <1>1, <1>2 DEF Exists, Refork

\* A save that found the file up to date saves what the file holds.
LEMMA UpToDateIsStored ==
  ASSUME NEW p, NEW t, UpToDate(p, t)
  PROVE  Stored(File(p)) = t /\ Exists(p)
BY DEF UpToDate, RepairPending, Exists, Fresh

\* What becomes the baseline of a runtime is on a path that has a file, and it
\* is kept.
LEMMA BaselineIsKept ==
  ASSUME SaveInv, NEW c \in Saves, SaveIsUpToDate(c) \/ Record(c)
  PROVE  \E t \in Transcript, n \in Nat, w \in Nat :
           /\ MarkPersisted(call[c].on, call[c].path, t, n, w)
           /\ w <= mem[call[c].on].rw
           /\ Exists(call[c].path)
           /\ Real(MessagesOf(t)) \subseteq Kept
<1> DEFINE k == call[c]  p == k.path  f == File(p)  r == k.on
<1>0. /\ k \in CallShape /\ p \in Path /\ k.cap \in Transcript /\ f \in FileShape
      /\ mem[r] \in MemShape /\ mem[r].msgs \in Transcript
  BY StepIsInside, CallIsOne DEF SaveInv, SaveStep
<1>1. \A t : Stored(f) = t /\ Exists(p) => Real(MessagesOf(t)) \subseteq Kept
  <2> SUFFICES ASSUME Exists(p) PROVE Real(MessagesOf(Stored(f))) \subseteq Kept
    OBVIOUS
  <2>1. p \in DOMAIN disk /\ f = disk[p]
    BY DEF Exists, File, NoFile, Stored
  <2> QED BY <2>1 DEF Kept, OnDisk, Real
<1>2. CASE SaveIsUpToDate(c)
  <2>1. UpToDate(p, mem[r].msgs) /\ MarkPersisted(r, p, mem[r].msgs, f.rev, mem[r].rw)
    BY <1>2 DEF SaveIsUpToDate
  <2>2. Stored(f) = mem[r].msgs /\ Exists(p)
    BY <2>1, UpToDateIsStored
  <2>3. Real(MessagesOf(mem[r].msgs)) \subseteq Kept
    BY <1>1, <2>2
  <2>4. f.rev \in Nat /\ mem[r].rw \in Nat /\ mem[r].rw <= mem[r].rw
    BY <1>0 DEF FileShape, MemShape
  <2> QED BY <1>0, <2>1, <2>2, <2>3, <2>4
<1>3. CASE Record(c)
  <2>1. k.pc = "record" /\ MarkPersisted(r, p, k.cap, Recorded(c).rev, k.rw)
    BY <1>3 DEF Record
  <2>2. k.pc \in Writing /\ k.cap # <<>> /\ k.rw <= mem[r].rw
    BY <2>1 DEF SaveInv, CallsOK, CallOK, Writing
  <2>3. Recorded(c).rev \in Nat /\ k.rw \in Nat
    BY <1>0, <2>2, RecordedIsOne DEF SaveInv, FileShape, CallShape
  <2>4. Exists(p)
    BY <2>1, RecordFinds
  <2>5. Real(MessagesOf(k.cap)) \subseteq Kept
    <3>1. CASE Stored(f) = k.cap
      BY <1>1, <2>4, <3>1
    <3>2. CASE Refork(c)
      <4>1. k.shape = "fork"
        BY <3>2 DEF Refork
      <4>2. p # <<>> /\ Last(p) = k.cap
        BY <2>2, <4>1 DEF SaveInv, ForksOK, ForkOK
      <4>3. p \in DOMAIN disk /\ Stored(disk[p]) # <<>>
        BY <2>4 DEF Exists, File, NoFile, Stored
      <4> QED BY <4>2, <4>3 DEF SaveInv, BranchesOK
    <3> QED BY <2>1, <3>1, <3>2 DEF SaveInv, WritesOK, WriteOK
  <2> QED BY <1>0, <2>1, <2>2, <2>3, <2>4, <2>5
<1> QED BY <1>2, <1>3

LEMMA SavingKeepsRuntimes ==
  ASSUME SaveInv, NEW c \in Saves, SaveStep(c), Shapes'
  PROVE  RuntimesOK'
<1> DEFINE r == call[c].on  p == call[c].path
           Sound(s) == /\ mem'[s].msgs # <<>> /\ mem'[s].saved <= mem'[s].rw
                       /\ \E q \in Path : q = mem'[s].path /\ Exists(q)'
<1>0. /\ r \in Runtimes /\ mem[r] \in MemShape /\ p \in Path /\ mem[r].up
      /\ mem \in [Runtimes -> MemShape]
  BY StepIsInside, CallIsOne DEF SaveInv, Shapes
<1>1. ASSUME NEW s \in Runtimes, mem[s].up, mem'[s] = mem[s]
      PROVE  Sound(s)
  <2>1. mem[s].msgs # <<>> /\ mem[s].saved <= mem[s].rw /\ Exists(mem[s].path) /\ mem[s].path \in Path
    BY <1>0, <1>1 DEF SaveInv, RuntimesOK, MemShape
  <2> QED BY <1>1, <2>1, DiskKeeps
<1>2. Sound(r)
  <2>1. CASE mem' = mem
    BY <1>0, <1>1, <2>1
  <2>2. CASE SaveIsUpToDate(c) \/ Record(c)
    <3>1. PICK t \in Transcript, n \in Nat, w \in Nat :
            MarkPersisted(r, p, t, n, w) /\ w <= mem[r].rw /\ Exists(p)
      BY <2>2, BaselineIsKept
    <3>2. mem'[r] = [mem[r] EXCEPT !.base = Base(p, t, n), !.path = p,
                                   !.saved = IF w > mem[r].saved THEN w ELSE mem[r].saved]
      BY <1>0, <3>1 DEF MarkPersisted
    <3>3. /\ mem'[r].msgs = mem[r].msgs /\ mem'[r].rw = mem[r].rw /\ mem'[r].path = p
          /\ mem'[r].saved \in {w, mem[r].saved}
      BY <1>0, <3>2 DEF MemShape
    <3>4. mem[r].msgs # <<>> /\ mem[r].saved <= mem[r].rw
      BY <1>0 DEF SaveInv, RuntimesOK
    <3>5. \E q \in Path : q = p /\ Exists(q)'
      BY <1>0, <3>1, DiskKeeps
    <3> QED BY <1>0, <3>1, <3>3, <3>4, <3>5
  <2>3. CASE Adopt(c)
    <3>1. mem' = [mem EXCEPT ![r] = Loaded(p)] /\ call[c].pc \in {"adopt", "conflict"}
      BY <2>3 DEF Adopt, GivesUp
    <3>2. Exists(p)
      BY <3>1 DEF SaveInv, CallsOK, CallOK, Inside, Writing
    <3>3. mem'[r] = Loaded(p)
      BY <1>0, <3>1
    <3>4. /\ mem'[r].msgs # <<>> /\ mem'[r].saved = 0 /\ mem'[r].rw = 0 /\ mem'[r].path = p
      BY <1>0, <3>2, <3>3, LoadIsOne DEF SaveInv
    <3>5. \E q \in Path : q = p /\ Exists(q)'
      BY <1>0, <3>2, DiskKeeps
    <3> QED BY <1>0, <3>4, <3>5
  <2> QED BY <2>1, <2>2, <2>3 DEF SaveStep, SaveWrites, SaveConflicts, WriteLog, WriteAnchor, Retry, Recover,
     ForceSave, Fork, WriteFails
<1> SUFFICES ASSUME NEW s \in Runtimes, mem'[s].up
             PROVE  Sound(s)
  BY DEF RuntimesOK, Exists, File
<1>3. CASE s = r
  BY <1>2, <1>3
<1>4. CASE s # r
  <2>1. mem'[s] = mem[s] /\ mem[s].up
    BY <1>4, OthersStay
  <2> QED BY <1>1, <2>1
<1> QED BY <1>3, <1>4

LEMMA SavingKeepsBranches ==
  ASSUME SaveInv, NEW c \in Saves, SaveStep(c), Shapes'
  PROVE  BranchesOK'
<1> DEFINE k == call[c]  p == k.path
<1>0. p \in Path /\ k.pc \in Inside
  BY StepIsInside, CallIsOne DEF SaveInv
<1>1. \A S : Real(Real(S)) = Real(S)
  BY DEF Real
<1>2. ASSUME NEW q \in DOMAIN disk, q # <<>>, Stored(disk[q]) # <<>>
      PROVE  Real(MessagesOf(Last(q))) \subseteq Kept'
  <2>1. Real(MessagesOf(Last(q))) \subseteq Kept
    BY <1>2 DEF SaveInv, BranchesOK
  <2> QED BY <1>1, <2>1, DiskKeeps
<1>3. CASE disk' = disk
  BY <1>2, <1>3 DEF BranchesOK
<1>4. CASE disk' # disk
  <2>1. PICK g \in FileShape : disk' = Put(disk, p, g) /\ Succeeds(c, File(p), g)
    BY <1>4, DiskMoves
  <2>2. /\ DOMAIN disk' = DOMAIN disk \cup {p}
        /\ \A q \in DOMAIN disk' : disk'[q] = IF q = p THEN g ELSE disk[q]
    BY <1>0, <2>1, PutFile DEF SaveInv
  <2>3. ASSUME p # <<>>, Stored(g) # <<>> PROVE Real(MessagesOf(Last(p))) \subseteq Kept'
    <3>1. CASE Exists(p)
      <4>1. p \in DOMAIN disk /\ Stored(disk[p]) # <<>>
        BY <3>1 DEF Exists, File, NoFile, Stored
      <4> QED BY <1>2, <2>3, <4>1
    <3>2. CASE ~Exists(p)
      <4>1. k.pc \in Writing /\ k.shape = "fork"
        BY <1>0, <3>2 DEF SaveInv, CallsOK, CallOK
      <4>2. Last(p) = k.cap
        BY <4>1 DEF SaveInv, ForksOK, ForkOK
      <4>3. Stored(g) = k.cap
        BY <2>1, <2>3, <3>2 DEF Succeeds, Exists
      <4>4. p \in DOMAIN disk' /\ disk'[p] = g
        BY <2>2
      <4>5. MessagesOf(k.cap) \subseteq Kept'
        BY <4>3, <4>4 DEF Kept, OnDisk
      <4> QED BY <4>2, <4>5 DEF Real
    <3> QED BY <3>1, <3>2
  <2>4. ASSUME NEW q \in DOMAIN disk', q # <<>>, Stored(disk'[q]) # <<>>
        PROVE  Real(MessagesOf(Last(q))) \subseteq Kept'
    BY <1>2, <2>2, <2>3, <2>4
  <2> QED BY <2>4 DEF BranchesOK
<1> QED BY <1>3, <1>4

LEMMA SavingKeepsMessages ==
  ASSUME SaveInv, NEW c \in Saves, SaveStep(c), Shapes'
  PROVE  NothingSavedIsLost'
<1>1. \A S : Real(Real(S)) = Real(S)
  BY DEF Real
<1>2. \A S, T : Real(S \cup T) = Real(S) \cup Real(T)
  BY DEF Real
<1>3. Real(acked) \subseteq Kept
  BY DEF SaveInv, NothingSavedIsLost, Kept
<1>4. Real(acked') \subseteq Kept
  <2>1. CASE SaveIsUpToDate(c) \/ Record(c)
    <3>1. PICK t \in Transcript, n \in Nat, w \in Nat :
            /\ MarkPersisted(call[c].on, call[c].path, t, n, w)
            /\ Real(MessagesOf(t)) \subseteq Kept
      BY <2>1, BaselineIsKept
    <3>2. acked' = acked \cup MessagesOf(t)
      BY <3>1 DEF MarkPersisted
    <3> QED BY <1>2, <1>3, <3>1, <3>2
  <2>2. CASE acked' = acked
    BY <1>3, <2>2
  <2> QED BY <2>1, <2>2 DEF SaveStep, SaveWrites, SaveConflicts, WriteLog, WriteAnchor, Retry, Adopt, Recover,
     ForceSave, Fork, WriteFails
<1>5. Real(acked') \subseteq Kept'
  BY <1>1, <1>4, DiskKeeps
<1> QED BY <1>5 DEF NothingSavedIsLost, Kept

\* What a save may remove is a rewrite's.
LEMMA AllowedDrops ==
  ASSUME SaveInv, NEW c \in Saves, call[c].pc = "lock", Allowed(c),
         ~(call[c].mode = "rewrite" /\ ~AppendShaped(File(call[c].path), mem[call[c].on].msgs))
  PROVE  MessagesOf(Stored(File(call[c].path))) \subseteq MessagesOf(mem[call[c].on].msgs)
<1> DEFINE f == File(call[c].path)  next == mem[call[c].on].msgs
<1>0. f \in FileShape /\ Stored(f) \in Transcript /\ next \in Transcript
  BY CallIsOne DEF SaveInv, Inside, Writing
<1>1. CASE Fresh(call[c].path)
  BY <1>1 DEF Fresh, MessagesOf
<1>2. CASE AppendShaped(f, next)
  <2>1. View(f, next) \in {Normalize(Stored(f)), Stored(f)}
    BY DEF View
  <2>2. Normalize(Stored(f)) \in Transcript /\ MessagesOf(Stored(f)) \subseteq MessagesOf(Normalize(Stored(f)))
    BY <1>0, NormalizeKeeps
  <2>3. View(f, next) \in Transcript /\ IsPrefix(View(f, next), next)
    BY <1>0, <1>2, <2>1, <2>2 DEF AppendShaped
  <2>4. MessagesOf(View(f, next)) \subseteq MessagesOf(next)
    BY <1>0, <2>3, PrefixKeeps
  <2> QED BY <2>1, <2>2, <2>4
<1>3. Fresh(call[c].path) \/ AppendShaped(f, next)
  BY DEF Allowed, MayAppend, MayRewrite
<1> QED BY <1>1, <1>2, <1>3

\* A capture under the locks of a path.
LEMMA CaptureKeeps ==
  ASSUME SaveInv, NEW c \in Saves, SaveStep(c), Shapes',
         NEW s \in {"append", "compact", "heal", "replace", "force"}, Captures(c, call[c].path, s),
         mem' = mem, mu' = mu, call[c].pc \in {"lock", "force"},
         disk' = Put(disk, call[c].path, Repaired(File(call[c].path))),
         s = "append" => ~File(call[c].path).foreign,
         s = "heal" => Stored(File(call[c].path)) = mem[call[c].on].msgs,
         \/ s = "force"
         \/ s = "replace" /\ call[c].mode = "rewrite"
         \/ MessagesOf(Stored(File(call[c].path))) \subseteq MessagesOf(mem[call[c].on].msgs)
  PROVE  CallOK(c)' /\ WriteOK(c)' /\ DropOK(c)' /\ ForkOK(c)'
<1> DEFINE k == call[c]  p == k.path  f == File(p)  r == k.on  next == mem[r].msgs  j == call'[c]
<1>0. /\ k \in CallShape /\ r \in Runtimes /\ p \in Path /\ next \in Transcript /\ f \in FileShape
      /\ mem[r].up /\ mu[r] = c /\ mem[r] \in MemShape /\ call \in [Saves -> CallShape]
  BY StepIsInside, CallIsOne DEF SaveInv, Shapes
<1>1. j = [k EXCEPT !.pc = IF s = "heal" THEN "record" ELSE "log", !.cap = next, !.rw = mem[r].rw,
                    !.rev = f.rev, !.shape = s, !.was = Stored(f)]
  BY <1>0 DEF Captures
<1>2. /\ j.pc = IF s = "heal" THEN "record" ELSE "log"
      /\ j.cap = next /\ j.rw = mem[r].rw /\ j.shape = s /\ j.was = Stored(f)
      /\ j.on = r /\ j.path = p /\ j.mode = k.mode /\ j.end = k.end /\ j.op = k.op
  BY <1>0, <1>1 DEF CallShape
<1>3. next # <<>> /\ mem[r].rw \in Nat
  BY <1>0 DEF SaveInv, RuntimesOK, MemShape
<1>4. k.end = "none" /\ Exists(p)
  BY DEF SaveInv, CallsOK, CallOK, Inside, Writing
<1>5. Holder(locked', p) = c
  BY DEF Captures, Put, Holder
<1>6. \E q \in Path : q = p /\ Exists(q)' /\ File(q)' = Repaired(f)
  <2>1. PICK g \in FileShape : g = Repaired(f) /\ disk' = Put(disk, p, g)
    BY <1>0, RepairIsOne
  <2>2. \A q : File(q)' = IF q = p THEN g ELSE File(q)
    <3>1. Shapes /\ p \in Path /\ disk' = Put(disk, p, g)
      BY <1>0, <2>1 DEF SaveInv
    <3> QED BY <3>1, PutFile
  <2>3. \A q \in Path : Exists(q) => Exists(q)'
    BY DiskKeeps
  <2> QED BY <1>0, <1>4, <2>1, <2>2, <2>3
<1>7. PICK q \in Path : q = p /\ Exists(q)' /\ File(q)' = Repaired(f)
  BY <1>6
<1>8. Stored(Repaired(f)) = Stored(f) /\ ~Repaired(f).torn /\ Repaired(f).foreign = f.foreign
  BY <1>0, RepairIsOne
<1>9. CallOK(c)'
  <2>1. j.rw <= mem'[j.on].rw
    BY <1>2, <1>3
  <2>2. j.pc # "done" /\ j.pc # "fork" /\ j.shape # "fork" /\ j.pc # "enter"
    BY <1>2
  <2> QED BY <1>0, <1>2, <1>3, <1>4, <1>5, <1>7, <2>1, <2>2 DEF CallOK, Exists, File
<1>10. WriteOK(c)'
  BY <1>2, <1>7, <1>8 DEF WriteOK, File, Stored
<1>11. DropOK(c)'
  <2>1. CASE MessagesOf(Stored(f)) \subseteq MessagesOf(next)
    BY <1>2, <2>1 DEF DropOK, Gone, Real
  <2>2. CASE s = "force" \/ (s = "replace" /\ k.mode = "rewrite")
    BY <1>2, <2>2 DEF DropOK, Overwrites, IsRewrite
  <2> QED BY <2>1, <2>2
<1>12. ForkOK(c)'
  BY <1>2 DEF ForkOK
<1> QED BY <1>9, <1>10, <1>11, <1>12

\* What the call of a step relies on.
LEMMA CallerKeeps ==
  ASSUME SaveInv, NEW c \in Saves, SaveStep(c), Shapes'
  PROVE  CallOK(c)' /\ WriteOK(c)' /\ DropOK(c)' /\ ForkOK(c)'
<1> DEFINE k == call[c]  p == k.path  f == File(p)  r == k.on  next == mem[r].msgs  j == call'[c]
<1>0. /\ k \in CallShape /\ r \in Runtimes /\ p \in Path /\ next \in Transcript /\ f \in FileShape
      /\ mem[r].up /\ mu[r] = c /\ mem[r] \in MemShape /\ call \in [Saves -> CallShape]
      /\ k.cap \in Transcript /\ k.was \in Transcript /\ Stored(f) \in Transcript
      /\ mem[r].rw \in Nat /\ next # <<>>
  BY StepIsInside, CallIsOne DEF SaveInv, Shapes, RuntimesOK, MemShape
<1>1. CallOK(c) /\ WriteOK(c) /\ DropOK(c) /\ ForkOK(c) /\ k.pc \in Inside
  BY StepIsInside DEF SaveInv, CallsOK, WritesOK, DropsOK, ForksOK
<1>2. \A q \in Path : Exists(q) => Exists(q)'
  BY DiskKeeps
<1>3. CASE SaveIsUpToDate(c) \/ Record(c) \/ Adopt(c) \/ WriteFails(c)
  <2>1. PICK how \in {"saved", "forked", "failed", "adopted"} : Leave(c, how)
    BY <1>3 DEF SaveIsUpToDate, Record, Adopt, WriteFails
  <2>2. j.pc = "done"
    BY <1>0, <2>1, EndedIsOne DEF Leave
  <2> QED BY <2>2 DEF CallOK, WriteOK, DropOK, ForkOK, Inside, Writing
<1>4. CASE SaveWrites(c)
  <2>1. /\ k.pc = "lock" /\ disk' = Put(disk, p, Repaired(f)) /\ Allowed(c) /\ mem' = mem /\ mu' = mu
    BY <1>4 DEF SaveWrites, Locks
  <2>2. CASE UpToDate(p, next) /\ Captures(c, p, "heal")
    <3>1. Stored(f) = next
      BY <2>2, UpToDateIsStored
    <3> QED BY <1>4, <2>1, <2>2, <3>1, CaptureKeeps DEF SaveStep
  <2>3. CASE /\ AppendShaped(f, next) /\ ~f.foreign
             /\ \E s \in {"append", "compact"} : Captures(c, p, s)
    <3>1. MessagesOf(Stored(f)) \subseteq MessagesOf(next)
      BY <2>1, <2>3, AllowedDrops
    <3> QED BY <1>4, <2>1, <2>3, <3>1, CaptureKeeps DEF SaveStep
  <2>4. CASE Captures(c, p, "replace")
    <3>1. k.mode = "rewrite" \/ MessagesOf(Stored(f)) \subseteq MessagesOf(next)
      BY <2>1, AllowedDrops
    <3> QED BY <1>4, <2>1, <2>4, <3>1, CaptureKeeps DEF SaveStep
  <2> QED BY <1>4, <2>2, <2>3, <2>4 DEF SaveWrites
<1>5. CASE ForceSave(c)
  <2>1. /\ k.pc = "force" /\ disk' = Put(disk, p, Repaired(f)) /\ mem' = mem /\ mu' = mu /\ Captures(c, p, "force")
    BY <1>5 DEF ForceSave
  <2> QED BY <1>5, <2>1, CaptureKeeps DEF SaveStep
<1>6. CASE SaveConflicts(c) \/ Retry(c)
  <2>1. /\ k.pc \in {"lock", "conflict"} /\ mem' = mem /\ mu' = mu
        /\ j.pc \in {"lock", "conflict"} /\ j.on = r /\ j.path = p /\ j.end = k.end
    <3>1. CASE SaveConflicts(c)
      BY <1>0, <3>1 DEF SaveConflicts, Locks, CallShape
    <3>2. CASE Retry(c)
      BY <1>0, <3>2 DEF Retry, CallShape
    <3> QED BY <1>6, <3>1, <3>2
  <2>2. \E q \in Path : q = p /\ Exists(q)'
    BY <1>0, <1>1, <1>2, <2>1 DEF CallOK, Writing
  <2> QED BY <1>0, <1>1, <2>1, <2>2 DEF CallOK, WriteOK, DropOK, ForkOK, Inside, Writing, Exists, File
<1>7. CASE Recover(c)
  <2>1. /\ k.pc = "conflict" /\ mem' = mem /\ mu' = mu
        /\ j.pc \in {"adopt", "force", "fork"} /\ j.on = r /\ j.path = p /\ j.end = k.end
        /\ j.cap = next /\ j.rw = mem[r].rw /\ j.depth = f.depth + 1
        /\ j.pc = "fork" => ~(f.depth >= MaxDepth)
    BY <1>0, <1>7 DEF Recover, GivesUp, CallShape
  <2>2. \E q \in Path : q = p /\ Exists(q)'
    BY <1>0, <1>1, <1>2, <2>1 DEF CallOK, Writing
  <2>3. f.depth \in 0..MaxDepth
    BY <1>0 DEF FileShape
  <2>4. j.pc = "fork" => j.depth <= MaxDepth
    BY <2>1, <2>3, SaveAssumption
  <2>5. j.rw <= mem'[j.on].rw
    BY <1>0, <2>1
  <2> QED BY <1>0, <1>1, <2>1, <2>2, <2>4, <2>5 DEF CallOK, WriteOK, DropOK, ForkOK, Inside, Writing, Exists, File
<1>8. CASE WriteLog(c)
  <2>1. /\ k.pc = "log" /\ disk' = Put(disk, p, Logged(c)) /\ mem' = mem /\ mu' = mu /\ locked' = locked
        /\ j = [k EXCEPT !.pc = IF k.shape = "append" THEN "record" ELSE "anchor"]
    BY <1>0, <1>8 DEF WriteLog, MoveTo
  <2>2. /\ j.pc = IF k.shape = "append" THEN "record" ELSE "anchor"
        /\ j.on = r /\ j.path = p /\ j.end = k.end /\ j.cap = k.cap /\ j.rw = k.rw /\ j.op = k.op
        /\ j.shape = k.shape /\ j.was = k.was /\ j.mode = k.mode /\ j.depth = k.depth
    BY <1>0, <2>1 DEF CallShape
  <2>3. /\ Logged(c) \in FileShape /\ Logged(c).anchor = f.anchor
        /\ IF Skips(c) \/ (f.torn /\ ~Atomic(c)) THEN Logged(c) = f ELSE Logged(c).log = k.cap
    BY <1>1, LoggedIsOne DEF SaveInv
  <2>4. PICK q \in Path, g \in FileShape : q = p /\ g = Logged(c) /\ File(q)' = g
    <3>1. PICK g \in FileShape : g = Logged(c) /\ disk' = Put(disk, p, g)
      BY <2>1, <2>3
    <3>2. Shapes /\ p \in Path /\ disk' = Put(disk, p, g)
      BY <1>0, <3>1 DEF SaveInv
    <3>3. \A q : File(q)' = IF q = p THEN g ELSE File(q)
      BY <3>2, PutFile
    <3> QED BY <1>0, <3>1, <3>3
  <2>5. k.shape # "fork" => Exists(p)
    BY <1>1, <2>1 DEF CallOK
  <2>6. k.shape # "fork" => Exists(q)'
    BY <1>0, <1>2, <2>4, <2>5
  <2>7. CallOK(c)'
    BY <1>0, <1>1, <2>1, <2>2, <2>4, <2>6 DEF CallOK, Inside, Writing, Exists, File
  <2>8. DropOK(c)' /\ ForkOK(c)'
    BY <1>1, <2>1, <2>2 DEF DropOK, ForkOK, IsRewrite, Overwrites, Refork, Gone, Writing
  <2>9. WriteOK(c)'
    <3>0. /\ Stored(f) = k.was /\ k.shape # "heal" /\ (k.shape # "fork" => ~f.torn)
          /\ (k.shape = "append" => ~f.foreign) /\ k.cap # <<>>
          /\ (f.torn => f.log # <<>>) /\ (f.foreign => f.log = <<>>)
      BY <1>0, <1>1, <2>1, FileIsOne DEF WriteOK, CallOK, Writing, SaveInv
    <3>1. CASE ~(Skips(c) \/ (f.torn /\ ~Atomic(c)))
      <4>1. g.log = k.cap /\ Stored(g) = k.cap
        BY <2>3, <2>4, <3>0, <3>1 DEF Stored
      <4> QED BY <2>2, <2>4, <3>0, <4>1 DEF WriteOK, File, Stored
    <3>2. CASE Skips(c)
      <4>1. g = f /\ f.log = <<>> /\ k.shape # "append"
        BY <2>3, <2>4, <3>0, <3>2 DEF Skips
      <4> QED BY <2>2, <2>4, <3>0, <4>1 DEF WriteOK, File, Stored
    <3>3. CASE f.torn /\ ~Atomic(c) /\ ~Skips(c)
      <4>1. g = f /\ f.log # <<>> /\ k.shape = "fork" /\ f.log = k.was /\ k.was # <<>>
        BY <2>3, <2>4, <3>0, <3>3 DEF Stored
      <4> QED BY <2>2, <2>4, <3>0, <4>1 DEF WriteOK, File, Stored, Refork
    <3> QED BY <3>1, <3>2, <3>3
  <2> QED BY <2>7, <2>8, <2>9
<1>9. CASE WriteAnchor(c)
  <2>1. /\ k.pc = "anchor" /\ disk' = Put(disk, p, [f EXCEPT !.anchor = k.cap])
        /\ mem' = mem /\ mu' = mu /\ locked' = locked
        /\ j = [k EXCEPT !.pc = "record"]
    BY <1>0, <1>9 DEF WriteAnchor, MoveTo
  <2>2. /\ j.pc = "record"
        /\ j.on = r /\ j.path = p /\ j.end = k.end /\ j.cap = k.cap /\ j.rw = k.rw /\ j.op = k.op
        /\ j.shape = k.shape /\ j.was = k.was /\ j.mode = k.mode /\ j.depth = k.depth
    BY <1>0, <2>1 DEF CallShape
  <2>3. PICK g \in FileShape : /\ g = [f EXCEPT !.anchor = k.cap] /\ g.anchor = k.cap /\ g.log = f.log
                              /\ disk' = Put(disk, p, g)
    BY <1>0, <2>1 DEF FileShape
  <2>4. PICK q \in Path : q = p /\ File(q)' = g
    <3>1. Shapes /\ p \in Path /\ disk' = Put(disk, p, g)
      BY <1>0, <2>3 DEF SaveInv
    <3>2. \A q : File(q)' = IF q = p THEN g ELSE File(q)
      BY <3>1, PutFile
    <3> QED BY <1>0, <3>2
  <2>5. k.shape # "fork" => Exists(p)
    BY <1>1, <2>1 DEF CallOK
  <2>6. k.shape # "fork" => Exists(q)'
    BY <1>0, <1>2, <2>4, <2>5
  <2>7. CallOK(c)'
    BY <1>0, <1>1, <2>1, <2>2, <2>4, <2>6 DEF CallOK, Inside, Writing, Exists, File
  <2>8. DropOK(c)' /\ ForkOK(c)'
    BY <1>1, <2>1, <2>2 DEF DropOK, ForkOK, Writing
  <2>9. WriteOK(c)'
    <3>1. k.cap # <<>> /\ (f.log \in {<<>>, k.cap} \/ (Refork(c) /\ f.log = k.was))
      BY <1>1, <2>1 DEF CallOK, WriteOK, Writing
    <3>2. Stored(g) = k.cap \/ (Refork(c) /\ Stored(g) = k.was)
      BY <2>3, <3>1 DEF Stored, Refork
    <3> QED BY <2>2, <2>4, <3>2 DEF WriteOK, File, Stored, Refork
  <2> QED BY <2>7, <2>8, <2>9
<1>10. CASE Fork(c)
  <2> DEFINE q == Append(p, k.cap)
  <2>1. /\ k.pc = "fork" /\ locked' = Put(locked, q, c) /\ disk' = disk /\ mem' = mem /\ mu' = mu
        /\ j = [k EXCEPT !.path = q, !.shape = "fork", !.was = Stored(File(q)),
                         !.pc = IF Normalize(Stored(File(q))) = k.cap THEN "record" ELSE "log"]
    BY <1>0, <1>10 DEF Fork
  <2>2. /\ j.pc = IF Normalize(Stored(File(q))) = k.cap THEN "record" ELSE "log"
        /\ j.on = r /\ j.path = q /\ j.end = k.end /\ j.cap = k.cap /\ j.rw = k.rw
        /\ j.shape = "fork" /\ j.was = Stored(File(q)) /\ j.depth = k.depth
    BY <1>0, <2>1 DEF CallShape
  <2>3. q \in Path /\ q # <<>> /\ Last(q) = k.cap /\ Stored(File(q)) \in Transcript
    BY <1>0, PathGrows, FileIsOne DEF SaveInv
  <2>4. k.cap # <<>> /\ k.rw <= mem[r].rw /\ k.depth <= MaxDepth /\ k.end = "none"
    BY <1>1, <2>1 DEF CallOK
  <2>5. Holder(locked', q) = c
    BY <2>1 DEF Holder, Put
  <2>6. CallOK(c)'
    BY <1>0, <2>1, <2>2, <2>4, <2>5 DEF CallOK, Inside, Writing
  <2>7. DropOK(c)'
    BY <2>2 DEF DropOK, Overwrites, Refork, Gone, Real, MessagesOf
  <2>8. ForkOK(c)'
    BY <2>2, <2>3 DEF ForkOK
  <2>9. PICK x \in Path : x = q /\ File(x)' = File(x)
    BY <2>1, <2>3 DEF File
  <2>10. Normalize(Stored(File(q))) = k.cap => Stored(File(q)) # <<>>
    BY <2>3, <2>4, NormalizeKeeps
  <2>11. WriteOK(c)'
    BY <2>2, <2>9, <2>10 DEF WriteOK, File, Stored, Refork
  <2> QED BY <2>6, <2>7, <2>8, <2>11
<1> QED BY <1>3, <1>4, <1>5, <1>6, <1>7, <1>8, <1>9, <1>10 DEF SaveStep

(***************************************************************************)
(* Steps in memory, and a crash.                                           *)
(***************************************************************************)
\* What does not touch the disk and no call that writes keeps what is about them.
LEMMA DiskStays ==
  ASSUME SaveInv, UNCHANGED <<disk, acked, removed>>,
         \A c \in Saves : call'[c] = call[c] \/ call'[c].pc \notin Writing
  PROVE  LogsOK' /\ WritesOK' /\ DropsOK' /\ BranchesOK' /\ ForksOK' /\ NothingSavedIsLost'
<1>1. LogsOK' /\ BranchesOK' /\ NothingSavedIsLost'
  BY DEF SaveInv, LogsOK, BranchesOK, NothingSavedIsLost, Kept, OnDisk
<1>2. ASSUME NEW c \in Saves
      PROVE  WriteOK(c)' /\ DropOK(c)' /\ ForkOK(c)'
  <2>1. WriteOK(c) /\ DropOK(c) /\ ForkOK(c)
    BY DEF SaveInv, WritesOK, DropsOK, ForksOK
  <2>2. CASE call'[c] = call[c]
    BY <2>1, <2>2 DEF WriteOK, DropOK, ForkOK, Refork, IsRewrite, Overwrites, Gone, File
  <2>3. CASE call'[c].pc \notin Writing
    BY <2>3 DEF WriteOK, DropOK, ForkOK, Writing
  <2> QED BY <2>2, <2>3
<1> QED BY <1>1, <1>2 DEF WritesOK, DropsOK, ForksOK

\* A runtime that goes on, or starts on a file, with all its calls as they were.
LEMMA MemoryGrows ==
  ASSUME SaveInv, NEW r \in Runtimes, NEW m \in MemShape, mem' = [mem EXCEPT ![r] = m],
         UNCHANGED <<disk, mu, locked>>,
         m.up, m.msgs # <<>>, m.saved <= m.rw, Exists(m.path),
         mem[r].up => mem[r].rw <= m.rw,
         \A c \in Saves : \/ call'[c] = call[c]
                          \/ /\ call[c].pc = "new" /\ call'[c].pc = "enter" /\ call'[c].on = r
                             /\ call'[c].end = call[c].end
                             /\ call'[c].op = "strip" => call'[c].cap # <<>>
  PROVE  RuntimesOK' /\ CallsOK'
<1>0. mem \in [Runtimes -> MemShape] /\ call \in [Saves -> CallShape]
  BY DEF SaveInv, Shapes
<1>1. \A p : File(p)' = File(p)
  BY DEF File
<1>2. RuntimesOK'
  BY <1>0 DEF SaveInv, RuntimesOK, Exists, File
<1>3. ASSUME NEW c \in Saves PROVE CallOK(c)'
  <2>1. CallOK(c)
    BY DEF SaveInv, CallsOK
  <2>2. CASE call'[c] = call[c]
    <3>1. call[c].pc \notin {"new", "done"} => mem[call[c].on].up /\ call[c].on \in Runtimes
      BY <2>1 DEF CallOK
    <3>2. call[c].pc \notin {"new", "done"} => mem'[call[c].on].up /\ mem[call[c].on].rw <= mem'[call[c].on].rw
      <4>1. \A s \in Runtimes : mem[s].rw \in Nat
        BY <1>0 DEF MemShape
      <4> QED BY <1>0, <3>1, <4>1
    <3>3. call[c].pc \in Writing \cup {"fork"} => call[c].rw <= mem'[call[c].on].rw
      <4>1. call[c].pc \in Writing \cup {"fork"} =>
              /\ call[c].on \in Runtimes /\ call[c].rw <= mem[call[c].on].rw
              /\ mem[call[c].on].rw <= mem'[call[c].on].rw
        BY <2>1, <3>1, <3>2 DEF CallOK, Writing
      <4>2. /\ call[c].rw \in Nat
            /\ call[c].on \in Runtimes => mem[call[c].on].rw \in Nat /\ mem'[call[c].on].rw \in Nat
        BY <1>0 DEF CallShape, MemShape
      <4> QED BY <4>1, <4>2
    <3> QED BY <2>1, <2>2, <3>2, <3>3 DEF CallOK, Exists, File
  <2>3. CASE call'[c] # call[c]
    <3>1. /\ call[c].pc = "new" /\ call'[c].pc = "enter" /\ call'[c].on = r /\ call'[c].end = "none"
          /\ call'[c].op = "strip" => call'[c].cap # <<>>
      BY <2>1, <2>3 DEF CallOK
    <3>2. mem'[r].up
      BY <1>0
    <3> QED BY <3>1, <3>2 DEF CallOK, Inside, Writing
  <2> QED BY <2>2, <2>3
<1> QED BY <1>2, <1>3 DEF CallsOK

\* The messages of a runtime are replaced, and nothing else of it.
LEMMA MessagesChange ==
  ASSUME NEW m \in MemShape, NEW t \in Transcript
  PROVE  /\ [m EXCEPT !.msgs = t] \in MemShape
         /\ [m EXCEPT !.msgs = t].msgs = t /\ [m EXCEPT !.msgs = t].up = m.up
         /\ [m EXCEPT !.msgs = t].rw = m.rw /\ [m EXCEPT !.msgs = t].saved = m.saved
         /\ [m EXCEPT !.msgs = t].path = m.path
BY DEF MemShape

LEMMA MemoryKeeps ==
  ASSUME SaveInv, MemoryStep, Shapes'
  PROVE  SaveInv'
<1>0. /\ mem \in [Runtimes -> MemShape] /\ call \in [Saves -> CallShape]
      /\ \A r \in Runtimes : /\ mem[r].msgs \in Transcript /\ mem[r].rw \in Nat /\ mem[r].saved \in Nat
                             /\ mem[r].path \in Path
      /\ \A r \in Runtimes : mem[r].up => /\ mem[r].msgs # <<>> /\ mem[r].saved <= mem[r].rw
                                          /\ Exists(mem[r].path)
  BY DEF SaveInv, Shapes, MemShape, RuntimesOK
<1>a. ASSUME NEW r \in Runtimes, NEW t \in Transcript, t # <<>>, NEW n \in {0, 1}, Extends(r, t, n)
      PROVE  RuntimesOK' /\ CallsOK'
  <2> DEFINE m == [mem[r] EXCEPT !.msgs = t, !.rw = mem[r].rw + n]
  <2>1. mem' = [mem EXCEPT ![r] = m] /\ mem[r].up /\ UNCHANGED <<disk, mu, locked, call>>
    BY <1>0, <1>a DEF Extends
  <2>2. mem[r].rw + n \in Nat /\ mem[r].rw <= mem[r].rw + n /\ mem[r].saved <= mem[r].rw + n
    BY <1>0, <2>1
  <2>3. /\ m \in MemShape /\ m.up /\ m.msgs = t /\ m.rw = mem[r].rw + n /\ m.saved = mem[r].saved
        /\ m.path = mem[r].path
    BY <1>0, <2>1, <2>2 DEF MemShape
  <2> HIDE DEF m
  <2> QED BY <1>0, <1>a, <2>1, <2>2, <2>3, MemoryGrows
<1>b. ASSUME NEW c \in Saves, NEW r \in Runtimes, NEW t \in Transcript, NEW op \in {"snapshot", "rewind", "strip"},
             Begins(c, r, op, t), op = "strip" => t # <<>>,
             mem' = mem \/ \E k \in Boundaries(mem[r].msgs) : mem' = [mem EXCEPT ![r].msgs = SubSeq(@, 1, k)]
      PROVE  RuntimesOK' /\ CallsOK'
  <2>1. UNCHANGED <<disk, mu, locked>> /\ mem[r].up /\ call[c].pc = "new"
    BY <1>b DEF Begins
  <2>2. /\ call'[c].pc = "enter" /\ call'[c].on = r /\ call'[c].end = call[c].end
        /\ call'[c].op = op /\ call'[c].cap = t
    <3>1. call'[c] = [call[c] EXCEPT !.pc = "enter", !.on = r, !.op = op, !.cap = t]
      BY <1>0, <1>b DEF Begins
    <3> QED BY <1>0, <3>1 DEF CallShape
  <2>3. \A d \in Saves \ {c} : call'[d] = call[d]
    BY <1>0, <1>b DEF Begins
  <2>4. PICK m \in MemShape : /\ mem' = [mem EXCEPT ![r] = m] /\ m.up /\ m.msgs # <<>>
                              /\ m.rw = mem[r].rw /\ m.saved = mem[r].saved /\ m.path = mem[r].path
    <3>1. CASE mem' = mem
      <4>1. mem' = [mem EXCEPT ![r] = mem[r]]
        BY <1>0, <3>1
      <4> QED BY <1>0, <2>1, <4>1
    <3>2. CASE mem' # mem
      <4>1. PICK k \in Boundaries(mem[r].msgs) : mem' = [mem EXCEPT ![r].msgs = SubSeq(@, 1, k)]
        BY <1>b, <3>2
      <4>2. SubSeq(mem[r].msgs, 1, k) \in Transcript /\ SubSeq(mem[r].msgs, 1, k) # <<>>
        BY <1>0, CutIsOne
      <4>3. mem' = [mem EXCEPT ![r] = [mem[r] EXCEPT !.msgs = SubSeq(mem[r].msgs, 1, k)]]
        BY <1>0, <4>1
      <4>4. mem[r] \in MemShape
        BY <1>0
      <4> DEFINE m == [mem[r] EXCEPT !.msgs = SubSeq(mem[r].msgs, 1, k)]
      <4>5. /\ m \in MemShape /\ m.msgs = SubSeq(mem[r].msgs, 1, k) /\ m.up = mem[r].up /\ m.rw = mem[r].rw
            /\ m.saved = mem[r].saved /\ m.path = mem[r].path
        BY <4>2, <4>4, MessagesChange
      <4> QED BY <2>1, <4>2, <4>3, <4>5
    <3> QED BY <3>1, <3>2
  <2>5. mem[r].rw <= m.rw
    BY <1>0, <2>4
  <2>6. m.saved <= m.rw /\ Exists(m.path)
    BY <1>0, <2>1, <2>4
  <2>7. \A d \in Saves : \/ call'[d] = call[d]
                         \/ /\ call[d].pc = "new" /\ call'[d].pc = "enter" /\ call'[d].on = r
                            /\ call'[d].end = call[d].end
                            /\ call'[d].op = "strip" => call'[d].cap # <<>>
    BY <1>b, <2>1, <2>2, <2>3
  <2> QED BY <2>1, <2>4, <2>5, <2>6, <2>7, MemoryGrows
<1>1. ASSUME NEW r \in Runtimes, Add(r) PROVE RuntimesOK' /\ CallsOK'
  <2>1. CASE EndsInCall(mem[r].msgs)
    <3>1. <<"result", Last(mem[r].msgs)[2]>> \in Message
      BY <1>0, <2>1, LastIsOne DEF EndsInCall, Message, MessageKinds
    <3>2. Extends(r, Append(mem[r].msgs, <<"result", Last(mem[r].msgs)[2]>>), 0)
      BY <1>1, <2>1 DEF Add
    <3> QED BY <1>0, <1>a, <3>1, <3>2, AppendAdds
  <2>2. CASE ~EndsInCall(mem[r].msgs)
    <3>1. PICK k \in {"say", "call"} : Extends(r, Append(mem[r].msgs, <<k, made'>>), 0)
      BY <1>1, <2>2 DEF Add
    <3>2. <<k, made'>> \in Message
      BY <1>1, <2>2 DEF Add, SaveInv, Shapes, Message, MessageKinds
    <3> QED BY <1>0, <1>a, <3>1, <3>2, AppendAdds
  <2> QED BY <2>1, <2>2
<1>2. ASSUME NEW r \in Runtimes, Compact(r) PROVE RuntimesOK' /\ CallsOK'
  <2>1. made' \in Nat /\ mem[r].msgs # <<>>
    BY <1>0, <1>2 DEF Compact, SaveInv, Shapes, Transcript
  <2>2. <<"say", made'>> \in Message /\ Last(mem[r].msgs) \in Message
    BY <1>0, <2>1, LastIsOne DEF Message, MessageKinds
  <2>3. <<<<"say", made'>>, Last(mem[r].msgs)>> \in Transcript /\ <<<<"say", made'>>, Last(mem[r].msgs)>> # <<>>
    BY <2>2 DEF Transcript
  <2> QED BY <1>2, <1>a, <2>3 DEF Compact
<1>3. ASSUME NEW r \in Runtimes, NEW p \in DOMAIN disk, Resume(r, p) PROVE RuntimesOK' /\ CallsOK'
  <2>1. p \in Path /\ Exists(p) /\ mem' = [mem EXCEPT ![r] = Loaded(p)] /\ ~mem[r].up
        /\ UNCHANGED <<disk, mu, locked, call>>
    BY <1>3 DEF Resume, Exists, SaveInv, Shapes
  <2>2. /\ Loaded(p) \in MemShape /\ Loaded(p).up /\ Loaded(p).msgs # <<>>
        /\ Loaded(p).rw = 0 /\ Loaded(p).saved = 0 /\ Loaded(p).path = p
    BY <2>1, LoadIsOne DEF SaveInv
  <2>3. PICK m \in MemShape : /\ m = Loaded(p) /\ m.up /\ m.msgs # <<>> /\ m.rw = 0 /\ m.saved = 0
                              /\ Exists(m.path)
    BY <2>1, <2>2
  <2>4. m.saved <= m.rw /\ mem' = [mem EXCEPT ![r] = m] /\ \A c \in Saves : call'[c] = call[c]
    BY <2>1, <2>3
  <2> QED BY <2>1, <2>3, <2>4, MemoryGrows
<1>4. ASSUME NEW c \in Saves, NEW r \in Runtimes, Snapshot(c, r) PROVE RuntimesOK' /\ CallsOK'
  BY <1>4, <1>b, EmptyOnes DEF Snapshot
<1>5. ASSUME NEW c \in Saves, NEW r \in Runtimes, Rewind(c, r) PROVE RuntimesOK' /\ CallsOK'
  BY <1>5, <1>b, EmptyOnes DEF Rewind
<1>6. ASSUME NEW c \in Saves, NEW r \in Runtimes, Cleanup(c, r) PROVE RuntimesOK' /\ CallsOK'
  <2>1. PICK k \in Boundaries(mem[r].msgs) : Begins(c, r, "strip", SubSeq(mem[r].msgs, 1, k)) /\ mem' = mem
    BY <1>6 DEF Cleanup
  <2>2. SubSeq(mem[r].msgs, 1, k) \in Transcript /\ SubSeq(mem[r].msgs, 1, k) # <<>>
    BY <1>0, CutIsOne
  <2> QED BY <1>b, <2>1, <2>2
<1>7. ASSUME NEW c \in Saves, Enter(c) PROVE RuntimesOK' /\ CallsOK'
  <2> DEFINE r == call[c].on
  <2>1. /\ r \in Runtimes /\ mem[r].up /\ call[c].end = "none" /\ (call[c].op = "strip" => call[c].cap # <<>>)
        /\ mu[r] = Idle /\ mu' = [mu EXCEPT ![r] = c] /\ UNCHANGED <<disk, locked>>
    BY <1>7 DEF Enter, SaveInv, CallsOK, CallOK
  <2>2. PICK m \in MemShape : /\ mem' = [mem EXCEPT ![r] = m] /\ m.up /\ m.msgs # <<>>
                              /\ m.rw = mem[r].rw /\ m.saved = mem[r].saved /\ m.path = mem[r].path
    <3>1. CASE mem' = mem
      <4>1. mem' = [mem EXCEPT ![r] = mem[r]]
        BY <1>0, <3>1
      <4> QED BY <1>0, <2>1, <4>1
    <3>2. CASE mem' # mem
      <4>1. mem' = [mem EXCEPT ![r] = [mem[r] EXCEPT !.msgs = call[c].cap]] /\ call[c].op = "strip"
        BY <1>0, <1>7, <3>2 DEF Enter, Replaced
      <4>2. call[c].cap \in Transcript /\ call[c].cap # <<>>
        BY <1>0, <2>1, <4>1 DEF CallShape
      <4>3. mem[r] \in MemShape
        BY <1>0, <2>1
      <4> DEFINE m == [mem[r] EXCEPT !.msgs = call[c].cap]
      <4>4. /\ m \in MemShape /\ m.msgs = call[c].cap /\ m.up = mem[r].up /\ m.rw = mem[r].rw
            /\ m.saved = mem[r].saved /\ m.path = mem[r].path
        BY <4>2, <4>3, MessagesChange
      <4> QED BY <2>1, <4>1, <4>2, <4>4
    <3> QED BY <3>1, <3>2
  <2>3. \A s \in Runtimes : /\ mem'[s].up = mem[s].up /\ mem'[s].rw = mem[s].rw /\ mem'[s].saved = mem[s].saved
                            /\ mem'[s].path = mem[s].path
                            /\ mem[s].up => mem'[s].msgs # <<>>
    BY <1>0, <2>1, <2>2
  <2>4. RuntimesOK'
    BY <1>0, <2>1, <2>3 DEF RuntimesOK, Exists, File
  <2>5. call'[c].pc = "lock" /\ call'[c].on = r /\ call'[c].path = mem[r].path /\ call'[c].end = "none"
    <3>1. PICK md \in {"snapshot", "rewrite"} :
            call' = [call EXCEPT ![c] = [@ EXCEPT !.pc = "lock", !.path = mem[r].path, !.mode = md]]
      BY <1>7 DEF Enter
    <3> QED BY <1>0, <2>1, <3>1 DEF CallShape
  <2>6. CallOK(c)'
    <3>1. Exists(mem[r].path) /\ mu'[r] = c /\ mem'[r].up
      BY <1>0, <2>1, <2>3 DEF SaveInv, Shapes
    <3> QED BY <2>1, <2>5, <3>1 DEF CallOK, Inside, Writing, Exists, File
  <2>7. ASSUME NEW d \in Saves \ {c} PROVE CallOK(d)'
    <3>1. call'[d] = call[d] /\ CallOK(d)
      BY <1>0, <1>7 DEF Enter, SaveInv, CallsOK
    <3>2. call[d].pc \in Inside => call[d].on \in Runtimes /\ mu'[call[d].on] = d
      <4>1. call[d].pc \in Inside => call[d].on \in Runtimes /\ mu[call[d].on] = d
        BY <3>1 DEF CallOK, Inside, Writing
      <4> QED BY <2>1, <4>1, SaveAssumption DEF SaveInv, Shapes
    <3>3. call[d].pc \notin {"new", "done"} => mem'[call[d].on].up /\ mem'[call[d].on].rw = mem[call[d].on].rw
      BY <2>3, <3>1 DEF CallOK
    <3>4. call[d].pc \in Writing \cup {"fork"} => call[d].rw <= mem'[call[d].on].rw /\ call[d].cap # <<>>
      BY <3>1, <3>3 DEF CallOK, Writing
    <3> QED BY <2>1, <3>1, <3>2, <3>3, <3>4 DEF CallOK, Exists, File
  <2> QED BY <2>4, <2>6, <2>7 DEF CallsOK
<1>8. RuntimesOK' /\ CallsOK'
  BY <1>1, <1>2, <1>3, <1>4, <1>5, <1>6, <1>7 DEF MemoryStep
<1>9. UNCHANGED <<disk, acked, removed>>
  BY DEF MemoryStep, Add, Compact, Extends, Resume, Snapshot, Rewind, Cleanup, Begins, Enter
<1>10. \A c \in Saves : call'[c] = call[c] \/ call'[c].pc \notin Writing
  <2>1. CASE call' = call
    BY <2>1
  <2>2. CASE \E c \in Saves, r \in Runtimes, op \in {"snapshot", "rewind", "strip"} : \E t : Begins(c, r, op, t)
    <3>1. PICK c \in Saves, r \in Runtimes, op \in {"snapshot", "rewind", "strip"} : \E t : Begins(c, r, op, t)
      BY <2>2
    <3>2. PICK t : Begins(c, r, op, t)
      BY <3>1
    <3>3. call'[c].pc = "enter" /\ \A d \in Saves \ {c} : call'[d] = call[d]
      BY <1>0, <3>2 DEF Begins, CallShape
    <3> QED BY <3>3 DEF Writing
  <2>3. CASE \E c \in Saves : Enter(c)
    <3>1. PICK c \in Saves : Enter(c)
      BY <2>3
    <3>2. call'[c].pc = "lock" /\ \A d \in Saves \ {c} : call'[d] = call[d]
      BY <1>0, <3>1 DEF Enter, CallShape
    <3> QED BY <3>2 DEF Writing
  <2> QED BY <2>1, <2>2, <2>3 DEF MemoryStep, Add, Compact, Extends, Resume, Snapshot, Rewind, Cleanup
<1> QED BY <1>8, <1>9, <1>10, DiskStays DEF SaveInv

LEMMA DeathKeeps ==
  ASSUME SaveInv, ProcessDies, Shapes'
  PROVE  SaveInv'
<1>1. \A c \in Saves : \/ call'[c] = call[c] /\ call[c].pc \in {"new", "done"}
                       \/ call'[c].pc = "done"
  BY DEF ProcessDies, Ended, NewCall
<1>2. CallsOK'
  <2>1. ASSUME NEW c \in Saves PROVE CallOK(c)'
    <3>1. CallOK(c)
      BY DEF SaveInv, CallsOK
    <3> QED BY <1>1, <3>1 DEF CallOK, Inside, Writing
  <2> QED BY <2>1 DEF CallsOK
<1>3. RuntimesOK'
  BY DEF ProcessDies, RuntimesOK, Down
<1>4. LogsOK' /\ WritesOK' /\ DropsOK' /\ BranchesOK' /\ ForksOK' /\ NothingSavedIsLost'
  BY <1>1, DiskStays DEF ProcessDies, Writing
<1> QED BY <1>2, <1>3, <1>4 DEF SaveInv

(***************************************************************************)
(* The theorems.                                                           *)
(***************************************************************************)
LEMMA StartsWell ==
  ASSUME SaveInit
  PROVE  SaveInv
<1> DEFINE say == <<"say", 0>>
<1>1. say \in Message /\ Opening = <<say>> /\ Opening \in Transcript /\ Opening # <<>>
  BY DEF Message, MessageKinds, Opening, Transcript
<1>2. PICK first \in {LegacyFile, BranchFile} : disk = OnlyOriginal(first)
  BY DEF SaveInit
<1>3. /\ first \in FileShape /\ Stored(first) = Opening /\ ~first.torn /\ ~first.foreign
  <2>1. NoFile \in FileShape
    BY EmptyOnes, SaveAssumption DEF NoFile, FileShape
  <2>2. CASE first = LegacyFile
    BY <1>1, <2>1, <2>2 DEF LegacyFile, NoFile, FileShape, Stored
  <2>3. CASE first = BranchFile
    <3>1. MaxDepth \in 0..MaxDepth
      BY SaveAssumption
    <3> QED BY <1>1, <2>1, <2>3, <3>1 DEF BranchFile, NoFile, FileShape, Stored
  <2> QED BY <2>2, <2>3
<1>4. DOMAIN disk = {<<>>} /\ disk[<<>>] = first
  BY <1>2 DEF OnlyOriginal
<1>5. Shapes
  BY <1>3, <1>4, EmptyOnes DEF Shapes, SaveInit
<1>6. LogsOK
  BY <1>3, <1>4 DEF LogsOK
<1>7. RuntimesOK
  BY DEF RuntimesOK, SaveInit, Down
<1>8. CallsOK /\ WritesOK /\ DropsOK /\ ForksOK
  <2>1. \A c \in Saves : call[c].pc = "new" /\ call[c].end = "none"
    BY DEF SaveInit, NewCall
  <2> QED BY <2>1 DEF CallsOK, CallOK, WritesOK, WriteOK, DropsOK, DropOK, ForksOK, ForkOK, Inside, Writing
<1>9. BranchesOK
  BY <1>4 DEF BranchesOK
<1>10. NothingSavedIsLost
  <2>1. say \in MessagesOf(Opening)
    BY <1>1 DEF MessagesOf
  <2>2. say \in OnDisk
    BY <1>3, <1>4, <2>1 DEF OnDisk
  <2>3. acked = {say}
    BY DEF SaveInit
  <2> QED BY <2>2, <2>3 DEF NothingSavedIsLost, Real
<1> QED BY <1>5, <1>6, <1>7, <1>8, <1>9, <1>10 DEF SaveInv

LEMMA ShapesAreKept ==
  ASSUME SaveInv, [SaveNext]_saveVars
  PROVE  Shapes'
<1>1. CASE MemoryStep
  BY <1>1, MemoryShapes DEF SaveInv
<1>2. CASE \E c \in Saves : SaveStep(c)
  BY <1>2, SavingShapes DEF SaveInv, SaveStep
<1>3. CASE ProcessDies
  BY <1>3, DeathShapes DEF SaveInv
<1>4. CASE UNCHANGED saveVars
  BY <1>4 DEF saveVars, SaveInv, Shapes
<1> QED BY <1>1, <1>2, <1>3, <1>4 DEF SaveNext, MemoryStep, SaveStep

LEMMA InvariantIsKept ==
  ASSUME SaveInv, [SaveNext]_saveVars
  PROVE  SaveInv'
<1>0. Shapes'
  BY ShapesAreKept
<1>1. CASE MemoryStep
  BY <1>0, <1>1, MemoryKeeps
<1>2. ASSUME NEW c \in Saves, SaveStep(c)
      PROVE  SaveInv'
  <2>1. LogsOK' /\ RuntimesOK' /\ BranchesOK' /\ NothingSavedIsLost'
    BY <1>0, <1>2, DiskKeeps, SavingKeepsRuntimes, SavingKeepsBranches, SavingKeepsMessages
  <2>2. \A d \in Saves : CallOK(d)' /\ WriteOK(d)' /\ DropOK(d)' /\ ForkOK(d)'
    BY <1>0, <1>2, OthersKeep, CallerKeeps
  <2>3. CallsOK' /\ WritesOK' /\ DropsOK' /\ ForksOK'
    BY <2>2 DEF CallsOK, WritesOK, DropsOK, ForksOK
  <2> QED BY <1>0, <2>1, <2>3 DEF SaveInv
<1>3. CASE ProcessDies
  BY <1>0, <1>3, DeathKeeps
<1>4. CASE UNCHANGED saveVars
  BY <1>4 DEF saveVars, SaveInv, Shapes, LogsOK, RuntimesOK, CallsOK, CallOK, WritesOK, WriteOK, DropsOK, DropOK,
     BranchesOK, ForksOK, ForkOK, NothingSavedIsLost, OnDisk, Kept, Exists, File, Refork, IsRewrite, Overwrites, Gone
<1> QED BY <1>1, <1>2, <1>3, <1>4 DEF SaveNext, MemoryStep, SaveStep

\* What the files, the runtimes and the calls of a save are at any time
\* (the fields of Session, controller and diskState, and what each lock covers).
THEOREM SavesInvariant == SaveSpec => []SaveInv
<1>1. SaveInit => SaveInv
  BY StartsWell
<1>2. SaveInv /\ [SaveNext]_saveVars => SaveInv'
  BY InvariantIsKept
<1> QED BY <1>1, <1>2, PTL DEF SaveSpec

\* Files and runtimes are well formed; snapshotMu is held by a call or free.
THEOREM SavesAreTyped == SaveSpec => []SavesTypeOK
<1>1. SaveInv => SavesTypeOK
  BY DEF SaveInv, Shapes, LogsOK, RuntimesOK, SavesTypeOK, FileShape
<1> QED BY <1>1, SavesInvariant, PTL

\* However many runtimes save, conflict, fork, fail or die, a message whose save
\* succeeded stays in a file unless a save that may remove it did (save.go's
\* checkSnapshotWrite, SaveRecoveryBranch and the order of a save's writes).
THEOREM NothingIsLost == SaveSpec => []NothingSavedIsLost
<1>1. SaveInv => NothingSavedIsLost
  BY DEF SaveInv
<1> QED BY <1>1, SavesInvariant, PTL

\* A save that reports success left its transcript and a ledger that agrees.
Success(c) ==
  LET b == mem'[call[c].on].base  f == disk'[b.path] IN
  /\ Stored(f) = b.msgs /\ f.rev = b.rev
  /\ call'[c].end = "saved" => f.digest \in {<<>>, b.msgs}

LEMMA SavedIsOnDisk ==
  ASSUME SaveInv, NEW c \in Saves, SaveIsUpToDate(c) \/ Record(c), ~Refork(c)
  PROVE  Success(c)
<1> DEFINE k == call[c]  p == k.path  f == File(p)  r == k.on  next == mem[r].msgs
<1>0. /\ k \in CallShape /\ r \in Runtimes /\ p \in Path /\ f \in FileShape
      /\ mem \in [Runtimes -> MemShape] /\ call \in [Saves -> CallShape]
  BY StepIsInside, CallIsOne DEF SaveInv, Shapes, SaveStep
<1>1. ASSUME NEW t, NEW n, NEW w, MarkPersisted(r, p, t, n, w)
      PROVE  mem'[r].base.path = p /\ mem'[r].base.msgs = t /\ mem'[r].base.rev = n
  BY <1>0, <1>1 DEF MarkPersisted, MemShape, Base
<1>2. ASSUME NEW g \in FileShape, disk' = Put(disk, p, g)
      PROVE  disk'[p] = g
  BY <1>0, <1>2, PutFile DEF SaveInv
<1>3. CASE SaveIsUpToDate(c)
  <2>1. /\ disk' = Put(disk, p, Repaired(f)) /\ UpToDate(p, next) /\ f.digest \in {<<>>, next}
        /\ MarkPersisted(r, p, next, f.rev, mem[r].rw)
    BY <1>3 DEF SaveIsUpToDate, Locks
  <2>2. /\ Repaired(f) \in FileShape /\ Stored(Repaired(f)) = Stored(f) /\ Repaired(f).rev = f.rev
        /\ Repaired(f).digest = f.digest
    BY <1>0, RepairIsOne
  <2>3. Stored(f) = next
    BY <2>1, UpToDateIsStored
  <2>4. disk'[p] = Repaired(f)
    BY <1>2, <2>1, <2>2
  <2>5. mem'[r].base.path = p /\ mem'[r].base.msgs = next /\ mem'[r].base.rev = f.rev
    BY <1>1, <2>1
  <2> QED BY <2>1, <2>2, <2>3, <2>4, <2>5 DEF Success
<1>4. CASE Record(c)
  <2>1. /\ k.pc = "record" /\ disk' = Put(disk, p, Recorded(c))
        /\ MarkPersisted(r, p, k.cap, Recorded(c).rev, k.rw)
        /\ Leave(c, IF k.shape = "fork" THEN "forked" ELSE "saved")
    BY <1>4 DEF Record
  <2>2. /\ Recorded(c) \in FileShape /\ Recorded(c).log = f.log /\ Recorded(c).anchor = f.anchor
        /\ k.shape # "fork" => Recorded(c).digest = k.cap
    BY <2>1, RecordedIsOne DEF SaveInv, Writing
  <2>3. Stored(f) = k.cap
    BY <2>1 DEF SaveInv, WritesOK, WriteOK
  <2>4. Stored(Recorded(c)) = k.cap
    BY <2>2, <2>3 DEF Stored
  <2>5. disk'[p] = Recorded(c)
    BY <1>2, <2>1, <2>2
  <2>6. mem'[r].base.path = p /\ mem'[r].base.msgs = k.cap /\ mem'[r].base.rev = Recorded(c).rev
    BY <1>1, <2>1
  <2>7. call'[c].end = IF k.shape = "fork" THEN "forked" ELSE "saved"
    BY <1>0, <2>1 DEF Leave, Ended, NewCall
  <2> QED BY <2>2, <2>4, <2>5, <2>6, <2>7 DEF Success
<1> QED BY <1>3, <1>4

\* A call comes to an end by its own step, or with its process.
LEMMA OnlyASaveSucceeds ==
  ASSUME SaveInv, SaveInv', [SaveNext]_saveVars, NEW c \in Saves, call[c].pc # "done",
         call'[c].end \in {"saved", "forked"}
  PROVE  SaveIsUpToDate(c) \/ Record(c)
<1>0. call \in [Saves -> CallShape] /\ mem \in [Runtimes -> MemShape]
  BY DEF SaveInv, Shapes
<1>1. call[c].end = "none" /\ call'[c].pc = "done"
  BY DEF SaveInv, CallsOK, CallOK
<1>2. call'[c] # call[c]
  BY <1>1
<1>3. ASSUME NEW d \in Saves, SaveStep(d)
      PROVE  SaveIsUpToDate(c) \/ Record(c)
  <2>1. d = c
    BY <1>2, <1>3, OthersStay
  <2>2. CASE Adopt(c) \/ WriteFails(c)
    <3>1. PICK how \in {"adopted", "failed"} : Leave(c, how)
      BY <2>2 DEF Adopt, WriteFails
    <3>2. call'[c].end = how
      BY <1>0, <3>1 DEF Leave, Ended, NewCall
    <3> QED BY <3>2
  <2>3. CASE SaveWrites(c) \/ SaveConflicts(c) \/ WriteLog(c) \/ WriteAnchor(c) \/ Retry(c) \/ Recover(c)
             \/ ForceSave(c) \/ Fork(c)
    <3>0. call[c] \in CallShape
      BY <1>0
    <3>1. CASE SaveWrites(c) \/ ForceSave(c)
      <4>1. PICK p, s : Captures(c, p, s)
        BY <3>1 DEF SaveWrites, ForceSave
      <4>2. call'[c].end = call[c].end
        BY <1>0, <3>0, <4>1 DEF Captures, CallShape
      <4> QED BY <1>1, <4>2
    <3>2. CASE WriteLog(c) \/ WriteAnchor(c)
      BY <1>0, <1>1, <3>0, <3>2 DEF WriteLog, WriteAnchor, MoveTo, CallShape
    <3>3. CASE SaveConflicts(c) \/ Retry(c)
      <4>1. CASE SaveConflicts(c)
        BY <1>0, <1>1, <3>0, <4>1 DEF SaveConflicts, CallShape
      <4>2. CASE Retry(c)
        BY <1>0, <1>1, <3>0, <4>2 DEF Retry, CallShape
      <4> QED BY <3>3, <4>1, <4>2
    <3>4. CASE Recover(c)
      BY <1>0, <1>1, <3>0, <3>4 DEF Recover, CallShape
    <3>5. CASE Fork(c)
      BY <1>0, <1>1, <3>0, <3>5 DEF Fork, CallShape
    <3> QED BY <2>3, <3>1, <3>2, <3>3, <3>4, <3>5
  <2> QED BY <1>3, <2>1, <2>2, <2>3 DEF SaveStep
<1>4. CASE MemoryStep
  <2>1. CASE call' = call
    BY <1>2, <2>1
  <2>2. CASE \E d \in Saves, r \in Runtimes : \E op, t : Begins(d, r, op, t)
    BY <1>0, <1>1, <2>2 DEF Begins, CallShape
  <2>3. CASE \E d \in Saves : Enter(d)
    BY <1>0, <1>1, <2>3 DEF Enter, CallShape
  <2> QED BY <1>4, <2>1, <2>2, <2>3 DEF MemoryStep, Add, Compact, Extends, Resume, Snapshot, Rewind, Cleanup
<1>5. CASE ProcessDies
  BY <1>1, <1>2, <1>5 DEF ProcessDies, Ended, NewCall
<1>6. CASE UNCHANGED saveVars
  BY <1>2, <1>6 DEF saveVars
<1> QED BY <1>3, <1>4, <1>5, <1>6 DEF SaveNext, MemoryStep, SaveStep

\* A save that reports success left exactly its transcript to be loaded, and a ledger
\* that agrees with it (save, saveRecoveryBranchMeta, markPersisted).
THEOREM SuccessMeansSaved == SaveSpec => SuccessIsOnDisk
<1>1. SaveInv /\ SaveInv' /\ [SaveNext]_saveVars
        => \A c \in Saves : call[c].pc # "done" /\ call'[c].end \in {"saved", "forked"} /\ ~Refork(c) => Success(c)
  BY OnlyASaveSucceeds, SavedIsOnDisk
<1>2. SaveInv /\ SaveInv' /\ [SaveNext]_saveVars
        => [\A c \in Saves : call[c].pc # "done" /\ call'[c].end \in {"saved", "forked"} /\ ~Refork(c)
              => LET b == mem'[call[c].on].base  f == disk'[b.path] IN
                 /\ Stored(f) = b.msgs /\ f.rev = b.rev
                 /\ call'[c].end = "saved" => f.digest \in {<<>>, b.msgs}]_saveVars
  BY <1>1 DEF Success
<1>3. SaveSpec => [][SaveNext]_saveVars
  BY PTL DEF SaveSpec
<1> QED BY <1>2, <1>3, SavesInvariant, PTL DEF SuccessIsOnDisk

(***************************************************************************)
(* What is cut stays cut.                                                  *)
(***************************************************************************)
NoFailure == \A c \in Saves : call[c].end # "failed"
StripsOn(r) == \E c \in Saves : call[c].on = r /\ call[c].op = "strip" /\ call[c].pc \in Inside
WritesTo(r, p) == \E c \in Saves : call[c].on = r /\ call[c].pc \in Writing /\ call[c].path = p

\* Every message there is, and those a runtime cannot have made by itself.
InFile(p) == MessagesOf(Stored(File(p)))
AllCut == UNION {cut[p] : p \in DOMAIN cut}
OfRuntime(r) == MessagesOf(mem[r].msgs) \cup MessagesOf(mem[r].base.msgs)
OfCall(c) == MessagesOf(call[c].cap) \cup MessagesOf(call[c].was)
Known == OnDisk \cup AllCut \cup (UNION {OfRuntime(r) : r \in Runtimes}) \cup (UNION {OfCall(c) : c \in Saves})
Others(r) == AllCut \cup (UNION {OfRuntime(s) : s \in Runtimes \ {r}})
                    \cup (UNION {OfCall(c) : c \in {d \in Saves : call[d].on # r}})

\* Messages are numbered; a call in memory has not been answered yet.
NumbersOK == \A m \in Real(Known) : m[2] \in 0..made
Answer(r) == <<"result", Last(mem[r].msgs)[2]>>
AnswersOK ==
  /\ \A r \in Runtimes : EndsInCall(mem[r].msgs) =>
       /\ Answer(r) \notin Known
       /\ \A s \in Runtimes \ {r} : EndsInCall(mem[s].msgs) => Answer(s) # Answer(r)
  /\ \A c \in Saves : call[c].op = "strip" /\ call[c].pc = "enter" => ~EndsInCall(call[c].cap)

\* What a runtime added since its baseline is nowhere but in what it writes.
Added(r) == Real(MessagesOf(mem[r].msgs) \ MessagesOf(mem[r].base.msgs))
AddedOK(r) ==
  mem[r].up /\ ~StripsOn(r) =>
    /\ Added(r) \cap Others(r) = {}
    /\ \A p \in DOMAIN disk : ~WritesTo(r, p) => Added(r) \cap InFile(p) = {}
\* What it added since a capture is nowhere yet.
Later(c, r) == Real(MessagesOf(mem[r].msgs) \ MessagesOf(call[c].cap))
LaterOK(c) ==
  call[c].pc \in Writing \cup {"fork"} =>
    \A r \in Runtimes :
      call[c].on = r => Later(c, r) \cap (Others(r) \cup OnDisk \cup MessagesOf(call[c].was)) = {}

\* A baseline is of the runtime's path, no newer than the file, and if as new,
\* free of what was cut.
BaseOK(r) ==
  mem[r].up =>
    LET b == mem[r].base  p == mem[r].path IN
    /\ b.ok /\ b.path = p /\ b.rev <= File(p).rev
    /\ b.rev = File(p).rev => MessagesOf(b.msgs) \cap SetOf(cut, p) = {}
NewOK(c) == call[c].pc = "new" => call[c] = NewCall
PathOK(c) == call[c].pc \in {"lock", "conflict"} => call[c].path = mem[call[c].on].path

\* What is written is free of what was cut.
CutOK(c) ==
  call[c].pc \in {"anchor", "record"} \/ (call[c].pc = "log" /\ ~BringsBack(c)) =>
    MessagesOf(call[c].cap) \cap SetOf(cut, call[c].path) = {}
CutsOK ==
  /\ DOMAIN cut \subseteq Path
  /\ \A p \in DOMAIN cut : Real(cut[p]) = cut[p] /\ (cut[p] # {} => Exists(p))

CutInv ==
  /\ NumbersOK /\ AnswersOK /\ CutsOK
  /\ \A c \in Saves : NewOK(c) /\ PathOK(c)
  /\ NoFailure =>
       /\ \A r \in Runtimes : AddedOK(r) /\ BaseOK(r)
       /\ \A c \in Saves : LaterOK(c) /\ CutOK(c)
       /\ CutStaysCut

(***************************************************************************)
(* Where messages go in the step of a save.                                *)
(***************************************************************************)
\* The messages on disk are those of the files.
LEMMA FilesAreTheDisk ==
  /\ \A q : InFile(q) \subseteq OnDisk
  /\ \A m \in OnDisk : \E q \in DOMAIN disk : m \in InFile(q)
  /\ \A q : q \notin DOMAIN disk => InFile(q) = {}
<1>1. \A q : q \notin DOMAIN disk => InFile(q) = {}
  BY DEF InFile, File, NoFile, Stored, MessagesOf
<1>2. \A q \in DOMAIN disk : InFile(q) = MessagesOf(Stored(disk[q]))
  BY DEF InFile, File
<1> QED BY <1>1, <1>2 DEF OnDisk

LEMMA CutsAreAll ==
  /\ \A q : SetOf(cut, q) \subseteq AllCut
  /\ \A m \in AllCut : \E q \in DOMAIN cut : m \in SetOf(cut, q)
BY DEF SetOf, AllCut

\* A load's repair and what it loads hold the real messages of the file.
LEMMA LoadHolds ==
  ASSUME SaveInv, NEW p \in Path
  PROVE  /\ Real(MessagesOf(Loaded(p).msgs)) \subseteq InFile(p) /\ InFile(p) \subseteq MessagesOf(Loaded(p).msgs)
         /\ Loaded(p).base.msgs = Loaded(p).msgs /\ ~EndsInCall(Loaded(p).msgs)
         /\ Loaded(p).base.ok /\ Loaded(p).base.path = p /\ Loaded(p).base.rev = File(p).rev /\ Loaded(p).path = p
         /\ Loaded(p).up
<1> DEFINE t == Stored(File(p))
<1>1. t \in Transcript
  BY FileIsOne DEF SaveInv
<1>2. /\ Loaded(p).msgs = Normalize(t) /\ Loaded(p).base = Base(p, Normalize(t), File(p).rev)
      /\ Loaded(p).path = p /\ Loaded(p).up
  BY DEF Loaded
<1>3. MessagesOf(t) \subseteq MessagesOf(Normalize(t)) /\ Real(MessagesOf(Normalize(t))) = Real(MessagesOf(t))
  BY <1>1, NormalizeKeeps
<1>4. ~EndsInCall(Normalize(t))
  <2>1. CASE EndsInCall(t)
    <3>1. <<"stub", Last(t)[2]>> \in Message
      BY <1>1, <2>1, LastIsOne DEF EndsInCall, Message, MessageKinds
    <3>2. Last(Append(t, <<"stub", Last(t)[2]>>)) = <<"stub", Last(t)[2]>>
      BY <1>1, <3>1 DEF Last, Transcript
    <3> QED BY <2>1, <3>2 DEF Normalize, EndsInCall
  <2>2. CASE ~EndsInCall(t)
    BY <2>2 DEF Normalize
  <2> QED BY <2>1, <2>2
<1>5. Real(MessagesOf(t)) \subseteq InFile(p) /\ InFile(p) = MessagesOf(t)
  BY DEF Real, InFile
<1> QED BY <1>2, <1>3, <1>4, <1>5 DEF Base

\* Revisions grow.
LEMMA RevisionGrows ==
  ASSUME NEW c \in Saves, call[c] \in CallShape, File(call[c].path) \in FileShape
  PROVE  /\ File(call[c].path).rev <= Recorded(c).rev
         /\ call[c].shape # "fork" => File(call[c].path).rev < Recorded(c).rev
<1> DEFINE k == call[c]  f == File(k.path)
<1>1. f.rev \in Nat /\ k.rev \in Nat
  BY DEF FileShape, CallShape
<1>2. k.shape = "fork" => Recorded(c).rev = IF f.rev > 1 THEN f.rev ELSE 1
  BY DEF Recorded, FileShape
<1>3. k.shape # "fork" => Recorded(c).rev = (IF f.rev < k.rev THEN k.rev ELSE f.rev) + 1
  BY DEF Recorded, FileShape
<1> QED BY <1>1, <1>2, <1>3

\* Only the writes of log and anchor change what a file holds, and to what the
\* call captured.
LEMMA StoredMoves ==
  ASSUME SaveInv, NEW c \in Saves, SaveStep(c), Shapes'
  PROVE  /\ \A q : q # call[c].path => InFile(q)' = InFile(q)
         /\ \A q : ~(WriteLog(c) \/ WriteAnchor(c)) => InFile(q)' = InFile(q)
         /\ \A q : InFile(q)' \subseteq InFile(q) \cup MessagesOf(call[c].cap)
         /\ \A q : Stored(File(q))' \in {Stored(File(q)), call[c].cap}
         /\ \A q : File(q).rev <= (File(q).rev)'
         /\ OnDisk' \subseteq OnDisk \cup MessagesOf(call[c].cap)
<1> DEFINE k == call[c]  p == k.path  f == File(p)
<1>0. /\ p \in Path /\ f \in FileShape /\ k \in CallShape /\ Shapes
      /\ \A q : f.rev <= f.rev /\ f.rev \in Nat
  BY StepIsInside, CallIsOne DEF SaveInv, FileShape
<1>a. \A q : File(q).rev \in Nat
  BY DEF SaveInv, Shapes, File, FileShape, NoFile
<1>1. ASSUME NEW g \in FileShape, disk' = Put(disk, p, g), f.rev <= g.rev, Stored(g) \in {Stored(f), k.cap},
             ~(WriteLog(c) \/ WriteAnchor(c)) => Stored(g) = Stored(f)
      PROVE  /\ \A q : q # p => InFile(q)' = InFile(q)
             /\ \A q : ~(WriteLog(c) \/ WriteAnchor(c)) => InFile(q)' = InFile(q)
             /\ \A q : InFile(q)' \subseteq InFile(q) \cup MessagesOf(k.cap)
             /\ \A q : Stored(File(q))' \in {Stored(File(q)), k.cap}
             /\ \A q : File(q).rev <= (File(q).rev)'
  <2>1. \A q : File(q)' = IF q = p THEN g ELSE File(q)
    BY <1>0, <1>1, PutFile
  <2>2. \A q : (File(q).rev)' = IF q = p THEN g.rev ELSE File(q).rev
    BY <2>1
  <2>3. \A q : Stored(File(q))' = IF q = p THEN Stored(g) ELSE Stored(File(q))
    BY <2>1 DEF Stored
  <2>4. \A q : File(q).rev <= (File(q).rev)'
    BY <1>a, <1>1, <2>2
  <2> QED BY <1>1, <2>3, <2>4 DEF InFile, MessagesOf
<1>2. CASE disk' = disk
  <2>1. \A q : File(q)' = File(q)
    BY <1>2 DEF File
  <2>2. \A q : File(q).rev <= (File(q).rev)'
    BY <1>a, <2>1
  <2> QED BY <1>2, <2>1, <2>2 DEF InFile, Stored, OnDisk
<1>3. ASSUME NEW g \in FileShape, disk' = Put(disk, p, g)
      PROVE  g = disk'[p]
  BY <1>0, <1>3, PutFile
<1>4. ASSUME disk' # disk
      PROVE  \E g \in FileShape : /\ disk' = Put(disk, p, g) /\ f.rev <= g.rev /\ Stored(g) \in {Stored(f), k.cap}
                                  /\ ~(WriteLog(c) \/ WriteAnchor(c)) => Stored(g) = Stored(f)
  <2>0. PICK g \in FileShape : disk' = Put(disk, p, g) /\ Succeeds(c, f, g)
    BY <1>4, DiskMoves
  <2>1. Stored(g) \in {Stored(f), k.cap}
    BY <2>0 DEF Succeeds
  <2>2. CASE SaveWrites(c) \/ SaveIsUpToDate(c) \/ SaveConflicts(c) \/ ForceSave(c)
    <3>1. disk' = Put(disk, p, Repaired(f))
      BY <2>2 DEF SaveWrites, SaveIsUpToDate, SaveConflicts, ForceSave, Locks
    <3>2. Repaired(f) \in FileShape /\ Stored(Repaired(f)) = Stored(f) /\ Repaired(f).rev = f.rev
      BY <1>0, RepairIsOne
    <3> QED BY <1>0, <3>1, <3>2
  <2>3. CASE WriteLog(c)
    <3>1. disk' = Put(disk, p, Logged(c)) /\ Logged(c) \in FileShape
      BY <1>0, <2>3, LoggedIsOne, StepIsInside DEF WriteLog, SaveInv
    <3>2. Logged(c).rev = f.rev
      BY <1>0 DEF Logged, FileShape
    <3>3. g = Logged(c)
      BY <1>3, <2>0, <3>1
    <3> QED BY <1>0, <2>0, <2>1, <2>3, <3>2, <3>3
  <2>4. CASE WriteAnchor(c)
    <3>1. disk' = Put(disk, p, [f EXCEPT !.anchor = k.cap])
      BY <2>4 DEF WriteAnchor
    <3>2. [f EXCEPT !.anchor = k.cap] \in FileShape /\ [f EXCEPT !.anchor = k.cap].rev = f.rev
      BY <1>0 DEF FileShape, CallShape
    <3>3. g = [f EXCEPT !.anchor = k.cap]
      BY <1>3, <2>0, <3>1, <3>2
    <3> QED BY <1>0, <2>0, <2>1, <2>4, <3>2, <3>3
  <2>5. CASE Record(c)
    <3>1. disk' = Put(disk, p, Recorded(c)) /\ k.pc \in Writing
      BY <2>5 DEF Record, Writing
    <3>2. /\ Recorded(c) \in FileShape /\ Recorded(c).log = f.log /\ Recorded(c).anchor = f.anchor
      BY <3>1, RecordedIsOne DEF SaveInv
    <3>3. Stored(Recorded(c)) = Stored(f)
      BY <3>2 DEF Stored
    <3>4. f.rev <= Recorded(c).rev
      BY <1>0, RevisionGrows
    <3> QED BY <3>1, <3>2, <3>3, <3>4
  <2>6. CASE WriteFails(c)
    <3>1. PICK h : disk' = Put(disk, p, h) /\ h = IF f.log = <<>> THEN [f EXCEPT !.foreign = TRUE]
                                                  ELSE [f EXCEPT !.torn = TRUE]
      BY <1>4, <2>6 DEF WriteFails
    <3>2. h \in FileShape /\ h.log = f.log /\ h.anchor = f.anchor /\ h.rev = f.rev
      BY <1>0, <3>1 DEF FileShape
    <3>3. Stored(h) = Stored(f)
      BY <3>2 DEF Stored
    <3> QED BY <1>0, <3>1, <3>2, <3>3
  <2>7. CASE Retry(c) \/ Adopt(c) \/ Recover(c) \/ Fork(c)
    BY <1>4, <2>7 DEF Retry, Adopt, Recover, Fork
  <2> QED BY <2>2, <2>3, <2>4, <2>5, <2>6, <2>7 DEF SaveStep
<1>5. CASE disk' # disk
  <2>1. PICK g \in FileShape : /\ disk' = Put(disk, p, g) /\ f.rev <= g.rev /\ Stored(g) \in {Stored(f), k.cap}
                               /\ ~(WriteLog(c) \/ WriteAnchor(c)) => Stored(g) = Stored(f)
    BY <1>4, <1>5
  <2>2. /\ \A q : q # p => InFile(q)' = InFile(q)
        /\ \A q : ~(WriteLog(c) \/ WriteAnchor(c)) => InFile(q)' = InFile(q)
        /\ \A q : InFile(q)' \subseteq InFile(q) \cup MessagesOf(k.cap)
        /\ \A q : Stored(File(q))' \in {Stored(File(q)), k.cap}
        /\ \A q : File(q).rev <= (File(q).rev)'
    BY <1>1, <2>1
  <2>3. OnDisk' \subseteq OnDisk \cup MessagesOf(k.cap)
    <3>1. DOMAIN disk' = DOMAIN disk \cup {p} /\ \A q \in DOMAIN disk' : disk'[q] = IF q = p THEN g ELSE disk[q]
      BY <1>0, <2>1, PutFile
    <3>2. MessagesOf(Stored(f)) \subseteq OnDisk
      BY FilesAreTheDisk DEF InFile
    <3>3. \A q \in DOMAIN disk' : MessagesOf(Stored(disk'[q])) \subseteq OnDisk \cup MessagesOf(k.cap)
      BY <2>1, <3>1, <3>2 DEF OnDisk
    <3> QED BY <3>3 DEF OnDisk
  <2> QED BY <2>2, <2>3
<1> QED BY <1>2, <1>5

\* Only the log's write and the record change what is cut.
LEMMA CutMoves ==
  ASSUME SaveInv, NEW c \in Saves, SaveStep(c)
  PROVE  /\ ~(WriteLog(c) \/ Record(c)) => cut' = cut
         /\ \A q : q # call[c].path => SetOf(cut, q)' = SetOf(cut, q)
         /\ WriteLog(c) => \A q : q = call[c].path =>
               SetOf(cut, q)' = IF BringsBack(c) THEN SetOf(cut, q) \ MessagesOf(call[c].cap) ELSE SetOf(cut, q)
         /\ Record(c) => \A q : q = call[c].path =>
               SetOf(cut, q)' = SetOf(cut, q) \cup (IF IsRewrite(c) THEN Gone(c) ELSE {})
         /\ DOMAIN cut' \subseteq DOMAIN cut \cup {call[c].path}
<1> DEFINE p == call[c].path
<1>1. ~(WriteLog(c) \/ Record(c)) => cut' = cut
  BY DEF SaveStep, SaveWrites, SaveIsUpToDate, SaveConflicts, WriteAnchor, Retry, Adopt, Recover, ForceSave, Fork,
     WriteFails
<1>0. WriteLog(c) => ~Record(c)
  BY DEF WriteLog, Record
<1>2. ASSUME NEW S, cut' = Put(cut, p, S)
      PROVE  /\ \A q : SetOf(cut, q)' = IF q = p THEN S ELSE SetOf(cut, q)
             /\ DOMAIN cut' = DOMAIN cut \cup {p}
  BY <1>2 DEF SetOf, Put
<1>3. CASE WriteLog(c) /\ BringsBack(c)
  <2>1. PICK S : S = SetOf(cut, p) \ MessagesOf(call[c].cap) /\ cut' = Put(cut, p, S)
    BY <1>3 DEF WriteLog
  <2> QED BY <1>0, <1>2, <1>3, <2>1
<1>4. CASE WriteLog(c) /\ ~BringsBack(c)
  <2>1. cut' = cut
    BY <1>4 DEF WriteLog
  <2> QED BY <1>0, <1>4, <2>1 DEF SetOf
<1>5. CASE Record(c)
  <2>1. PICK S : S = SetOf(cut, p) \cup (IF IsRewrite(c) THEN Gone(c) ELSE {}) /\ cut' = Put(cut, p, S)
    BY <1>5 DEF Record
  <2> QED BY <1>0, <1>2, <1>5, <2>1
<1>6. CASE cut' = cut /\ ~WriteLog(c) /\ ~Record(c)
  BY <1>6 DEF SetOf
<1> QED BY <1>1, <1>3, <1>4, <1>5, <1>6

\* Other runtimes' calls write where they wrote.
LEMMA WritersStay ==
  ASSUME SaveInv, NEW c \in Saves, SaveStep(c), NEW s \in Runtimes \ {call[c].on}
  PROVE  /\ \A q : WritesTo(s, q)' <=> WritesTo(s, q)
         /\ StripsOn(s)' <=> StripsOn(s)
         /\ \A d \in Saves : call[d].on = s <=> call'[d].on = s
<1>1. \A d \in Saves \ {c} : call'[d] = call[d]
  BY OthersStay
<1>2. call'[c].on \in {call[c].on, Idle} /\ s # Idle /\ s # call[c].on
  <2>1. call \in [Saves -> CallShape]
    BY DEF SaveInv, Shapes
  <2>2. CASE \E how : Leave(c, how)
    BY <2>1, <2>2 DEF Leave, Ended, NewCall
  <2>3. CASE \E p, x : Captures(c, p, x)
    BY <2>1, <2>3 DEF Captures, CallShape
  <2>4. CASE \E to : MoveTo(c, to)
    BY <2>1, <2>4 DEF MoveTo, CallShape
  <2>5. CASE SaveConflicts(c) \/ Retry(c)
    <3>1. CASE SaveConflicts(c)
      BY <2>1, <3>1 DEF SaveConflicts, CallShape
    <3>2. CASE Retry(c)
      BY <2>1, <3>2 DEF Retry, CallShape
    <3> QED BY <2>5, <3>1, <3>2
  <2>6. CASE Recover(c)
    BY <2>1, <2>6 DEF Recover, CallShape
  <2>7. CASE Fork(c)
    BY <2>1, <2>7 DEF Fork, CallShape
  <2>8. s # Idle
    BY SaveAssumption
  <2> QED BY <2>2, <2>3, <2>4, <2>5, <2>6, <2>7, <2>8 DEF SaveStep, SaveWrites, SaveIsUpToDate, WriteLog, WriteAnchor,
     Record, Adopt, ForceSave, WriteFails
<1>3. \A d \in Saves : call[d].on = s \/ call'[d].on = s => d # c
  BY <1>2
<1> QED BY <1>1, <1>3 DEF WritesTo, StripsOn

\* What a step of a save may read: the files that no other call writes.
Free(c) == {m \in OnDisk : \E q \in DOMAIN disk : m \in InFile(q) /\ Holder(locked, q) \in {c, Idle}}

LEMMA FreeIsRead ==
  ASSUME NEW c \in Saves, NEW q, Holder(locked, q) \in {c, Idle}
  PROVE  InFile(q) \subseteq Free(c)
BY FilesAreTheDisk DEF Free

LEMMA FreeIsNotWritten ==
  ASSUME SaveInv, NEW c \in Saves, NEW q, Holder(locked, q) \in {c, Idle},
         NEW s \in Runtimes \ {call[c].on}
  PROVE  ~WritesTo(s, q)
<1> SUFFICES ASSUME NEW d \in Saves, call[d].on = s, call[d].pc \in Writing, call[d].path = q
             PROVE  FALSE
  BY DEF WritesTo
<1>1. Holder(locked, q) = d
  BY DEF SaveInv, CallsOK, CallOK
<1> QED BY <1>1, SaveAssumption

\* The parts of a call after a step of it.
LEMMA CallMoves ==
  ASSUME SaveInv, NEW c \in Saves, SaveStep(c)
  PROVE  /\ \/ call'[c].pc = "done" /\ call'[c].cap = <<>> /\ call'[c].was = <<>> /\ call'[c].on = Idle
            \/ /\ call'[c].pc \in Inside /\ call'[c].on = call[c].on /\ call'[c].op = call[c].op
               /\ call'[c].end = call[c].end
         /\ call'[c].cap \in {<<>>, call[c].cap, mem[call[c].on].msgs}
         /\ \/ call'[c].was \in {<<>>, call[c].was}
            \/ \E q \in Path : call'[c].was = Stored(File(q)) /\ Holder(locked, q) = Idle
<1> DEFINE k == call[c]  j == call'[c]
<1>0. /\ k \in CallShape /\ call \in [Saves -> CallShape] /\ k.path \in Path /\ k.cap \in Transcript
  BY StepIsInside, CallIsOne DEF SaveInv, Shapes
<1>1. ASSUME NEW how, Leave(c, how)
      PROVE  j.pc = "done" /\ j.cap = <<>> /\ j.was = <<>> /\ j.on = Idle
  BY <1>0, <1>1 DEF Leave, Ended, NewCall
<1>2. ASSUME NEW to \in Inside, MoveTo(c, to)
      PROVE  /\ j.pc = to /\ j.on = k.on /\ j.op = k.op /\ j.end = k.end /\ j.cap = k.cap /\ j.was = k.was
  BY <1>0, <1>2 DEF MoveTo, CallShape
<1>3. ASSUME NEW s, Captures(c, k.path, s)
      PROVE  /\ j.pc \in Inside /\ j.on = k.on /\ j.op = k.op /\ j.end = k.end
             /\ j.cap = mem[k.on].msgs /\ j.was = Stored(File(k.path))
  BY <1>0, <1>3 DEF Captures, CallShape, Inside, Writing
<1>4. CASE SaveIsUpToDate(c) \/ Record(c) \/ Adopt(c) \/ WriteFails(c)
  BY <1>1, <1>4 DEF SaveIsUpToDate, Record, Adopt, WriteFails
<1>5. CASE WriteLog(c) \/ WriteAnchor(c)
  <2>1. PICK to \in Inside : MoveTo(c, to)
    BY <1>5 DEF WriteLog, WriteAnchor, Inside, Writing
  <2> QED BY <1>2, <2>1
<1>6. CASE SaveWrites(c) \/ ForceSave(c)
  <2>1. /\ Holder(locked, k.path) = Idle
        /\ \E s : Captures(c, k.path, s)
    BY <1>6 DEF SaveWrites, ForceSave, Locks
  <2> QED BY <1>0, <1>3, <2>1
<1>7. CASE SaveConflicts(c)
  BY <1>0, <1>7 DEF SaveConflicts, CallShape, Inside
<1>8. CASE Retry(c)
  BY <1>0, <1>8 DEF Retry, CallShape, Inside
<1>9. CASE Recover(c)
  BY <1>0, <1>9 DEF Recover, CallShape, Inside
<1>10. CASE Fork(c)
  <2> DEFINE q == Append(k.path, k.cap)
  <2>1. /\ Holder(locked, q) = Idle
        /\ j = [k EXCEPT !.path = q, !.shape = "fork", !.was = Stored(File(q)),
                         !.pc = IF Normalize(Stored(File(q))) = k.cap THEN "record" ELSE "log"]
    BY <1>0, <1>10 DEF Fork
  <2>2. /\ j.pc \in Inside /\ j.on = k.on /\ j.op = k.op /\ j.end = k.end /\ j.cap = k.cap
        /\ j.was = Stored(File(q))
    BY <1>0, <2>1 DEF CallShape, Inside, Writing
  <2>3. q \in Path
    BY <1>0, PathGrows
  <2> QED BY <2>1, <2>2, <2>3
<1> QED BY <1>4, <1>5, <1>6, <1>7, <1>8, <1>9, <1>10 DEF SaveStep

\* The memory of a runtime after a step of its save.
LEMMA MemMoves ==
  ASSUME SaveInv, NEW c \in Saves, SaveStep(c), NEW r \in Runtimes, r = call[c].on
  PROVE  \/ mem'[r] = mem[r] /\ ~(SaveIsUpToDate(c) \/ Record(c) \/ Adopt(c))
         \/ /\ Adopt(c) /\ mem'[r] = Loaded(call[c].path) /\ Holder(locked, call[c].path) = Idle
         \/ /\ SaveIsUpToDate(c) /\ mem'[r].msgs = mem[r].msgs /\ mem'[r].up /\ mem'[r].path = call[c].path
            /\ mem'[r].base = Base(call[c].path, mem[r].msgs, File(call[c].path).rev)
         \/ /\ Record(c) /\ mem'[r].msgs = mem[r].msgs /\ mem'[r].up /\ mem'[r].path = call[c].path
            /\ mem'[r].base = Base(call[c].path, call[c].cap, Recorded(c).rev)
<1>0. mem \in [Runtimes -> MemShape] /\ mem[r].up /\ mem[r] \in MemShape
  BY StepIsInside, CallIsOne DEF SaveInv, Shapes
<1>1. ASSUME NEW p, NEW t, NEW n, NEW w, MarkPersisted(r, p, t, n, w)
      PROVE  mem'[r].msgs = mem[r].msgs /\ mem'[r].up /\ mem'[r].path = p /\ mem'[r].base = Base(p, t, n)
  BY <1>0, <1>1 DEF MarkPersisted, MemShape
<1>2. CASE SaveIsUpToDate(c)
  <2>1. MarkPersisted(r, call[c].path, mem[r].msgs, File(call[c].path).rev, mem[r].rw)
    BY <1>2 DEF SaveIsUpToDate
  <2> QED BY <1>1, <1>2, <2>1
<1>3. CASE Record(c)
  <2>1. MarkPersisted(r, call[c].path, call[c].cap, Recorded(c).rev, call[c].rw)
    BY <1>3 DEF Record
  <2> QED BY <1>1, <1>3, <2>1
<1>4. CASE Adopt(c)
  BY <1>0, <1>4 DEF Adopt
<1>5. CASE ~(SaveIsUpToDate(c) \/ Record(c) \/ Adopt(c))
  BY <1>5 DEF SaveStep, SaveWrites, SaveConflicts, WriteLog, WriteAnchor, Retry, Recover, ForceSave, Fork, WriteFails
<1> QED BY <1>2, <1>3, <1>4, <1>5

\* Membership in what is known and in what others have.
KnownIs ==
  \A m : m \in Known <=> \/ m \in OnDisk \/ m \in AllCut
                         \/ \E r \in Runtimes : m \in OfRuntime(r)
                         \/ \E c \in Saves : m \in OfCall(c)
OthersAre ==
  \A r \in Runtimes :
    \A m : m \in Others(r) <=> \/ m \in AllCut
                               \/ \E s \in Runtimes : s # r /\ m \in OfRuntime(s)
                               \/ \E c \in Saves : call[c].on # r /\ m \in OfCall(c)
LEMMA KnownOnes == KnownIs
<1> DEFINE R == UNION {OfRuntime(r) : r \in Runtimes}  C == UNION {OfCall(c) : c \in Saves}
<1>1. \A m : m \in R <=> \E r \in Runtimes : m \in OfRuntime(r)
  BY Zenon
<1>2. \A m : m \in C <=> \E c \in Saves : m \in OfCall(c)
  BY Zenon
<1>3. Known = OnDisk \cup AllCut \cup R \cup C
  BY DEF Known, R, C
<1> HIDE DEF R, C
<1> QED BY <1>1, <1>2, <1>3 DEF KnownIs

LEMMA OtherOnes == OthersAre
<1> SUFFICES ASSUME NEW r \in Runtimes
             PROVE  \A m : m \in Others(r) <=> \/ m \in AllCut
                                               \/ \E s \in Runtimes : s # r /\ m \in OfRuntime(s)
                                               \/ \E c \in Saves : call[c].on # r /\ m \in OfCall(c)
  BY DEF OthersAre
<1> DEFINE S == {d \in Saves : call[d].on # r}  T == Runtimes \ {r}
           R == UNION {OfRuntime(s) : s \in T}  C == UNION {OfCall(c) : c \in S}
<1>3. Others(r) = AllCut \cup R \cup C
  BY DEF Others, R, C, S, T
<1>4. (\A s : s \in T <=> s \in Runtimes /\ s # r) /\ (\A c : c \in S <=> c \in Saves /\ call[c].on # r)
  OBVIOUS
<1> HIDE DEF S, T
<1>1. \A m : m \in R <=> \E s \in T : m \in OfRuntime(s)
  BY Zenon
<1>2. \A m : m \in C <=> \E c \in S : m \in OfCall(c)
  BY Zenon
<1> HIDE DEF R, C
<1> QED BY <1>1, <1>2, <1>3, <1>4

LEMMA MessagesMove ==
  ASSUME SaveInv, NEW c \in Saves, SaveStep(c), Shapes', NEW r \in Runtimes, r = call[c].on
  PROVE  /\ Real(AllCut') \subseteq AllCut \cup (IF Record(c) THEN MessagesOf(call[c].was) ELSE {})
         /\ Real(OfRuntime(r)') \subseteq OfRuntime(r) \cup OfCall(c) \cup Free(c)
         /\ Real(OfCall(c)') \subseteq OfCall(c) \cup OfRuntime(r) \cup Free(c)
         /\ \A s \in Runtimes \ {r} : OfRuntime(s)' = OfRuntime(s)
         /\ \A d \in Saves \ {c} : OfCall(d)' = OfCall(d)
<1>0. call[c].path \in Path /\ \A S : Real(S) \subseteq S
  BY StepIsInside, CallIsOne DEF SaveInv, Real
<1>1. Real(AllCut') \subseteq AllCut \cup (IF Record(c) THEN MessagesOf(call[c].was) ELSE {})
  <2>1. CASE cut' = cut
    BY <1>0, <2>1 DEF AllCut
  <2>2. CASE WriteLog(c) \/ Record(c)
    <3>1. Gone(c) \subseteq MessagesOf(call[c].was)
      BY DEF Gone, Real
    <3>2. \A q : SetOf(cut, q)' \subseteq SetOf(cut, q) \cup (IF Record(c) THEN MessagesOf(call[c].was) ELSE {})
      BY <2>2, <3>1, CutMoves
    <3>3. \A q \in DOMAIN cut' : cut'[q] = SetOf(cut, q)'
      BY DEF SetOf
    <3>4. \A q : SetOf(cut, q) \subseteq AllCut
      BY CutsAreAll
    <3>5. \A q \in DOMAIN cut' : cut'[q] \subseteq AllCut \cup (IF Record(c) THEN MessagesOf(call[c].was) ELSE {})
      BY <3>2, <3>3, <3>4
    <3> QED BY <1>0, <3>5 DEF AllCut
  <2> QED BY <2>1, <2>2, CutMoves
<1>2. Real(OfRuntime(r)') \subseteq OfRuntime(r) \cup OfCall(c) \cup Free(c)
  <2>1. CASE Adopt(c)
    <3>1. mem'[r] = Loaded(call[c].path) /\ Holder(locked, call[c].path) = Idle
      BY <2>1, MemMoves DEF Adopt, SaveIsUpToDate, Record, GivesUp, Locks
    <3>2. InFile(call[c].path) \subseteq Free(c)
      BY <3>1, FreeIsRead
    <3>3. Real(MessagesOf(mem'[r].msgs)) \subseteq Free(c) /\ mem'[r].base.msgs = mem'[r].msgs
      BY <1>0, <3>1, <3>2, LoadHolds
    <3> QED BY <3>3 DEF OfRuntime, Real
  <2>2. CASE ~Adopt(c)
    <3>0. \A q, t, n : Base(q, t, n).msgs = t
      BY DEF Base
    <3>1. /\ mem'[r].msgs = mem[r].msgs
          /\ mem'[r].base.msgs \in {mem[r].base.msgs, mem[r].msgs, call[c].cap}
      BY <2>2, <3>0, MemMoves
    <3> QED BY <1>0, <3>1 DEF OfRuntime, OfCall
  <2> QED BY <2>1, <2>2
<1>3. Real(OfCall(c)') \subseteq OfCall(c) \cup OfRuntime(r) \cup Free(c)
  <2>0. MessagesOf(<<>>) = {}
    BY DEF MessagesOf
  <2>1. MessagesOf(call'[c].cap) \subseteq OfCall(c) \cup OfRuntime(r)
    BY <2>0, CallMoves DEF OfCall, OfRuntime
  <2>2. MessagesOf(call'[c].was) \subseteq OfCall(c) \cup Free(c)
    <3>1. CASE call'[c].was \in {<<>>, call[c].was}
      BY <2>0, <3>1 DEF OfCall
    <3>2. CASE \E q \in Path : call'[c].was = Stored(File(q)) /\ Holder(locked, q) = Idle
      <4>1. PICK q \in Path : call'[c].was = Stored(File(q)) /\ Holder(locked, q) = Idle
        BY <3>2
      <4>2. InFile(q) \subseteq Free(c)
        BY <4>1, FreeIsRead
      <4> QED BY <4>1, <4>2 DEF InFile
    <3> QED BY <3>1, <3>2, CallMoves
  <2> QED BY <1>0, <2>1, <2>2 DEF OfCall
<1>4. \A s \in Runtimes \ {r} : OfRuntime(s)' = OfRuntime(s)
  BY OthersStay DEF OfRuntime
<1>5. \A d \in Saves \ {c} : OfCall(d)' = OfCall(d)
  BY OthersStay DEF OfCall
<1> QED BY <1>1, <1>2, <1>3, <1>4, <1>5

\* No step of a save makes a message but a placeholder.
LEMMA NothingNew ==
  ASSUME SaveInv, NEW c \in Saves, SaveStep(c), Shapes'
  PROVE  Real(Known') \subseteq Known
<1>0. PICK r \in Runtimes : r = call[c].on
  BY StepIsInside, CallIsOne DEF SaveInv
<1>1. /\ AllCut \subseteq Known /\ OnDisk \subseteq Known
      /\ \A s \in Runtimes : OfRuntime(s) \subseteq Known
      /\ \A d \in Saves : OfCall(d) \subseteq Known
      /\ Free(c) \subseteq Known
  BY KnownOnes DEF KnownIs, Free
<1>a. MessagesOf(call[c].was) \subseteq OfCall(c) /\ MessagesOf(call[c].cap) \subseteq OfCall(c)
  BY DEF OfCall
<1>2. \A S : Real(S) \subseteq S
  BY DEF Real
<1>3. Real(AllCut') \subseteq Known /\ Real(OnDisk') \subseteq Known
  BY <1>0, <1>1, <1>a, <1>2, MessagesMove, StoredMoves
<1>4. \A s \in Runtimes : Real(OfRuntime(s)') \subseteq Known
  BY <1>0, <1>1, <1>a, <1>2, MessagesMove
<1>5. \A d \in Saves : Real(OfCall(d)') \subseteq Known
  BY <1>0, <1>1, <1>a, <1>2, MessagesMove
<1>6. ASSUME NEW m \in Known', m[1] # "stub"
      PROVE  m \in Known
  <2>1. \/ m \in OnDisk' \/ m \in AllCut'
        \/ \E s \in Runtimes : m \in OfRuntime(s)'
        \/ \E d \in Saves : m \in OfCall(d)'
    <3>1. KnownIs'
      BY KnownOnes, PTL
    <3> QED BY <1>6, <3>1 DEF KnownIs
  <2> QED BY <1>3, <1>4, <1>5, <1>6, <2>1 DEF Real
<1> QED BY <1>6 DEF Real

\* What other runtimes cannot have made but may hold after the step.
LEMMA OthersMove ==
  ASSUME SaveInv, NEW c \in Saves, SaveStep(c), Shapes', NEW s \in Runtimes
  PROVE  /\ s # call[c].on => Real(Others(s)') \subseteq Others(s) \cup Free(c)
         /\ s = call[c].on => Real(Others(s)') \subseteq Others(s) \cup (IF Record(c) THEN MessagesOf(call[c].was) ELSE {})
<1>0. PICK r \in Runtimes : r = call[c].on
  BY StepIsInside, CallIsOne DEF SaveInv
<1>1. /\ Real(AllCut') \subseteq AllCut \cup (IF Record(c) THEN MessagesOf(call[c].was) ELSE {})
      /\ Real(OfRuntime(r)') \subseteq OfRuntime(r) \cup OfCall(c) \cup Free(c)
      /\ Real(OfCall(c)') \subseteq OfCall(c) \cup OfRuntime(r) \cup Free(c)
      /\ \A t \in Runtimes \ {r} : OfRuntime(t)' = OfRuntime(t)
      /\ \A d \in Saves \ {c} : OfCall(d)' = OfCall(d) /\ call'[d] = call[d]
  BY <1>0, MessagesMove, OthersStay
<1>2. \A m \in Others(s)' : \/ m \in AllCut'
                            \/ \E t \in Runtimes \ {s} : m \in OfRuntime(t)'
                            \/ \E d \in Saves : call'[d].on # s /\ m \in OfCall(d)'
  <2>1. OthersAre'
    BY OtherOnes, PTL
  <2> QED BY <2>1 DEF OthersAre
<1>3. /\ AllCut \subseteq Others(s)
      /\ \A t \in Runtimes \ {s} : OfRuntime(t) \subseteq Others(s)
      /\ \A d \in Saves : call[d].on # s => OfCall(d) \subseteq Others(s)
  BY OtherOnes DEF OthersAre
<1>4. MessagesOf(call[c].was) \subseteq OfCall(c)
  BY DEF OfCall
<1>5. CASE s # r
  <2>1. OfRuntime(r) \subseteq Others(s) /\ OfCall(c) \subseteq Others(s)
    BY <1>0, <1>3, <1>5
  <2>2. \A m \in Real(Others(s)') : m \in Others(s) \cup Free(c)
    <3> TAKE m \in Real(Others(s)')
    <3>1. m \in Others(s)' /\ m[1] # "stub"
      BY DEF Real
    <3>2. CASE m \in AllCut'
      BY <1>1, <1>3, <1>4, <2>1, <3>1, <3>2 DEF Real
    <3>3. CASE \E t \in Runtimes \ {s} : m \in OfRuntime(t)'
      BY <1>1, <1>3, <2>1, <3>1, <3>3 DEF Real
    <3>4. CASE \E d \in Saves : call'[d].on # s /\ m \in OfCall(d)'
      BY <1>1, <1>3, <2>1, <3>1, <3>4 DEF Real
    <3> QED BY <1>2, <3>1, <3>2, <3>3, <3>4
  <2> QED BY <1>0, <1>5, <2>2
<1>6. CASE s = r
  <2>1. call'[c].on # r => OfCall(c)' = {}
    BY <1>0, CallMoves DEF OfCall, MessagesOf
  <2>2. \A m \in Real(Others(s)') : m \in Others(s) \cup (IF Record(c) THEN MessagesOf(call[c].was) ELSE {})
    <3> TAKE m \in Real(Others(s)')
    <3>1. m \in Others(s)' /\ m[1] # "stub"
      BY DEF Real
    <3>2. CASE m \in AllCut'
      BY <1>1, <1>3, <3>1, <3>2 DEF Real
    <3>3. CASE \E t \in Runtimes \ {s} : m \in OfRuntime(t)'
      BY <1>1, <1>3, <1>6, <3>1, <3>3 DEF Real
    <3>4. CASE \E d \in Saves : call'[d].on # s /\ m \in OfCall(d)'
      BY <1>1, <1>3, <1>6, <2>1, <3>1, <3>4 DEF Real
    <3> QED BY <1>2, <3>1, <3>2, <3>3, <3>4
  <2> QED BY <1>0, <1>6, <2>2
<1> QED BY <1>5, <1>6

(***************************************************************************)
(* What is cut stays cut, step by step.                                    *)
(***************************************************************************)
\* A runtime whose transcript and calls stay as they are keeps what it added to
\* itself: nobody else makes its messages, and only its own writes take them to
\* a file.
LEMMA BystanderKeeps ==
  ASSUME SaveInv, NEW s \in Runtimes, AddedOK(s), \A d \in Saves : LaterOK(d),
         mem'[s] = mem[s], \A d \in Saves : call[d].on = s \/ call'[d].on = s => call'[d] = call[d],
         NEW F, NEW N, Real(Others(s)') \subseteq Others(s) \cup F \cup N,
         \A m \in F : \E q \in DOMAIN disk : m \in InFile(q) /\ ~WritesTo(s, q),
         N \cap Known = {},
         \A q : InFile(q)' \subseteq InFile(q) \cup Others(s), OnDisk' \subseteq OnDisk \cup Others(s)
  PROVE  AddedOK(s)' /\ \A d \in Saves : call'[d].on = s => LaterOK(d)'
<1>0. /\ \A q : InFile(q) \subseteq OnDisk
      /\ \A q : q \notin DOMAIN disk => InFile(q) = {}
  BY FilesAreTheDisk
<1>1. StripsOn(s)' = StripsOn(s) /\ \A q : WritesTo(s, q)' = WritesTo(s, q)
  BY DEF StripsOn, WritesTo
<1>2. Added(s)' = Added(s)
  BY DEF Added
<1>3. Real(OfRuntime(s)) \subseteq Known
  BY KnownOnes DEF KnownIs, Real
<1>4. ASSUME mem'[s].up, ~StripsOn(s)'
      PROVE  /\ Added(s)' \cap Others(s)' = {}
             /\ \A q \in DOMAIN disk' : ~WritesTo(s, q)' => Added(s)' \cap InFile(q)' = {}
  <2>1. /\ Added(s) \cap Others(s) = {}
        /\ \A q \in DOMAIN disk : ~WritesTo(s, q) => Added(s) \cap InFile(q) = {}
    BY <1>1, <1>4 DEF AddedOK
  <2>2. Added(s) \subseteq Known /\ \A m \in Added(s) : m[1] # "stub"
    BY <1>3 DEF Added, OfRuntime, Real
  <2>3. \A m \in Added(s) : m \notin F
    BY <2>1
  <2>4. Added(s) \cap Others(s)' = {}
    BY <2>1, <2>2, <2>3 DEF Real
  <2>5. \A q : ~WritesTo(s, q) => Added(s) \cap InFile(q)' = {}
    BY <1>0, <2>1
  <2> QED BY <1>1, <1>2, <2>4, <2>5
<1>5. ASSUME NEW d \in Saves, call'[d].on = s, call'[d].pc \in Writing \cup {"fork"}
      PROVE  Later(d, s)' \cap (Others(s)' \cup OnDisk' \cup MessagesOf(call'[d].was)) = {}
  <2>0. call'[d] = call[d]
    BY <1>5
  <2>1. Later(d, s) \cap (Others(s) \cup OnDisk \cup MessagesOf(call[d].was)) = {}
    BY <1>5, <2>0 DEF LaterOK
  <2>2. Later(d, s)' = Later(d, s)
    BY <2>0 DEF Later
  <2>3. Later(d, s) \subseteq Known /\ \A m \in Later(d, s) : m[1] # "stub"
    BY <1>3 DEF Later, OfRuntime, Real
  <2>4. F \subseteq OnDisk
    BY <1>0
  <2>5. Later(d, s) \cap Others(s)' = {}
    BY <2>1, <2>3, <2>4 DEF Real
  <2>6. Later(d, s) \cap OnDisk' = {}
    BY <2>1
  <2> QED BY <2>0, <2>1, <2>2, <2>5, <2>6
<1> QED BY <1>4, <1>5 DEF AddedOK, LaterOK

\* A baseline stays sound while revisions grow and what is cut grows only with
\* them.
LEMMA BaselineStays ==
  ASSUME SaveInv, NEW s \in Runtimes, BaseOK(s),
         mem'[s].base = mem[s].base, mem'[s].path = mem[s].path, mem'[s].up => mem[s].up,
         \A q : File(q).rev \in Nat /\ (File(q).rev)' \in Nat,
         \A q : File(q).rev <= (File(q).rev)',
         \A q : (File(q).rev)' = File(q).rev => SetOf(cut, q)' \subseteq SetOf(cut, q)
  PROVE  BaseOK(s)'
<1> SUFFICES ASSUME mem'[s].up
             PROVE  BaseOK(s)'
  BY DEF BaseOK
<1>1. PICK p : p = mem[s].path /\ p = mem'[s].path
  OBVIOUS
<1>2. PICK b : b = mem[s].base /\ b = mem'[s].base
  OBVIOUS
<1>3. /\ b.ok /\ b.path = p /\ b.rev <= File(p).rev
      /\ b.rev = File(p).rev => MessagesOf(b.msgs) \cap SetOf(cut, p) = {}
  BY <1>1, <1>2 DEF BaseOK
<1>4. b.rev \in Nat
  BY <1>2 DEF SaveInv, Shapes, MemShape, BaseShape
<1>5. b.rev <= (File(p).rev)' /\ (b.rev = (File(p).rev)' => b.rev = File(p).rev /\ (File(p).rev)' = File(p).rev)
  BY <1>3, <1>4
<1>6. b.rev = (File(p).rev)' => MessagesOf(b.msgs) \cap SetOf(cut, p)' = {}
  BY <1>3, <1>5
<1>7. /\ mem'[s].base.ok /\ mem'[s].base.path = mem'[s].path /\ mem'[s].base.rev <= File(mem[s].path)'.rev
      /\ mem'[s].base.rev = File(mem[s].path)'.rev =>
           MessagesOf(mem'[s].base.msgs) \cap SetOf(cut', mem'[s].path) = {}
  BY <1>1, <1>2, <1>3, <1>5, <1>6 DEF File, SetOf
<1> QED BY <1>1, <1>7 DEF BaseOK, File, SetOf

\* Messages keep their numbers, and calls in memory wait for their answers.
LEMMA SavingKeepsNumbers ==
  ASSUME SaveInv, CutInv, NEW c \in Saves, SaveStep(c), Shapes'
  PROVE  NumbersOK' /\ AnswersOK'
<1>0. PICK r \in Runtimes : r = call[c].on
  BY StepIsInside, CallIsOne DEF SaveInv
<1>1. made' = made
  BY DEF SaveStep, SaveWrites, SaveIsUpToDate, SaveConflicts, WriteLog, WriteAnchor, Record, Retry, Adopt,
     Recover, ForceSave, Fork, WriteFails
<1>2. \A m : m \in Known' /\ m[1] # "stub" => m \in Known
  BY NothingNew DEF Real
<1>3. NumbersOK'
  BY <1>1, <1>2 DEF CutInv, NumbersOK, Real
<1>4. \A s \in Runtimes : EndsInCall(mem'[s].msgs) => mem'[s].msgs = mem[s].msgs
  <2>1. \A s \in Runtimes \ {r} : mem'[s] = mem[s]
    BY <1>0, OthersStay
  <2>2. EndsInCall(mem'[r].msgs) => mem'[r].msgs = mem[r].msgs
    <3>1. call[c].path \in Path
      BY StepIsInside, CallIsOne DEF SaveInv
    <3>2. ~EndsInCall(Loaded(call[c].path).msgs)
      BY <3>1, LoadHolds
    <3> QED BY <1>0, <3>2, MemMoves
  <2> QED BY <2>1, <2>2
<1>5. ASSUME NEW s \in Runtimes, EndsInCall(mem'[s].msgs)
      PROVE  /\ Answer(s)' = Answer(s) /\ EndsInCall(mem[s].msgs)
             /\ Answer(s)' \notin Known'
  <2>1. Answer(s)' = Answer(s) /\ EndsInCall(mem[s].msgs)
    BY <1>4, <1>5 DEF Answer
  <2>2. Answer(s) \notin Known
    BY <2>1 DEF CutInv, AnswersOK
  <2>3. Answer(s)[1] # "stub"
    BY DEF Answer
  <2> QED BY <1>2, <2>1, <2>2, <2>3
<1>6. ASSUME NEW d \in Saves, call'[d].op = "strip", call'[d].pc = "enter"
      PROVE  ~EndsInCall(call'[d].cap)
  <2>1. d # c
    BY <1>6, CallMoves DEF Inside, Writing
  <2>2. call'[d] = call[d]
    BY <2>1, OthersStay
  <2> QED BY <1>6, <2>2 DEF CutInv, AnswersOK
<1> QED BY <1>3, <1>5, <1>6 DEF CutInv, AnswersOK

\* What is cut is of a file that exists, and a call works on its runtime's path.
LEMMA SavingKeepsPlaces ==
  ASSUME SaveInv, CutInv, NEW c \in Saves, SaveStep(c), Shapes'
  PROVE  CutsOK' /\ \A d \in Saves : NewOK(d)' /\ PathOK(d)'
<1> DEFINE p == call[c].path
<1>0. p \in Path /\ call[c].on \in Runtimes /\ call \in [Saves -> CallShape] /\ call[c].pc \in Inside
  BY StepIsInside, CallIsOne DEF SaveInv, Shapes
<1>1. CutsOK'
  <2>1. DOMAIN cut' \subseteq Path
    BY <1>0, CutMoves DEF CutInv, CutsOK
  <2>2. ASSUME NEW q \in DOMAIN cut'
        PROVE  Real(cut'[q]) = cut'[q] /\ (cut'[q] # {} => Exists(q)')
    <3>0. cut'[q] = SetOf(cut, q)' /\ q \in Path
      BY <2>1, <2>2 DEF SetOf
    <3>1. SetOf(cut, q)' \subseteq SetOf(cut, q) \cup (IF Record(c) /\ q = p THEN Gone(c) ELSE {})
      <4>1. CASE WriteLog(c)
        BY <4>1, CutMoves
      <4>2. CASE Record(c)
        BY <4>2, CutMoves
      <4>3. CASE ~WriteLog(c) /\ ~Record(c)
        BY <4>3, CutMoves DEF SetOf
      <4> QED BY <4>1, <4>2, <4>3
    <3>2. Real(SetOf(cut, q)) = SetOf(cut, q) /\ (SetOf(cut, q) # {} => Exists(q))
      BY DEF CutInv, CutsOK, SetOf, Real
    <3>3. \A m \in Gone(c) : m[1] # "stub"
      BY DEF Gone, Real
    <3>4. \A m \in SetOf(cut, q) : m[1] # "stub"
      BY <3>2 DEF Real
    <3>5. Real(cut'[q]) = cut'[q]
      BY <3>0, <3>1, <3>3, <3>4 DEF Real
    <3>6. Record(c) => Exists(p)
      BY RecordFinds DEF Record
    <3>7. cut'[q] # {} => Exists(q)
      BY <3>0, <3>1, <3>2, <3>6
    <3> QED BY <3>0, <3>5, <3>7, DiskKeeps
  <2> QED BY <2>1, <2>2 DEF CutsOK
<1>2. ASSUME NEW d \in Saves \ {c}
      PROVE  NewOK(d)' /\ PathOK(d)'
  <2>0. call'[d] = call[d]
    BY OthersStay
  <2>1. NewOK(d) /\ PathOK(d)
    BY DEF CutInv
  <2>2. call[d].pc \in {"lock", "conflict"} => call[d].on # call[c].on /\ call[d].on \in Runtimes
    BY <1>0 DEF SaveInv, CallsOK, CallOK, Inside
  <2>3. call[d].pc \in {"lock", "conflict"} => mem'[call[d].on] = mem[call[d].on]
    BY <2>2, OthersStay
  <2> QED BY <2>0, <2>1, <2>3 DEF NewOK, PathOK
<1>3. NewOK(c)' /\ PathOK(c)'
  <2>1. call'[c].pc # "new"
    BY CallMoves DEF Inside, Writing
  <2>2. CASE SaveConflicts(c)
    <3>1. call'[c].path = p /\ call'[c].on = call[c].on /\ mem' = mem /\ call[c].pc = "lock"
      BY <1>0, <2>2 DEF SaveConflicts, Locks, CallShape
    <3> QED BY <2>1, <3>1 DEF CutInv, PathOK, NewOK
  <2>3. CASE Retry(c)
    <3>1. call'[c].path = p /\ call'[c].on = call[c].on /\ mem' = mem /\ call[c].pc = "conflict"
      BY <1>0, <2>3 DEF Retry, CallShape
    <3> QED BY <2>1, <3>1 DEF CutInv, PathOK, NewOK
  <2>4. CASE ~SaveConflicts(c) /\ ~Retry(c)
    <3>1. call'[c].pc \notin {"lock", "conflict"}
      <4>1. CASE SaveIsUpToDate(c) \/ Record(c) \/ Adopt(c) \/ WriteFails(c)
        <5>1. PICK how : Leave(c, how)
          BY <4>1 DEF SaveIsUpToDate, Record, Adopt, WriteFails
        <5> QED BY <1>0, <5>1 DEF Leave, Ended, NewCall
      <4>2. CASE WriteLog(c) \/ WriteAnchor(c)
        BY <1>0, <4>2 DEF WriteLog, WriteAnchor, MoveTo, CallShape
      <4>3. CASE SaveWrites(c) \/ ForceSave(c)
        <5>1. PICK s : Captures(c, p, s)
          BY <4>3 DEF SaveWrites, ForceSave
        <5> QED BY <1>0, <5>1 DEF Captures, CallShape
      <4>4. CASE Recover(c)
        BY <1>0, <4>4 DEF Recover, CallShape
      <4>5. CASE Fork(c)
        BY <1>0, <4>5 DEF Fork, CallShape
      <4> QED BY <2>4, <4>1, <4>2, <4>3, <4>4, <4>5 DEF SaveStep
    <3> QED BY <2>1, <3>1 DEF PathOK, NewOK
  <2> QED BY <2>2, <2>3, <2>4
<1> QED BY <1>1, <1>2, <1>3

\* What holds of messages while no save has failed.
Unfailed ==
  /\ \A r \in Runtimes : AddedOK(r) /\ BaseOK(r)
  /\ \A c \in Saves : LaterOK(c) /\ CutOK(c)
  /\ CutStaysCut /\ NoFailure

LEMMA FailuresStay ==
  ASSUME SaveInv, CutInv, NEW c \in Saves, SaveStep(c), NoFailure'
  PROVE  Unfailed /\ ~WriteFails(c)
<1>0. call \in [Saves -> CallShape] /\ call[c].pc \in Inside
  BY StepIsInside DEF SaveInv, Shapes
<1>1. ~WriteFails(c)
  <2> SUFFICES ASSUME WriteFails(c) PROVE FALSE
    OBVIOUS
  <2>1. Leave(c, "failed")
    BY DEF WriteFails
  <2>2. call'[c].end = "failed"
    BY <1>0, <2>1 DEF Leave, Ended, NewCall
  <2> QED BY <2>2 DEF NoFailure
<1>2. call[c].end # "failed"
  BY <1>0 DEF SaveInv, CallsOK, CallOK, Inside, Writing
<1>3. NoFailure
  BY <1>2, OthersStay DEF NoFailure
<1> QED BY <1>1, <1>3 DEF CutInv, Unfailed

\* The other runtimes keep what they added to themselves.
LEMMA SavingKeepsOthers ==
  ASSUME SaveInv, Unfailed, NEW c \in Saves, SaveStep(c), Shapes',
         NEW s \in Runtimes, s # call[c].on
  PROVE  AddedOK(s)' /\ \A d \in Saves : call'[d].on = s => LaterOK(d)'
<1>0. PICK r \in Runtimes : r = call[c].on
  BY StepIsInside, CallIsOne DEF SaveInv
<1>1. /\ mem'[s] = mem[s]
      /\ \A d \in Saves \ {c} : call'[d] = call[d]
      /\ \A d \in Saves : call[d].on = s <=> call'[d].on = s
  BY OthersStay, WritersStay
<1>2. Real(Others(s)') \subseteq Others(s) \cup Free(c) \cup {}
  BY OthersMove
<1>3. \A m \in Free(c) : \E q \in DOMAIN disk : m \in InFile(q) /\ ~WritesTo(s, q)
  BY FreeIsNotWritten DEF Free
<1>4. MessagesOf(call[c].cap) \subseteq Others(s)
  <2>1. OfCall(c) \subseteq Others(s)
    BY OtherOnes DEF OthersAre
  <2> QED BY <2>1 DEF OfCall
<1>5. /\ \A q : InFile(q)' \subseteq InFile(q) \cup Others(s)
      /\ OnDisk' \subseteq OnDisk \cup Others(s)
  BY <1>4, StoredMoves
<1>6. AddedOK(s) /\ \A d \in Saves : LaterOK(d)
  BY DEF Unfailed
<1>8. \A d \in Saves : call[d].on = s \/ call'[d].on = s => call'[d] = call[d]
  BY <1>1
<1> DEFINE F == Free(c)  N == {}
<1>9. N \cap Known = {} /\ Real(Others(s)') \subseteq Others(s) \cup F \cup N
  BY <1>2
<1>10. \A m \in F : \E q \in DOMAIN disk : m \in InFile(q) /\ ~WritesTo(s, q)
  BY <1>3
<1>11. mem'[s] = mem[s]
  BY <1>1
<1>12. \A q : InFile(q)' \subseteq InFile(q) \cup Others(s)
  BY <1>5
<1>13. OnDisk' \subseteq OnDisk \cup Others(s)
  BY <1>5
<1> HIDE DEF F, N
<1> QED BY <1>6, <1>8, <1>9, <1>10, <1>11, <1>12, <1>13, BystanderKeeps

\* The steps that end a save, and those that go on with it.
Ends(c) == SaveIsUpToDate(c) \/ Record(c) \/ Adopt(c)
LEMMA GoesOn ==
  ASSUME SaveInv, NEW c \in Saves, SaveStep(c), ~WriteFails(c), NEW r \in Runtimes, r = call[c].on
  PROVE  /\ ~Ends(c) =>
              /\ mem'[r] = mem[r] /\ call'[c].pc \in Inside /\ call'[c].on = r /\ call'[c].op = call[c].op
              /\ call[c].pc \in Writing => call'[c].pc \in Writing /\ call'[c].path = call[c].path
                                           /\ call'[c].cap = call[c].cap /\ call'[c].was = call[c].was
         /\ Ends(c) => call'[c].pc = "done" /\ call'[c].on = Idle
<1>0. call \in [Saves -> CallShape] /\ call[c].pc \in Inside
  BY StepIsInside DEF SaveInv, Shapes
<1>1. ASSUME Ends(c)
      PROVE  call'[c].pc = "done" /\ call'[c].on = Idle
  <2>1. PICK how : Leave(c, how)
    BY <1>1 DEF Ends, SaveIsUpToDate, Record, Adopt
  <2> QED BY <1>0, <2>1 DEF Leave, Ended, NewCall
<1>2. ASSUME ~Ends(c)
      PROVE  /\ mem'[r] = mem[r] /\ call'[c].pc \in Inside /\ call'[c].on = r /\ call'[c].op = call[c].op
             /\ call[c].pc \in Writing => call'[c].pc \in Writing /\ call'[c].path = call[c].path
                                          /\ call'[c].cap = call[c].cap /\ call'[c].was = call[c].was
  <2>1. mem'[r] = mem[r]
    BY <1>2, MemMoves DEF Ends
  <2>2. CASE WriteLog(c) \/ WriteAnchor(c)
    <3>1. PICK to \in Writing : MoveTo(c, to)
      BY <2>2 DEF WriteLog, WriteAnchor, Writing
    <3> QED BY <1>0, <2>1, <3>1 DEF MoveTo, CallShape, Inside
  <2>3. CASE SaveWrites(c) \/ ForceSave(c) \/ SaveConflicts(c) \/ Retry(c) \/ Recover(c) \/ Fork(c)
    <3>1. call[c].pc \notin Writing
      BY <2>3 DEF SaveWrites, ForceSave, SaveConflicts, Retry, Recover, Fork, GivesUp, Locks, Writing
    <3>2. call'[c].pc # "done"
      <4>1. CASE SaveWrites(c) \/ ForceSave(c)
        <5>1. PICK s, q : Captures(c, q, s)
          BY <4>1 DEF SaveWrites, ForceSave
        <5> QED BY <1>0, <5>1 DEF Captures, CallShape
      <4>2. CASE SaveConflicts(c)
        BY <1>0, <4>2 DEF SaveConflicts, CallShape
      <4>3. CASE Retry(c)
        BY <1>0, <4>3 DEF Retry, CallShape
      <4>4. CASE Recover(c)
        BY <1>0, <4>4 DEF Recover, CallShape
      <4>5. CASE Fork(c)
        BY <1>0, <4>5 DEF Fork, CallShape
      <4> QED BY <2>3, <4>1, <4>2, <4>3, <4>4, <4>5
    <3> QED BY <2>1, <3>1, <3>2, CallMoves
  <2> QED BY <1>2, <2>2, <2>3 DEF SaveStep, Ends
<1> QED BY <1>1, <1>2

\* One step at a time.
LEMMA StepsDiffer ==
  ASSUME NEW c \in Saves
  PROVE  /\ SaveIsUpToDate(c) => ~Record(c) /\ ~Adopt(c)
         /\ Record(c) => ~SaveIsUpToDate(c) /\ ~Adopt(c) /\ ~WriteLog(c) /\ ~WriteAnchor(c)
         /\ Adopt(c) => ~SaveIsUpToDate(c) /\ ~Record(c)
<1>1. SaveIsUpToDate(c) => call[c].pc = "lock"
  BY DEF SaveIsUpToDate, Locks
<1>2. Record(c) => call[c].pc = "record"
  BY DEF Record
<1>3. Adopt(c) => call[c].pc \in {"adopt", "conflict"}
  BY DEF Adopt, GivesUp
<1>4. (WriteLog(c) => call[c].pc = "log") /\ (WriteAnchor(c) => call[c].pc = "anchor")
  BY DEF WriteLog, WriteAnchor
<1> QED BY <1>1, <1>2, <1>3, <1>4

\* The runtime that saves keeps what it added to itself.
LEMMA SavingKeepsOwn ==
  ASSUME SaveInv, Unfailed, NEW c \in Saves, SaveStep(c), ~WriteFails(c), Shapes', NEW r \in Runtimes, r = call[c].on
  PROVE  AddedOK(r)'
<1> DEFINE p == call[c].path
<1>0. /\ \A q : q \notin DOMAIN disk => InFile(q) = {}
      /\ \A q : InFile(q) \subseteq OnDisk
  BY FilesAreTheDisk
<1>1. CASE SaveIsUpToDate(c) \/ Adopt(c)
  <2>1. Real(MessagesOf(mem'[r].msgs) \ MessagesOf(mem'[r].base.msgs)) = {}
    <3>1. \A q, t, n : Base(q, t, n).msgs = t
      BY DEF Base
    <3>2. call[c].path \in Path
      BY StepIsInside, CallIsOne DEF SaveInv
    <3>3. mem'[r].msgs = mem'[r].base.msgs
      BY <1>1, <3>1, <3>2, MemMoves, LoadHolds, StepsDiffer
    <3> QED BY <3>3 DEF Real
  <2>2. Added(r)' = {}
    BY <2>1 DEF Added
  <2> QED BY <2>2 DEF AddedOK
<1>2. CASE Record(c)
  <2>1. Added(r)' = Later(c, r)
    <3>1. \A q, t, n : Base(q, t, n).msgs = t
      BY DEF Base
    <3>2. mem'[r].msgs = mem[r].msgs /\ mem'[r].base.msgs = call[c].cap
      BY <1>2, <3>1, MemMoves, StepsDiffer
    <3> QED BY <3>2 DEF Added, Later
  <2>2. Later(c, r) \cap (Others(r) \cup OnDisk \cup MessagesOf(call[c].was)) = {}
    BY <1>2 DEF Unfailed, LaterOK, Record, Writing
  <2>3. Real(Others(r)') \subseteq Others(r) \cup MessagesOf(call[c].was)
    BY <1>2, OthersMove
  <2>4. \A m \in Later(c, r) : m[1] # "stub"
    BY DEF Later, Real
  <2>5. Added(r)' \cap Others(r)' = {}
    BY <2>1, <2>2, <2>3, <2>4 DEF Real
  <2>6. \A q : InFile(q)' = InFile(q)
    BY <1>2, StoredMoves, StepsDiffer
  <2>7. \A q \in DOMAIN disk' : Added(r)' \cap InFile(q)' = {}
    BY <1>0, <2>1, <2>2, <2>6
  <2> QED BY <2>5, <2>7 DEF AddedOK
<1>3. CASE ~Ends(c)
  <2>0. /\ mem'[r] = mem[r] /\ call'[c].pc \in Inside /\ call'[c].on = r /\ call'[c].op = call[c].op
        /\ call[c].pc \in Writing => call'[c].pc \in Writing /\ call'[c].path = call[c].path
    BY <1>3, GoesOn
  <2>1. \A d \in Saves \ {c} : call'[d] = call[d]
    BY OthersStay
  <2>2. StripsOn(r) => StripsOn(r)'
    BY <2>0, <2>1 DEF StripsOn
  <2>3. \A q : WritesTo(r, q) => WritesTo(r, q)'
    BY <2>0, <2>1 DEF WritesTo
  <2>4. Added(r)' = Added(r) /\ \A m \in Added(r) : m[1] # "stub"
    BY <2>0 DEF Added, Real
  <2>5. ~Record(c) /\ Real(Others(r)') \subseteq Others(r)
    BY <1>3, OthersMove DEF Ends
  <2>6. WriteLog(c) \/ WriteAnchor(c) => WritesTo(r, p)
    BY DEF WriteLog, WriteAnchor, WritesTo, Writing
  <2>7. ASSUME mem'[r].up, ~StripsOn(r)'
        PROVE  /\ Added(r)' \cap Others(r)' = {}
               /\ \A q \in DOMAIN disk' : ~WritesTo(r, q)' => Added(r)' \cap InFile(q)' = {}
    <3>1. /\ Added(r) \cap Others(r) = {}
          /\ \A q \in DOMAIN disk : ~WritesTo(r, q) => Added(r) \cap InFile(q) = {}
      BY <2>0, <2>2, <2>7 DEF Unfailed, AddedOK
    <3>2. Added(r)' \cap Others(r)' = {}
      BY <2>4, <2>5, <3>1 DEF Real
    <3>3. ASSUME NEW q, ~WritesTo(r, q)'
          PROVE  InFile(q)' = InFile(q) /\ ~WritesTo(r, q)
      BY <2>3, <2>6, <3>3, StoredMoves
    <3> QED BY <1>0, <2>4, <3>1, <3>2, <3>3
  <2> QED BY <2>7 DEF AddedOK
<1> QED BY <1>1, <1>2, <1>3 DEF Ends

\* What a save captured since is its own until the next.
LEMMA SavingKeepsLater ==
  ASSUME SaveInv, Unfailed, NEW c \in Saves, SaveStep(c), ~WriteFails(c), Shapes', NEW r \in Runtimes, r = call[c].on,
         NEW d \in Saves
  PROVE  call'[d].on = r => LaterOK(d)'
<1> DEFINE k == call[c]  j == call'[c]  p == k.path
<1>0. /\ call \in [Saves -> CallShape] /\ k.pc \in Inside /\ k.path \in Path /\ k.cap \in Transcript /\ mu[r] = c
      /\ k \in CallShape
  BY StepIsInside, CallIsOne DEF SaveInv, Shapes
<1>1. ASSUME d # c, call'[d].on = r, call'[d].pc \in Writing \cup {"fork"}
      PROVE  FALSE
  <2>1. call'[d] = call[d]
    BY <1>1, OthersStay
  <2>2. mu[call[d].on] = d
    BY <1>1, <2>1 DEF SaveInv, CallsOK, CallOK, Inside
  <2> QED BY <1>0, <1>1, <2>1, <2>2
<1>2. ASSUME d = c, j.on = r, j.pc \in Writing \cup {"fork"}
      PROVE  Later(c, r)' \cap (Others(r)' \cup OnDisk' \cup MessagesOf(j.was)) = {}
  <2>0. ~Ends(c) /\ mem'[r] = mem[r] /\ ~Record(c)
    BY <1>2, GoesOn, SaveAssumption DEF Ends
  <2>1. CASE j.cap = mem[r].msgs
    <3>1. Later(c, r)' = {}
      BY <2>0, <2>1 DEF Later, Real
    <3> QED BY <3>1
  <2>2. CASE SaveWrites(c) \/ ForceSave(c)
    <3>1. PICK s, q : Captures(c, q, s)
      BY <2>2 DEF SaveWrites, ForceSave
    <3>2. j.cap = mem[r].msgs
      BY <1>0, <3>1 DEF Captures, CallShape
    <3> QED BY <2>1, <3>2
  <2>3. CASE Recover(c)
    <3>1. j.cap = mem[r].msgs
      BY <1>0, <2>3 DEF Recover, CallShape
    <3> QED BY <2>1, <3>1
  <2>4. CASE Retry(c) \/ SaveConflicts(c)
    <3>1. j.pc \in {"lock", "conflict"}
      <4>1. CASE Retry(c)
        BY <1>0, <4>1 DEF Retry, CallShape
      <4>2. CASE SaveConflicts(c)
        BY <1>0, <4>2 DEF SaveConflicts, CallShape
      <4> QED BY <2>4, <4>1, <4>2
    <3> QED BY <1>2, <3>1 DEF Writing
  <2>5. CASE WriteLog(c) \/ WriteAnchor(c) \/ Fork(c)
    <3>1. k.pc \in Writing \cup {"fork"}
      BY <2>5 DEF WriteLog, WriteAnchor, Fork, Writing
    <3>2. Later(c, r) \cap (Others(r) \cup OnDisk \cup MessagesOf(k.was)) = {}
      BY <3>1 DEF Unfailed, LaterOK
    <3>3. j.cap = k.cap
      <4>1. CASE Fork(c)
        BY <1>0, <4>1 DEF Fork, CallShape
      <4>2. CASE WriteLog(c) \/ WriteAnchor(c)
        <5>1. k.pc \in Writing
          BY <4>2 DEF WriteLog, WriteAnchor, Writing
        <5> QED BY <2>0, <5>1, GoesOn
      <4> QED BY <2>5, <4>1, <4>2
    <3>4. /\ Later(c, r)' = Later(c, r) /\ Later(c, r) \cap MessagesOf(k.cap) = {}
          /\ \A m \in Later(c, r) : m[1] # "stub"
      BY <2>0, <3>3 DEF Later, Real
    <3>5. Real(Others(r)') \subseteq Others(r)
      BY <2>0, OthersMove
    <3>6. Later(c, r)' \cap Others(r)' = {}
      BY <3>2, <3>4, <3>5 DEF Real
    <3>7. OnDisk' \subseteq OnDisk \cup MessagesOf(k.cap)
      BY StoredMoves
    <3>8. MessagesOf(j.was) \subseteq OnDisk \cup MessagesOf(k.was)
      <4>1. CASE WriteLog(c) \/ WriteAnchor(c)
        BY <2>0, <4>1, GoesOn DEF WriteLog, WriteAnchor, Writing
      <4>2. CASE Fork(c)
        <5>1. PICK q : j.was = Stored(File(q))
          BY <1>0, <4>2 DEF Fork, CallShape
        <5>2. MessagesOf(j.was) = InFile(q)
          BY <5>1 DEF InFile
        <5> QED BY <5>2, FilesAreTheDisk
      <4> QED BY <2>5, <4>1, <4>2
    <3> QED BY <3>2, <3>4, <3>6, <3>7, <3>8
  <2> QED BY <2>0, <2>2, <2>3, <2>4, <2>5 DEF SaveStep, Ends
<1> QED BY <1>1, <1>2 DEF LaterOK

\* What is cut grows only with the revision.
LEMMA CutsAreRevisions ==
  ASSUME SaveInv, NEW c \in Saves, SaveStep(c), Shapes'
  PROVE  /\ \A q : File(q).rev \in Nat /\ (File(q).rev)' \in Nat
         /\ \A q : File(q).rev <= (File(q).rev)'
         /\ \A q : (File(q).rev)' = File(q).rev => SetOf(cut, q)' \subseteq SetOf(cut, q)
<1> DEFINE p == call[c].path
<1>0. p \in Path /\ call[c] \in CallShape /\ File(p) \in FileShape
  BY StepIsInside, CallIsOne DEF SaveInv
<1>1. \A q : File(q).rev \in Nat
  BY DEF SaveInv, Shapes, File, FileShape, NoFile
<1>2. \A q : (File(q).rev)' \in Nat
  BY DEF Shapes, File, FileShape, NoFile
<1>3. \A q : File(q).rev <= (File(q).rev)'
  BY StoredMoves
<1>4. CASE ~Record(c) \/ ~IsRewrite(c)
  <2>1. \A q : SetOf(cut, q)' \subseteq SetOf(cut, q)
    <3>1. CASE WriteLog(c)
      BY <3>1, CutMoves
    <3>2. CASE Record(c)
      BY <1>4, <3>2, CutMoves
    <3>3. CASE ~WriteLog(c) /\ ~Record(c)
      BY <3>3, CutMoves DEF SetOf
    <3> QED BY <3>1, <3>2, <3>3
  <2> QED BY <1>1, <1>2, <1>3, <2>1
<1>5. CASE Record(c) /\ IsRewrite(c)
  <2>1. disk' = Put(disk, p, Recorded(c)) /\ call[c].pc \in Writing
    BY <1>5 DEF Record, Writing
  <2>2. Recorded(c) \in FileShape
    BY <2>1, RecordedIsOne DEF SaveInv
  <2>4. File(p).rev < Recorded(c).rev
    BY <1>0, <1>5, RevisionGrows DEF IsRewrite
  <2>5. \A q : q = p => (File(q).rev)' # File(q).rev
    <3>1. \A q : q = p => File(q)' = Recorded(c)
      BY <1>0, <2>1, <2>2, PutFile DEF SaveInv
    <3>2. \A q : q = p => (File(q).rev)' = Recorded(c).rev
      BY <3>1
    <3> QED BY <1>1, <2>2, <2>4, <3>2 DEF FileShape
  <2>6. \A q : q # p => SetOf(cut, q)' \subseteq SetOf(cut, q)
    BY CutMoves
  <2> QED BY <1>1, <1>2, <1>3, <2>5, <2>6
<1> QED BY <1>4, <1>5

\* A baseline that was moved to what is in the file, or to what was written.
LEMMA BaselineIsNew ==
  ASSUME NEW s \in Runtimes, NEW p, NEW b, mem'[s].base = b, mem'[s].path = p,
         b.ok, b.path = p, b.rev <= (File(p).rev)', MessagesOf(b.msgs) \cap SetOf(cut, p)' = {}
  PROVE  BaseOK(s)'
BY DEF BaseOK, File, SetOf

\* What a file holds is free of what was cut from it, with and without the repair of a load.
LEMMA FilesAreClean ==
  ASSUME SaveInv, CutInv, CutStaysCut, NoFailure, NEW p \in Path
  PROVE  /\ InFile(p) \cap SetOf(cut, p) = {}
         /\ \A t : Real(MessagesOf(t)) \subseteq InFile(p) => MessagesOf(t) \cap SetOf(cut, p) = {}
<1>1. InFile(p) \cap SetOf(cut, p) = {}
  BY DEF CutStaysCut, NoFailure, SetOf, InFile
<1>2. \A m \in SetOf(cut, p) : m[1] # "stub"
  BY DEF CutInv, CutsOK, SetOf, Real
<1> QED BY <1>1, <1>2 DEF Real

LEMMA SavingKeepsBases ==
  ASSUME SaveInv, CutInv, Unfailed, NEW c \in Saves, SaveStep(c), ~WriteFails(c), Shapes', NEW s \in Runtimes
  PROVE  BaseOK(s)'
<1>0. PICK r \in Runtimes : r = call[c].on
  BY StepIsInside, CallIsOne DEF SaveInv
<1>1. PICK p \in Path : p = call[c].path
  BY StepIsInside, CallIsOne DEF SaveInv
<1>2. CASE mem'[s] = mem[s]
  <2>1. BaseOK(s)
    BY DEF Unfailed
  <2> QED BY <1>2, <2>1, CutsAreRevisions, BaselineStays
<1>3. CASE mem'[s] # mem[s]
  <2>0. s = r
    BY <1>0, <1>3, OthersStay
  <2>a. \A q, t, n : Base(q, t, n).msgs = t /\ Base(q, t, n).rev = n /\ Base(q, t, n).ok /\ Base(q, t, n).path = q
    BY DEF Base
  <2>b. CutStaysCut /\ NoFailure
    BY DEF Unfailed
  <2>1. CASE SaveIsUpToDate(c)
    <3>1. PICK b : b = Base(p, mem[r].msgs, File(p).rev)
      OBVIOUS
    <3>2. mem'[r].base = b /\ mem'[r].path = p
      BY <1>0, <1>1, <2>1, <3>1, MemMoves, StepsDiffer
    <3>3. UpToDate(p, mem[r].msgs)
      BY <1>0, <1>1, <2>1 DEF SaveIsUpToDate
    <3>4. Stored(File(p)) = mem[r].msgs
      BY <3>3, UpToDateIsStored
    <3>5. MessagesOf(b.msgs) \cap SetOf(cut, p) = {}
      BY <2>a, <2>b, <3>1, <3>4, FilesAreClean DEF InFile
    <3>6. ~WriteLog(c) /\ ~Record(c)
      BY <2>1 DEF SaveIsUpToDate, WriteLog, Record, Locks
    <3>7. MessagesOf(b.msgs) \cap SetOf(cut, p)' = {}
      BY <3>5, <3>6, CutMoves DEF SetOf
    <3>8. b.rev <= (File(p).rev)'
      BY <2>a, <3>1, StoredMoves
    <3>9. b.ok /\ b.path = p
      BY <2>a, <3>1
    <3> QED BY <2>0, <3>2, <3>7, <3>8, <3>9, BaselineIsNew
  <2>2. CASE Adopt(c)
    <3>1. PICK b : b = Loaded(p).base
      OBVIOUS
    <3>2. mem'[r].base = b /\ mem'[r].path = p
      BY <1>0, <1>1, <2>2, <3>1, MemMoves, StepsDiffer, LoadHolds
    <3>3. b.ok /\ b.path = p /\ b.rev = File(p).rev /\ Real(MessagesOf(b.msgs)) \subseteq InFile(p)
      BY <3>1, LoadHolds
    <3>5. MessagesOf(b.msgs) \cap SetOf(cut, p) = {}
      BY <2>b, <3>3, FilesAreClean
    <3>6. ~WriteLog(c) /\ ~Record(c)
      BY <2>2 DEF Adopt, WriteLog, Record, GivesUp
    <3>7. MessagesOf(b.msgs) \cap SetOf(cut, p)' = {}
      BY <3>5, <3>6, CutMoves DEF SetOf
    <3>8. b.rev <= (File(p).rev)'
      BY <3>3, StoredMoves
    <3> QED BY <2>0, <3>2, <3>3, <3>7, <3>8, BaselineIsNew
  <2>3. CASE Record(c)
    <3>1. PICK b : b = Base(p, call[c].cap, Recorded(c).rev)
      OBVIOUS
    <3>2. mem'[r].base = b /\ mem'[r].path = p
      BY <1>0, <1>1, <2>3, <3>1, MemMoves, StepsDiffer
    <3>3. disk' = Put(disk, p, Recorded(c)) /\ call[c].pc = "record"
      BY <1>1, <2>3 DEF Record
    <3>4. Recorded(c) \in FileShape
      BY <3>3, RecordedIsOne DEF SaveInv, Writing
    <3>5. \A q : File(q)' = IF q = p THEN Recorded(c) ELSE File(q)
      BY <3>3, <3>4, PutFile DEF SaveInv
    <3>6. b.rev <= (File(p).rev)'
      <4>1. (File(p).rev)' = Recorded(c).rev
        BY <3>5
      <4> QED BY <2>a, <3>1, <3>4, <4>1 DEF FileShape
    <3>7. MessagesOf(call[c].cap) \cap SetOf(cut, p) = {}
      BY <1>1, <3>3 DEF Unfailed, CutOK
    <3>8. MessagesOf(call[c].cap) \cap Gone(c) = {}
      BY DEF Gone, Real
    <3>9. SetOf(cut, p)' \subseteq SetOf(cut, p) \cup Gone(c)
      BY <1>1, <2>3, CutMoves
    <3>10. MessagesOf(b.msgs) \cap SetOf(cut, p)' = {}
      BY <2>a, <3>1, <3>7, <3>8, <3>9
    <3>11. b.ok /\ b.path = p
      BY <2>a, <3>1
    <3> QED BY <2>0, <3>2, <3>6, <3>10, <3>11, BaselineIsNew
  <2>4. Ends(c)
    BY <1>0, <1>3, <2>0, GoesOn
  <2> QED BY <2>1, <2>2, <2>3, <2>4 DEF Ends
<1> QED BY <1>2, <1>3

\* Two prefixes of a transcript agree as far as the shorter goes.
LEMMA PrefixAgrees ==
  ASSUME NEW s \in Transcript, NEW v \in Transcript, NEW t \in Transcript,
         IsPrefix(s, t), IsPrefix(v, t), Len(v) >= Len(s), NEW i \in DOMAIN s
  PROVE  i \in DOMAIN v /\ v[i] = t[i] /\ s[i] = t[i]
<1>1. /\ DOMAIN s = 1..Len(s) /\ DOMAIN t = 1..Len(t) /\ DOMAIN v = 1..Len(v)
      /\ Len(s) \in Nat /\ Len(t) \in Nat /\ Len(v) \in Nat /\ Len(s) <= Len(t) /\ Len(v) <= Len(t)
  BY DEF Transcript, IsPrefix
<1>2. i \in 1..Len(s) /\ i \in 1..Len(v)
  BY <1>1
<1>3. SubSeq(s, 1, Len(s))[i] = s[i] /\ SubSeq(t, 1, Len(s))[i] = t[i]
  BY <1>1, <1>2 DEF Transcript
<1>4. SubSeq(v, 1, Len(v))[i] = v[i] /\ SubSeq(t, 1, Len(v))[i] = t[i]
  BY <1>1, <1>2 DEF Transcript
<1> QED BY <1>1, <1>2, <1>3, <1>4 DEF IsPrefix

\* What a save may write over what is stored brings nothing back: an append
\* covers the baseline or finds it in the file, and an owner's baseline is the file.
LEMMA AllowedIsClean ==
  ASSUME SaveInv, CutInv, Unfailed, NEW c \in Saves, call[c].pc = "lock", Allowed(c), call[c].op # "strip"
  PROVE  MessagesOf(mem[call[c].on].msgs) \cap SetOf(cut, call[c].path) = {}
<1>0. PICK r \in Runtimes, p \in Path : r = call[c].on /\ p = call[c].path
  BY CallIsOne DEF SaveInv, Inside
<1>1. PICK next, f, b, v :
        /\ r = call[c].on /\ p = call[c].path /\ next = mem[r].msgs /\ f = File(p) /\ b = mem[r].base
        /\ v = View(f, next)
  BY <1>0
<1>2. /\ next \in Transcript /\ b.msgs \in Transcript /\ Stored(f) \in Transcript /\ mem[r].up /\ mu[r] = c
      /\ Exists(p)
  BY <1>1, CallIsOne DEF SaveInv, Shapes, MemShape, BaseShape, CallsOK, CallOK, Inside, Writing
<1>3. SUFFICES ASSUME NEW x \in MessagesOf(next), x \in SetOf(cut, p)
               PROVE  FALSE
  BY <1>1
<1>4. x \in AllCut /\ x[1] # "stub" /\ x \notin InFile(p)
  <2>1. CutStaysCut /\ NoFailure
    BY DEF Unfailed
  <2>2. InFile(p) \cap SetOf(cut, p) = {}
    BY <2>1, FilesAreClean
  <2>3. x[1] # "stub"
    BY <1>3 DEF CutInv, CutsOK, SetOf, Real
  <2> QED BY <1>3, <2>2, <2>3, CutsAreAll
<1>5. x \in MessagesOf(b.msgs)
  <2>1. ~StripsOn(r)
    <3> SUFFICES ASSUME NEW d \in Saves, call[d].on = r, call[d].op = "strip", call[d].pc \in Inside
                 PROVE  FALSE
      BY DEF StripsOn
    <3>1. mu[r] = d
      BY DEF SaveInv, CallsOK, CallOK
    <3> QED BY <1>2, <3>1
  <2>2. Added(r) \cap Others(r) = {}
    BY <1>2, <2>1 DEF Unfailed, AddedOK
  <2>3. x \in Others(r)
    BY <1>4, OtherOnes DEF OthersAre
  <2> QED BY <1>1, <1>4, <2>2, <2>3 DEF Added, Real
<1>6. /\ b.ok /\ b.path = p /\ b.rev # f.rev
  <2>1. mem[r].path = p
    BY <1>1 DEF CutInv, PathOK
  <2>2. /\ b.ok /\ b.path = p
        /\ b.rev = f.rev => MessagesOf(b.msgs) \cap SetOf(cut, p) = {}
    BY <1>1, <1>2, <2>1 DEF Unfailed, BaseOK
  <2> QED BY <1>3, <1>5, <2>2
<1>7. \A t : t \in {Stored(f), Normalize(Stored(f))} =>
        /\ t \in Transcript
        /\ x \notin MessagesOf(t)
  <2>1. /\ Normalize(Stored(f)) \in Transcript
        /\ Real(MessagesOf(Normalize(Stored(f)))) = Real(MessagesOf(Stored(f)))
    BY <1>2, NormalizeKeeps
  <2> QED BY <1>1, <1>2, <1>4, <2>1 DEF InFile, Real
<1>8. v \in {Stored(f), Normalize(Stored(f))}
  BY <1>1 DEF View
<1>9. CASE MayAppend(r, p, next)
  <2>1. IsPrefix(v, next) /\ ~Resurrects(r, p, next)
    BY <1>1, <1>9 DEF MayAppend, AppendShaped
  <2>2. BaseFor(r, p)
    BY <1>1, <1>6 DEF BaseFor
  <2>3. v # next
    BY <1>3, <1>7, <1>8
  <2>4. IsPrefix(b.msgs, next) /\ Len(v) >= Len(b.msgs)
    BY <1>1, <1>6, <2>1, <2>2, <2>3 DEF Resurrects, CoversBaseline
  <2>5. PICK i \in DOMAIN b.msgs : x = b.msgs[i]
    BY <1>5 DEF MessagesOf
  <2>6. i \in DOMAIN v /\ v[i] = next[i] /\ b.msgs[i] = next[i]
    BY <1>2, <1>7, <1>8, <2>1, <2>4, PrefixAgrees
  <2> QED BY <1>7, <1>8, <2>5, <2>6 DEF MessagesOf
<1>10. CASE MayRewrite(r, p, next, call[c].mode)
  <2>1. b.msgs \in {Normalize(Stored(f)), Stored(f)}
    BY <1>1, <1>10 DEF MayRewrite, Owns
  <2> QED BY <1>5, <1>7, <2>1
<1>11. ~Fresh(p)
  BY <1>2 DEF Fresh, Exists
<1> QED BY <1>1, <1>9, <1>10, <1>11 DEF Allowed

\* What the steps of a save write or are about to write is free of what was cut.
LEMMA SavingStaysClean ==
  ASSUME SaveInv, CutInv, Unfailed, NEW c \in Saves, SaveStep(c), ~WriteFails(c), Shapes', NEW d \in Saves
  PROVE  CutOK(d)'
<1> DEFINE k == call[c]  j == call'[c]
<1>1. PICK p \in Path : p = k.path
  BY StepIsInside, CallIsOne DEF SaveInv
<1>2. PICK r \in Runtimes : r = k.on
  BY StepIsInside, CallIsOne DEF SaveInv
<1>0. call \in [Saves -> CallShape] /\ k \in CallShape
  BY DEF SaveInv, Shapes
<1>a. ASSUME NEW q, d = c, j.path = q, MessagesOf(j.cap) \cap SetOf(cut, q)' = {}
      PROVE  CutOK(d)'
  BY <1>a DEF CutOK, SetOf
<1>b. CutStaysCut /\ NoFailure
  BY DEF Unfailed
<1>3. CASE d # c
  <2>1. call'[d] = call[d]
    BY <1>3, OthersStay
  <2>2. CutOK(d)
    BY DEF Unfailed
  <2>3. PICK q : q = call[d].path
    OBVIOUS
  <2>4. call[d].pc \in Writing => SetOf(cut, q)' \subseteq SetOf(cut, q)
    <3>1. CASE WriteLog(c)
      BY <3>1, CutMoves
    <3>2. CASE Record(c)
      <4>1. Holder(locked, p) = c
        BY <1>1, <3>2 DEF Record, SaveInv, CallsOK, CallOK, Writing
      <4>2. call[d].pc \in Writing => Holder(locked, q) = d
        BY <2>3 DEF SaveInv, CallsOK, CallOK
      <4>3. call[d].pc \in Writing => q # p
        BY <1>3, <4>1, <4>2
      <4> QED BY <1>1, <4>3, CutMoves
    <3>3. CASE ~WriteLog(c) /\ ~Record(c)
      BY <3>3, CutMoves DEF SetOf
    <3> QED BY <3>1, <3>2, <3>3
  <2>5. BringsBack(d)' <=> BringsBack(d)
    BY <2>1 DEF BringsBack, Overwrites, Refork
  <2>6. call[d].pc \in {"anchor", "record"} \/ (call[d].pc = "log" /\ ~BringsBack(d)) =>
          MessagesOf(call[d].cap) \cap SetOf(cut, q)' = {}
    BY <2>2, <2>3, <2>4 DEF CutOK, Writing
  <2> QED BY <2>1, <2>3, <2>5, <2>6 DEF CutOK, SetOf
<1>4. CASE d = c /\ (WriteLog(c) \/ WriteAnchor(c))
  <2>1. j.cap = k.cap /\ j.path = p /\ ~Record(c)
    <3>1. k.pc \in {"log", "anchor"}
      BY <1>4 DEF WriteLog, WriteAnchor
    <3>2. ~Ends(c)
      BY <3>1 DEF Ends, SaveIsUpToDate, Record, Adopt, Locks, GivesUp
    <3> QED BY <1>1, <1>2, <3>1, <3>2, GoesOn DEF Writing, Ends
  <2>2. MessagesOf(k.cap) \cap SetOf(cut, p)' = {}
    <3>1. CASE WriteLog(c)
      <4>1. CASE BringsBack(c)
        BY <1>1, <3>1, <4>1, CutMoves
      <4>2. CASE ~BringsBack(c)
        <5>1. k.pc = "log"
          BY <3>1 DEF WriteLog
        <5>2. MessagesOf(k.cap) \cap SetOf(cut, p) = {}
          BY <1>1, <4>2, <5>1 DEF Unfailed, CutOK
        <5> QED BY <1>1, <3>1, <4>2, <5>2, CutMoves
      <4> QED BY <4>1, <4>2
    <3>2. CASE WriteAnchor(c)
      <4>1. k.pc = "anchor" /\ cut' = cut
        BY <3>2 DEF WriteAnchor
      <4>2. MessagesOf(k.cap) \cap SetOf(cut, p) = {}
        BY <1>1, <4>1 DEF Unfailed, CutOK
      <4> QED BY <4>1, <4>2 DEF SetOf
    <3> QED BY <1>4, <3>1, <3>2
  <2> QED BY <1>4, <1>a, <2>1, <2>2
<1>5. CASE d = c /\ SaveWrites(c)
  <2>1. PICK s \in {"heal", "append", "compact", "replace"} :
          /\ Captures(c, p, s)
          /\ s = "heal" => UpToDate(p, mem[r].msgs)
    BY <1>1, <1>2, <1>5 DEF SaveWrites
  <2>2. /\ j.cap = mem[r].msgs /\ j.path = p /\ j.op = k.op
        /\ j.pc = IF s = "heal" THEN "record" ELSE "log"
    BY <1>0, <1>1, <1>2, <2>1 DEF Captures, CallShape
  <2>3. k.pc = "lock" /\ Allowed(c) /\ cut' = cut
    BY <1>5 DEF SaveWrites, Locks
  <2>4. CASE s = "heal"
    <3>1. Stored(File(p)) = mem[r].msgs
      BY <2>1, <2>4, UpToDateIsStored
    <3>2. MessagesOf(mem[r].msgs) \cap SetOf(cut, p) = {}
      BY <1>b, <3>1, FilesAreClean DEF InFile
    <3> QED BY <1>5, <1>a, <2>2, <2>3, <3>2 DEF SetOf
  <2>5. CASE s # "heal" /\ k.op # "strip"
    <3>2. MessagesOf(mem[r].msgs) \cap SetOf(cut, p) = {}
      BY <1>1, <1>2, <2>3, <2>5, AllowedIsClean
    <3> QED BY <1>5, <1>a, <2>2, <2>3, <3>2 DEF SetOf
  <2>6. CASE s # "heal" /\ k.op = "strip"
    BY <1>5, <2>2, <2>6 DEF CutOK, BringsBack
  <2> QED BY <2>4, <2>5, <2>6
<1>6. CASE d = c /\ ForceSave(c)
  <2>1. Captures(c, p, "force")
    BY <1>1, <1>6 DEF ForceSave
  <2>2. j.shape = "force" /\ j.pc = "log"
    BY <1>0, <2>1 DEF Captures, CallShape
  <2> QED BY <1>6, <2>2 DEF CutOK, BringsBack, Overwrites
<1>7. CASE d = c /\ Fork(c)
  <2>1. PICK q : q = Append(p, k.cap)
    OBVIOUS
  <2>2. /\ j.path = q /\ j.shape = "fork" /\ j.was = Stored(File(q)) /\ j.cap = k.cap /\ cut' = cut
        /\ j.pc = IF Normalize(Stored(File(q))) = k.cap THEN "record" ELSE "log"
    BY <1>0, <1>1, <1>7, <2>1 DEF Fork, CallShape
  <2>3. q \in Path /\ Stored(File(q)) \in Transcript
    BY <1>0, <1>1, <2>1, PathGrows, FileIsOne DEF CallShape, SaveInv
  <2>4. CASE Normalize(Stored(File(q))) = k.cap
    <3>1. Real(MessagesOf(k.cap)) \subseteq InFile(q)
      BY <2>3, <2>4, NormalizeKeeps DEF InFile, Real
    <3>2. MessagesOf(k.cap) \cap SetOf(cut, q) = {}
      BY <1>b, <2>3, <3>1, FilesAreClean
    <3> QED BY <1>7, <1>a, <2>2, <3>2 DEF SetOf
  <2>5. CASE j.pc = "log" /\ j.was \notin {<<>>, j.cap}
    BY <1>7, <2>2, <2>5 DEF CutOK, BringsBack, Overwrites, Refork
  <2>6. CASE j.was = <<>>
    <3>1. ~Exists(q)
      BY <2>2, <2>6 DEF Exists
    <3>2. SetOf(cut, q) = {}
      BY <3>1 DEF CutInv, CutsOK, SetOf
    <3> QED BY <1>7, <1>a, <2>2, <3>2 DEF SetOf
  <2>7. CASE j.was = j.cap
    <3>1. MessagesOf(k.cap) \cap SetOf(cut, q) = {}
      BY <1>b, <2>2, <2>3, <2>7, FilesAreClean DEF InFile
    <3> QED BY <1>7, <1>a, <2>2, <3>1 DEF SetOf
  <2> QED BY <2>2, <2>4, <2>5, <2>6, <2>7
<1>8. CASE d = c /\ j.pc \notin Writing
  BY <1>8 DEF CutOK, Writing
<1>9. SaveIsUpToDate(c) \/ Record(c) \/ Adopt(c) \/ SaveConflicts(c) \/ Retry(c) \/ Recover(c) => j.pc \notin Writing
  <2>1. Ends(c) => j.pc = "done"
    BY <1>2, GoesOn
  <2>2. SaveConflicts(c) => j.pc = "conflict"
    BY <1>0 DEF SaveConflicts, CallShape
  <2>3. Retry(c) => j.pc = "lock"
    BY <1>0 DEF Retry, CallShape
  <2>4. Recover(c) => j.pc \in {"adopt", "force", "fork"}
    BY <1>0 DEF Recover, CallShape
  <2> QED BY <2>1, <2>2, <2>3, <2>4 DEF Ends, Writing
<1> QED BY <1>3, <1>4, <1>5, <1>6, <1>7, <1>8, <1>9 DEF SaveStep

LEMMA SavingKeepsCut ==
  ASSUME SaveInv, CutInv, Unfailed, NEW c \in Saves, SaveStep(c), ~WriteFails(c), Shapes'
  PROVE  CutStaysCut'
<1> DEFINE k == call[c]
<1>0. PICK p \in Path : p = k.path
  BY StepIsInside, CallIsOne DEF SaveInv
<1>a. CutStaysCut /\ NoFailure
  BY DEF Unfailed
<1>b. \A q \in DOMAIN cut : q \in Path
  BY DEF CutInv, CutsOK
<1>c. \A q \in Path : InFile(q) \cap SetOf(cut, q) = {}
  BY <1>a, FilesAreClean
<1>1. ASSUME NEW q \in Path, q # p
      PROVE  InFile(q)' \cap SetOf(cut, q)' = {}
  BY <1>0, <1>1, <1>c, StoredMoves, CutMoves
<1>2. InFile(p)' \cap SetOf(cut, p)' = {}
  <2>1. Stored(File(p))' \in {Stored(File(p)), k.cap}
    BY StoredMoves
  <2>2. InFile(p)' \in {InFile(p), MessagesOf(k.cap)}
    BY <2>1 DEF InFile
  <2>3. CASE WriteLog(c)
    <3>1. k.pc = "log"
      BY <2>3 DEF WriteLog
    <3>2. CASE BringsBack(c) /\ InFile(p)' = InFile(p)
      BY <1>0, <1>c, <2>3, <3>2, CutMoves
    <3>3. CASE BringsBack(c) /\ InFile(p)' = MessagesOf(k.cap)
      BY <1>0, <2>3, <3>3, CutMoves
    <3>4. CASE ~BringsBack(c)
      <4>1. MessagesOf(k.cap) \cap SetOf(cut, p) = {}
        BY <1>0, <3>1, <3>4 DEF Unfailed, CutOK
      <4>2. SetOf(cut, p)' = SetOf(cut, p)
        BY <1>0, <2>3, <3>4, CutMoves
      <4> QED BY <1>c, <2>2, <4>1, <4>2
    <3> QED BY <2>2, <3>2, <3>3, <3>4
  <2>4. CASE WriteAnchor(c)
    <3>1. k.pc = "anchor" /\ cut' = cut
      BY <2>4 DEF WriteAnchor
    <3>2. MessagesOf(k.cap) \cap SetOf(cut, p) = {}
      BY <1>0, <3>1 DEF Unfailed, CutOK
    <3> QED BY <1>c, <2>2, <3>1, <3>2 DEF SetOf
  <2>5. CASE ~WriteLog(c) /\ ~WriteAnchor(c) /\ ~Record(c)
    BY <1>c, <2>5, StoredMoves, CutMoves DEF SetOf
  <2>6. CASE Record(c)
    <3>0. InFile(p)' = InFile(p) /\ k.pc = "record"
      BY <2>6, StoredMoves, StepsDiffer DEF Record
    <3>1. CASE IsRewrite(c)
      <4>1. Stored(File(p)) = k.cap
        BY <1>0, <3>0, <3>1 DEF SaveInv, WritesOK, WriteOK, IsRewrite, Refork
      <4>2. Gone(c) \cap InFile(p) = {}
        BY <4>1 DEF Gone, Real, InFile
      <4>3. SetOf(cut, p)' = SetOf(cut, p) \cup Gone(c)
        BY <1>0, <2>6, <3>1, CutMoves
      <4> QED BY <1>c, <3>0, <4>2, <4>3
    <3>2. CASE ~IsRewrite(c)
      <4>1. SetOf(cut, p)' = SetOf(cut, p) \cup (IF IsRewrite(c) THEN Gone(c) ELSE {})
        BY <1>0, <2>6, CutMoves
      <4> QED BY <1>c, <3>0, <3>2, <4>1
    <3> QED BY <3>1, <3>2
  <2> QED BY <2>3, <2>4, <2>5, <2>6
<1>3. \A q \in Path : InFile(q)' \cap SetOf(cut, q)' = {}
  BY <1>1, <1>2
<1>4. DOMAIN cut' \subseteq Path
  BY <1>0, <1>b, CutMoves
<1> QED BY <1>3, <1>4 DEF CutStaysCut, InFile, SetOf

LEMMA SavingKeepsCuts ==
  ASSUME SaveInv, CutInv, NEW c \in Saves, SaveStep(c), Shapes'
  PROVE  CutInv'
<1>1. NumbersOK' /\ AnswersOK' /\ CutsOK' /\ \A d \in Saves : NewOK(d)' /\ PathOK(d)'
  BY SavingKeepsNumbers, SavingKeepsPlaces
<1>2. ASSUME NoFailure'
      PROVE  /\ \A s \in Runtimes : AddedOK(s)' /\ BaseOK(s)'
             /\ \A d \in Saves : LaterOK(d)' /\ CutOK(d)'
             /\ CutStaysCut'
  <2>0. Unfailed /\ ~WriteFails(c)
    BY <1>2, FailuresStay
  <2>1. PICK r \in Runtimes : r = call[c].on
    BY StepIsInside, CallIsOne DEF SaveInv
  <2>2. ASSUME NEW s \in Runtimes
        PROVE  AddedOK(s)'
    <3>1. CASE s = r
      BY <2>0, <2>1, <3>1, SavingKeepsOwn
    <3>2. CASE s # r
      BY <2>0, <2>1, <3>2, SavingKeepsOthers
    <3> QED BY <3>1, <3>2
  <2>3. ASSUME NEW d \in Saves
        PROVE  LaterOK(d)'
    <3>1. CASE call'[d].on = r
      BY <2>0, <2>1, <3>1, SavingKeepsLater
    <3>2. CASE call'[d].on \in Runtimes /\ call'[d].on # r
      <4>1. PICK s \in Runtimes : s = call'[d].on /\ s # r
        BY <3>2
      <4> QED BY <2>0, <2>1, <4>1, SavingKeepsOthers
    <3>3. CASE call'[d].on \notin Runtimes
      BY <3>3 DEF LaterOK
    <3> QED BY <3>1, <3>2, <3>3
  <2> QED BY <2>0, <2>2, <2>3, SavingKeepsBases, SavingStaysClean, SavingKeepsCut
<1> QED BY <1>1, <1>2 DEF CutInv

(***************************************************************************)
(* The steps in memory keep it, and a crash does.                          *)
(***************************************************************************)
\* A step in memory of one runtime: a call of it may begin or enter, and its
\* messages are its own, its calls', new ones (N) or those of files that nobody
\* writes (F).
Joins(c, r) ==
  /\ call[c].pc \in {"new", "enter"} /\ call'[c].pc \in {"enter", "lock"}
  /\ call'[c].on = r /\ call[c].on \in {r, Idle} /\ (call[c].on = Idle => OfCall(c) = {})
  /\ OfCall(c)' \subseteq OfCall(c) \cup OfRuntime(r)
  /\ call'[c].end = call[c].end
StepsAlone(r, N, F) ==
  /\ disk' = disk /\ cut' = cut
  /\ \A s \in Runtimes \ {r} : mem'[s] = mem[s]
  /\ \A d \in Saves : call'[d] = call[d] \/ Joins(d, r)
  /\ \A m \in Real(OfRuntime(r)') : \/ m \in OfRuntime(r) \cup N \cup F
                                    \/ \E d \in Saves : call[d].on = r /\ m \in OfCall(d)
  /\ N \cap Known = {}
  /\ \A m \in F : \E q \in DOMAIN disk : m \in InFile(q) /\ \A s \in Runtimes \ {r} : ~WritesTo(s, q)

LEMMA MemoryMoves ==
  ASSUME SaveInv, NEW r \in Runtimes, NEW N, NEW F, StepsAlone(r, N, F)
  PROVE  /\ \A q : InFile(q)' = InFile(q)
         /\ OnDisk' = OnDisk /\ AllCut' = AllCut
         /\ Real(Known') \subseteq Known \cup N
         /\ Real(Others(r)') \subseteq Others(r)
         /\ \A s \in Runtimes \ {r} : Real(Others(s)') \subseteq Others(s) \cup F \cup N
         /\ \A s \in Runtimes, q \in Path : WritesTo(s, q)' <=> WritesTo(s, q)
<1>1. (\A q : InFile(q)' = InFile(q)) /\ OnDisk' = OnDisk /\ AllCut' = AllCut
  BY DEF StepsAlone, InFile, Stored, File, OnDisk, AllCut
<1>2. \A s \in Runtimes \ {r} : OfRuntime(s)' = OfRuntime(s)
  BY DEF StepsAlone, OfRuntime
<1>3. \A m \in OfRuntime(r)' : m[1] # "stub" =>
         m \in OfRuntime(r) \cup N \cup F \/ \E d \in Saves : call[d].on = r /\ m \in OfCall(d)
  BY DEF StepsAlone, Real
<1>4. \A d \in Saves : \/ OfCall(d)' = OfCall(d) /\ call'[d].on = call[d].on
                       \/ /\ OfCall(d)' \subseteq OfCall(d) \cup OfRuntime(r) /\ call'[d].on = r
                          /\ call[d].on = r \/ OfCall(d) = {}
  BY DEF StepsAlone, Joins, OfCall
<1>5. F \subseteq OnDisk
  BY FilesAreTheDisk DEF StepsAlone
<1>6. KnownIs /\ KnownIs' /\ OthersAre /\ OthersAre'
  BY KnownOnes, OtherOnes, PTL
<1>7. ASSUME NEW m \in Known', m[1] # "stub"
      PROVE  m \in Known \cup N
  <2>1. \/ m \in OnDisk' \/ m \in AllCut'
        \/ \E s \in Runtimes : m \in OfRuntime(s)'
        \/ \E d \in Saves : m \in OfCall(d)'
    BY <1>6, <1>7 DEF KnownIs
  <2>2. /\ OnDisk \subseteq Known /\ AllCut \subseteq Known
        /\ \A s \in Runtimes : OfRuntime(s) \subseteq Known
        /\ \A d \in Saves : OfCall(d) \subseteq Known
    BY <1>6 DEF KnownIs
  <2>3. CASE \E s \in Runtimes : m \in OfRuntime(s)'
    BY <1>2, <1>3, <1>5, <1>7, <2>2, <2>3
  <2>4. CASE \E d \in Saves : m \in OfCall(d)'
    BY <1>4, <2>2, <2>4
  <2> QED BY <1>1, <2>1, <2>2, <2>3, <2>4
<1>8. ASSUME NEW s \in Runtimes, NEW m \in Others(s)', m[1] # "stub"
      PROVE  (s = r => m \in Others(s)) /\ m \in Others(s) \cup F \cup N
  <2>1. \/ m \in AllCut'
        \/ \E t \in Runtimes : t # s /\ m \in OfRuntime(t)'
        \/ \E d \in Saves : call'[d].on # s /\ m \in OfCall(d)'
    BY <1>6, <1>8 DEF OthersAre
  <2>2. /\ AllCut \subseteq Others(s)
        /\ \A t \in Runtimes : t # s => OfRuntime(t) \subseteq Others(s)
        /\ \A d \in Saves : call[d].on # s => OfCall(d) \subseteq Others(s)
    BY <1>6 DEF OthersAre
  <2>3. CASE \E t \in Runtimes : t # s /\ m \in OfRuntime(t)'
    BY <1>2, <1>3, <1>8, <2>2, <2>3
  <2>4. CASE \E d \in Saves : call'[d].on # s /\ m \in OfCall(d)'
    BY <1>4, <2>2, <2>4
  <2> QED BY <1>1, <2>1, <2>2, <2>3, <2>4
<1>9. \A d \in Saves : call'[d] = call[d] \/ (call[d].pc \notin Writing /\ call'[d].pc \notin Writing)
  BY DEF StepsAlone, Joins, Writing
<1>10. \A s \in Runtimes, q \in Path : WritesTo(s, q)' <=> WritesTo(s, q)
  BY <1>9 DEF WritesTo
<1>11. Real(Known') \subseteq Known \cup N
  BY <1>7 DEF Real
<1>12. \A s \in Runtimes : /\ s = r => Real(Others(s)') \subseteq Others(s)
                           /\ Real(Others(s)') \subseteq Others(s) \cup F \cup N
  BY <1>8 DEF Real
<1> QED BY <1>1, <1>10, <1>11, <1>12

\* What such a step leaves alone, and the other runtimes.
LEMMA MemoryKeepsRest ==
  ASSUME SaveInv, CutInv, NEW r \in Runtimes, NEW N, NEW F, StepsAlone(r, N, F)
  PROVE  /\ CutsOK' /\ \A d \in Saves : NewOK(d)'
         /\ \A d \in Saves : call'[d].on # r => PathOK(d)'
         /\ NoFailure' => /\ Unfailed /\ CutStaysCut'
                          /\ \A d \in Saves : CutOK(d)' /\ (call'[d].on # r => LaterOK(d)')
                          /\ \A s \in Runtimes \ {r} : AddedOK(s)' /\ BaseOK(s)'
<1>0. /\ disk' = disk /\ cut' = cut /\ \A s \in Runtimes \ {r} : mem'[s] = mem[s]
      /\ \A d \in Saves : call'[d] = call[d] \/ Joins(d, r)
  BY DEF StepsAlone
<1>1. CutsOK'
  BY <1>0 DEF CutInv, CutsOK, Exists, Stored, File
<1>2. \A d \in Saves : NewOK(d)'
  BY <1>0 DEF CutInv, NewOK, Joins
<1>3. ASSUME NEW d \in Saves, call'[d].on # r
      PROVE  PathOK(d)'
  <2>1. call'[d] = call[d] /\ PathOK(d) /\ CallOK(d)
    BY <1>0, <1>3 DEF Joins, CutInv, SaveInv, CallsOK
  <2>2. call[d].pc \in {"lock", "conflict"} => call[d].on \in Runtimes
    BY <2>1 DEF CallOK
  <2> QED BY <1>0, <1>3, <2>1, <2>2 DEF PathOK
<1>4. ASSUME NoFailure'
      PROVE  /\ Unfailed /\ CutStaysCut'
             /\ \A d \in Saves : CutOK(d)' /\ (call'[d].on # r => LaterOK(d)')
             /\ \A s \in Runtimes \ {r} : AddedOK(s)' /\ BaseOK(s)'
  <2>1. NoFailure
    BY <1>0, <1>4 DEF NoFailure, Joins
  <2>2. Unfailed
    BY <2>1 DEF CutInv, Unfailed
  <2>3. CutStaysCut'
    <3>1. \A p \in DOMAIN cut : MessagesOf(Stored(File(p))) \cap cut[p] = {}
      BY <2>2 DEF Unfailed, CutStaysCut, NoFailure
    <3> QED BY <1>0, <3>1 DEF CutStaysCut, Stored, File
  <2>4. ASSUME NEW d \in Saves
        PROVE  CutOK(d)'
    <3>1. CutOK(d)
      BY <2>2 DEF Unfailed
    <3>2. CASE call'[d] = call[d]
      BY <1>0, <3>1, <3>2 DEF CutOK, BringsBack, Overwrites, Refork, SetOf
    <3>3. CASE Joins(d, r)
      BY <3>3 DEF CutOK, Joins
    <3> QED BY <1>0, <3>2, <3>3
  <2>5. ASSUME NEW s \in Runtimes, s # r
        PROVE  BaseOK(s)'
    <3>1. BaseOK(s) /\ mem'[s] = mem[s]
      BY <1>0, <2>2, <2>5 DEF Unfailed
    <3> QED BY <1>0, <3>1 DEF BaseOK, SetOf, File
  <2>6. ASSUME NEW s \in Runtimes, s # r
        PROVE  AddedOK(s)' /\ \A d \in Saves : call'[d].on = s => LaterOK(d)'
    <3>1. AddedOK(s) /\ (\A d \in Saves : LaterOK(d)) /\ mem'[s] = mem[s]
      BY <1>0, <2>2, <2>6 DEF Unfailed
    <3>2. \A d \in Saves : call[d].on = s \/ call'[d].on = s => call'[d] = call[d]
      BY <1>0, <2>6, SaveAssumption DEF Joins
    <3>3. /\ Real(Others(s)') \subseteq Others(s) \cup F \cup N
          /\ \A q : InFile(q)' \subseteq InFile(q) \cup Others(s)
          /\ OnDisk' \subseteq OnDisk \cup Others(s)
      BY <2>6, MemoryMoves
    <3>4. N \cap Known = {}
      BY DEF StepsAlone
    <3>5. \A m \in F : \E q \in DOMAIN disk : m \in InFile(q) /\ ~WritesTo(s, q)
      BY <2>6 DEF StepsAlone
    <3> QED BY <3>1, <3>2, <3>3, <3>4, <3>5, BystanderKeeps
  <2>7. ASSUME NEW d \in Saves, call'[d].on # r
        PROVE  LaterOK(d)'
    <3>1. CASE call'[d].on \in Runtimes
      <4>1. PICK s \in Runtimes : s = call'[d].on /\ s # r
        BY <2>7, <3>1
      <4> QED BY <2>6, <4>1
    <3>2. CASE call'[d].on \notin Runtimes
      BY <3>2 DEF LaterOK
    <3> QED BY <3>1, <3>2
  <2> QED BY <2>2, <2>3, <2>4, <2>5, <2>6, <2>7
<1> QED BY <1>1, <1>2, <1>3, <1>4

LEMMA OthersAreKnown ==
  ASSUME NEW r \in Runtimes
  PROVE  /\ Others(r) \subseteq Known /\ OfRuntime(r) \subseteq Known /\ OnDisk \subseteq Known
         /\ \A c \in Saves : OfCall(c) \subseteq Known
         /\ \A q : InFile(q) \subseteq Known
BY KnownOnes, OtherOnes, FilesAreTheDisk DEF KnownIs, OthersAre

\* A step in memory keeps the invariant if its own runtime does.
LEMMA MemoryStepKeeps ==
  ASSUME SaveInv, CutInv, NEW r \in Runtimes, NEW N, NEW F, StepsAlone(r, N, F),
         made \in Nat, made' \in Nat, made <= made',
         \A m \in N : m[1] # "stub" => m[2] \in 0..made',
         \A s \in Runtimes \ {r} : EndsInCall(mem[s].msgs) => Answer(s) \notin N,
         EndsInCall(mem'[r].msgs) =>
           /\ Answer(r)' \notin Known \cup N
           /\ \A s \in Runtimes \ {r} : EndsInCall(mem[s].msgs) => Answer(s) # Answer(r)',
         \A c \in Saves : call'[c].op = "strip" /\ call'[c].pc = "enter" => call'[c] = call[c] \/ ~EndsInCall(call'[c].cap),
         \A d \in Saves : call'[d].on = r => PathOK(d)',
         NoFailure' /\ Unfailed =>
           AddedOK(r)' /\ BaseOK(r)' /\ \A d \in Saves : call'[d].on = r => LaterOK(d)'
  PROVE  CutInv'
<1>1. Real(Known') \subseteq Known \cup N
  BY MemoryMoves
<1>2. NumbersOK'
  <2> SUFFICES ASSUME NEW m \in Known', m[1] # "stub"
               PROVE  m[2] \in 0..made'
    BY DEF NumbersOK, Real
  <2>1. CASE m \in N
    BY <2>1
  <2>2. CASE m \in Known
    <3>1. m[2] \in 0..made
      BY <2>2 DEF CutInv, NumbersOK, Real
    <3> QED BY <3>1
  <2> QED BY <1>1, <2>1, <2>2 DEF Real
<1>3. \A s \in Runtimes \ {r} : Answer(s)' = Answer(s) /\ mem'[s] = mem[s]
  BY DEF StepsAlone, Answer
<1>4. \A s \in Runtimes : EndsInCall(mem'[s].msgs) => Answer(s)' \notin Known'
  <2> SUFFICES ASSUME NEW s \in Runtimes, EndsInCall(mem'[s].msgs)
               PROVE  Answer(s)' \notin Known \cup N /\ Answer(s)'[1] # "stub"
    BY <1>1 DEF Real
  <2>1. Answer(s)'[1] # "stub"
    BY DEF Answer
  <2>2. s # r => Answer(s)' \notin Known \cup N
    BY <1>3 DEF CutInv, AnswersOK
  <2> QED BY <2>1, <2>2
<1>5. \A s \in Runtimes : EndsInCall(mem'[s].msgs) =>
        \A u \in Runtimes \ {s} : EndsInCall(mem'[u].msgs) => Answer(u)' # Answer(s)'
  <2> SUFFICES ASSUME NEW s \in Runtimes, EndsInCall(mem'[s].msgs), NEW u \in Runtimes, u # s, EndsInCall(mem'[u].msgs)
               PROVE  Answer(u)' # Answer(s)'
    OBVIOUS
  <2>1. CASE s # r /\ u # r
    BY <1>3, <2>1 DEF CutInv, AnswersOK
  <2>2. CASE s = r \/ u = r
    BY <1>3, <2>2
  <2> QED BY <2>1, <2>2
<1>6. \A c \in Saves : call'[c].op = "strip" /\ call'[c].pc = "enter" => ~EndsInCall(call'[c].cap)
  BY DEF CutInv, AnswersOK
<1>7. AnswersOK'
  BY <1>4, <1>5, <1>6 DEF AnswersOK
<1>8. /\ CutsOK' /\ \A d \in Saves : NewOK(d)'
      /\ \A d \in Saves : call'[d].on # r => PathOK(d)'
      /\ NoFailure' => /\ Unfailed /\ CutStaysCut'
                       /\ \A d \in Saves : CutOK(d)' /\ (call'[d].on # r => LaterOK(d)')
                       /\ \A s \in Runtimes \ {r} : AddedOK(s)' /\ BaseOK(s)'
  BY MemoryKeepsRest
<1>9. \A d \in Saves : PathOK(d)'
  BY <1>8
<1>10. ASSUME NoFailure'
       PROVE  /\ \A s \in Runtimes : AddedOK(s)' /\ BaseOK(s)'
              /\ \A d \in Saves : LaterOK(d)' /\ CutOK(d)'
              /\ CutStaysCut'
  BY <1>8, <1>10
<1> QED BY <1>2, <1>7, <1>8, <1>9, <1>10 DEF CutInv

\* A turn or a compaction adds a message that nobody has (m).
LEMMA ExtendsKeepsCuts ==
  ASSUME SaveInv, CutInv, Shapes', NEW r \in Runtimes, NEW t \in Transcript, NEW n, Extends(r, t, n),
         NEW m \in Message, m[1] # "stub", m \notin Known,
         made <= made', m[2] \in 0..made',
         MessagesOf(t) \subseteq MessagesOf(mem[r].msgs) \cup {m},
         \A s \in Runtimes \ {r} : EndsInCall(mem[s].msgs) => Answer(s) # m,
         EndsInCall(t) =>
           /\ <<"result", Last(t)[2]>> \notin Known \cup {m}
           /\ \A s \in Runtimes \ {r} : EndsInCall(mem[s].msgs) => Answer(s) # <<"result", Last(t)[2]>>
  PROVE  CutInv'
<1>0. /\ mem \in [Runtimes -> MemShape] /\ made \in Nat /\ made' \in Nat /\ mem[r] \in MemShape
      /\ UNCHANGED <<disk, call, cut, mu>> /\ mem[r].up
  BY DEF SaveInv, Shapes, Extends
<1>1. /\ mem'[r].msgs = t /\ mem'[r].base = mem[r].base /\ mem'[r].path = mem[r].path /\ mem'[r].up
      /\ \A s \in Runtimes \ {r} : mem'[s] = mem[s]
  <2>1. mem' = [mem EXCEPT ![r] = [mem[r] EXCEPT !.msgs = t, !.rw = mem[r].rw + n]]
    BY <1>0 DEF Extends
  <2> QED BY <1>0, <2>1 DEF MemShape
<1> DEFINE N == {m}  F == {}
<1>2. /\ \A s \in Runtimes \ {r} : mem'[s] = mem[s]
      /\ \A d \in Saves : call'[d] = call[d]
      /\ \A x \in Real(OfRuntime(r)') : x \in OfRuntime(r) \cup N \cup F
  BY <1>0, <1>1 DEF OfRuntime, Real
<1>3. StepsAlone(r, N, F)
  BY <1>0, <1>2 DEF StepsAlone
<1>4. EndsInCall(mem'[r].msgs) =>
        /\ Answer(r)' \notin Known \cup N
        /\ \A s \in Runtimes \ {r} : EndsInCall(mem[s].msgs) => Answer(s) # Answer(r)'
  BY <1>1 DEF Answer
<1>5. \A d \in Saves : PathOK(d)'
  <2> SUFFICES ASSUME NEW d \in Saves, call[d].pc \in {"lock", "conflict"}
               PROVE  call[d].path = mem'[call[d].on].path
    BY <1>0 DEF PathOK
  <2>1. call[d].on \in Runtimes /\ call[d].path = mem[call[d].on].path
    BY DEF CutInv, PathOK, SaveInv, CallsOK, CallOK
  <2> QED BY <1>1, <2>1
<1>6. ASSUME NoFailure', Unfailed
      PROVE  AddedOK(r)' /\ BaseOK(r)' /\ \A d \in Saves : call'[d].on = r => LaterOK(d)'
  <2>1. AddedOK(r) /\ BaseOK(r) /\ \A d \in Saves : LaterOK(d)
    BY <1>6 DEF Unfailed
  <2>2. BaseOK(r)'
    BY <1>0, <1>1, <2>1 DEF BaseOK, SetOf, File
  <2>3. /\ Real(Others(r)') \subseteq Others(r) /\ (\A q : InFile(q)' = InFile(q)) /\ OnDisk' = OnDisk
    BY <1>3, MemoryMoves
  <2>4. StripsOn(r)' = StripsOn(r) /\ \A q : WritesTo(r, q)' = WritesTo(r, q)
    BY <1>0 DEF StripsOn, WritesTo
  <2>5. /\ Others(r) \subseteq Known /\ (\A q : InFile(q) \subseteq Known) /\ OnDisk \subseteq Known
        /\ \A d \in Saves : MessagesOf(call[d].was) \subseteq Known
    BY OthersAreKnown DEF OfCall
  <2>6. Added(r)' \subseteq Added(r) \cup {m} /\ \A x \in Added(r)' : x[1] # "stub"
    BY <1>1 DEF Added, Real
  <2>7. AddedOK(r)'
    <3> SUFFICES ASSUME ~StripsOn(r)
                 PROVE  /\ Added(r)' \cap Others(r)' = {}
                        /\ \A p \in DOMAIN disk : ~WritesTo(r, p) => Added(r)' \cap InFile(p)' = {}
      BY <1>0, <2>4 DEF AddedOK
    <3>1. /\ Added(r) \cap Others(r) = {}
          /\ \A p \in DOMAIN disk : ~WritesTo(r, p) => Added(r) \cap InFile(p) = {}
      BY <1>0, <2>1 DEF AddedOK
    <3>2. Added(r)' \cap Others(r)' = {}
      BY <2>3, <2>5, <2>6, <3>1 DEF Real
    <3> QED BY <2>3, <2>5, <2>6, <3>1, <3>2
  <2>8. ASSUME NEW d \in Saves, call[d].on = r, call[d].pc \in Writing \cup {"fork"}
        PROVE  Later(d, r)' \cap (Others(r)' \cup OnDisk' \cup MessagesOf(call'[d].was)) = {}
    <3>1. Later(d, r) \cap (Others(r) \cup OnDisk \cup MessagesOf(call[d].was)) = {}
      BY <2>1, <2>8 DEF LaterOK
    <3>2. Later(d, r)' \subseteq Later(d, r) \cup {m} /\ \A x \in Later(d, r)' : x[1] # "stub"
      BY <1>0, <1>1 DEF Later, Real
    <3>3. Later(d, r)' \cap Others(r)' = {}
      BY <2>3, <2>5, <3>1, <3>2 DEF Real
    <3>4. call'[d].was = call[d].was
      BY <1>0
    <3> QED BY <2>3, <2>5, <3>1, <3>2, <3>3, <3>4
  <2>9. \A d \in Saves : call'[d].on = r => LaterOK(d)'
    BY <1>0, <2>8 DEF LaterOK
  <2> QED BY <2>2, <2>7, <2>9
<1>7. /\ \A x \in N : x[1] # "stub" => x[2] \in 0..made'
      /\ \A s \in Runtimes \ {r} : EndsInCall(mem[s].msgs) => Answer(s) \notin N
  OBVIOUS
<1>8. \A c \in Saves : call'[c].op = "strip" /\ call'[c].pc = "enter" => call'[c] = call[c] \/ ~EndsInCall(call'[c].cap)
  BY <1>0
<1> HIDE DEF N, F
<1> QED BY <1>0, <1>3, <1>4, <1>5, <1>6, <1>7, <1>8, MemoryStepKeeps

LEMMA LastAppended ==
  ASSUME NEW t \in Transcript, NEW m \in Message
  PROVE  Last(Append(t, m)) = m
BY DEF Last, Transcript

LEMMA AddKeepsCuts ==
  ASSUME SaveInv, CutInv, Shapes', NEW r \in Runtimes, Add(r) \/ Compact(r)
  PROVE  CutInv'
<1>1. PICK t \in Transcript : t = mem[r].msgs
  BY DEF SaveInv, Shapes, MemShape
<1>2. /\ made \in Nat /\ made' \in Nat
      /\ \A x \in Known : x[1] # "stub" => x[2] \in 0..made
      /\ MessagesOf(t) \subseteq Known
  BY <1>1, OthersAreKnown DEF SaveInv, Shapes, CutInv, NumbersOK, Real, OfRuntime
<1>3. ASSUME NEW s \in Runtimes, EndsInCall(mem[s].msgs)
      PROVE  /\ Answer(s)[1] = "result" /\ Answer(s)[2] \in 0..made /\ Answer(s) \in Message /\ Answer(s) \notin Known
             /\ \A u \in Runtimes \ {s} : EndsInCall(mem[u].msgs) => Answer(u) # Answer(s)
  <2>1. PICK w \in Transcript : w = mem[s].msgs /\ w # <<>> /\ Last(w)[1] = "call"
    BY <1>3 DEF SaveInv, Shapes, MemShape, EndsInCall
  <2>2. Last(w) \in MessagesOf(w) /\ MessagesOf(w) \subseteq Known
    BY <2>1, LastIsOne, OthersAreKnown DEF OfRuntime
  <2>3. Last(w)[2] \in 0..made
    BY <1>2, <2>1, <2>2
  <2>4. <<"result", Last(w)[2]>> \in Message
    BY <1>2, <2>3 DEF Message, MessageKinds
  <2> QED BY <1>3, <2>1, <2>3, <2>4 DEF Answer, CutInv, AnswersOK
<1>4. CASE Add(r) /\ EndsInCall(t)
  <2>1. PICK m \in Message : m = Answer(r)
    BY <1>1, <1>3, <1>4
  <2>2. Extends(r, Append(t, m), 0) /\ made' = made
    BY <1>1, <1>4, <2>1 DEF Add, Answer
  <2>3. Append(t, m) \in Transcript /\ MessagesOf(Append(t, m)) = MessagesOf(t) \cup {m}
    BY AppendAdds
  <2>4. m[1] = "result" /\ m \notin Known /\ m[2] \in 0..made'
        /\ \A s \in Runtimes \ {r} : EndsInCall(mem[s].msgs) => Answer(s) # m
    BY <1>1, <1>3, <1>4, <2>1, <2>2
  <2>5. ~EndsInCall(Append(t, m))
    BY <2>4, LastAppended DEF EndsInCall
  <2>6. PICK v \in Transcript : v = Append(t, m)
    BY <2>3
  <2>7. /\ Extends(r, v, 0) /\ ~EndsInCall(v) /\ MessagesOf(v) \subseteq MessagesOf(mem[r].msgs) \cup {m}
        /\ m[1] # "stub" /\ made <= made'
    BY <1>1, <1>2, <2>2, <2>3, <2>4, <2>5, <2>6
  <2> QED BY <2>4, <2>7, ExtendsKeepsCuts
<1>5. ASSUME NEW m, NEW k \in {"say", "call"}, m = <<k, made + 1>>, made' = made + 1
      PROVE  /\ m \in Message /\ m[1] = k /\ m[2] = made + 1 /\ m \notin Known /\ m[2] \in 0..made' /\ made <= made'
             /\ \A s \in Runtimes : EndsInCall(mem[s].msgs) => Answer(s) # m
             /\ <<"result", m[2]>> \notin Known \cup {m}
             /\ \A s \in Runtimes : EndsInCall(mem[s].msgs) => Answer(s) # <<"result", m[2]>>
  <2>1. m \in Message /\ m[1] = k /\ m[2] = made + 1
    BY <1>2, <1>5 DEF Message, MessageKinds
  <2>2. made + 1 \notin 0..made /\ made + 1 \in 0..made' /\ made <= made'
    BY <1>2, <1>5
  <2>3. m \notin Known /\ <<"result", m[2]>> \notin Known
    BY <1>2, <2>1, <2>2
  <2> QED BY <1>3, <2>1, <2>2, <2>3
<1>6. CASE Add(r) /\ ~EndsInCall(t)
  <2>1. PICK k \in {"say", "call"} : Extends(r, Append(t, <<k, made'>>), 0)
    BY <1>1, <1>6 DEF Add
  <2>2. made' = made + 1
    BY <1>1, <1>6 DEF Add
  <2>a. <<k, made + 1>> \in Message
    BY <1>2 DEF Message, MessageKinds
  <2>3. PICK m \in Message : m = <<k, made + 1>>
    BY <2>a
  <2>4. /\ m[1] = k /\ m \notin Known /\ m[2] \in 0..made' /\ made <= made'
        /\ \A s \in Runtimes : EndsInCall(mem[s].msgs) => Answer(s) # m
        /\ <<"result", m[2]>> \notin Known \cup {m}
        /\ \A s \in Runtimes : EndsInCall(mem[s].msgs) => Answer(s) # <<"result", m[2]>>
    BY <1>5, <2>2, <2>3
  <2>5. PICK v \in Transcript : v = Append(t, m) /\ MessagesOf(v) = MessagesOf(t) \cup {m} /\ Last(v) = m
    BY AppendAdds, LastAppended
  <2>6. Extends(r, v, 0) /\ m[1] # "stub"
    BY <2>1, <2>2, <2>3, <2>4, <2>5
  <2> QED BY <1>1, <2>4, <2>5, <2>6, ExtendsKeepsCuts
<1>7. CASE Compact(r)
  <2>1. made' = made + 1 /\ Len(t) > 1 /\ ~EndsInCall(t)
    BY <1>1, <1>7 DEF Compact
  <2>a. <<"say", made + 1>> \in Message
    BY <1>2 DEF Message, MessageKinds
  <2>2. PICK m \in Message : m = <<"say", made + 1>>
    BY <2>a
  <2>3. m[1] = "say" /\ m \notin Known /\ m[2] \in 0..made' /\ made <= made'
        /\ \A s \in Runtimes : EndsInCall(mem[s].msgs) => Answer(s) # m
    BY <1>5, <2>1, <2>2
  <2>4. t # <<>> /\ Last(t) \in Message /\ Last(t) \in MessagesOf(t) /\ Last(t)[1] # "call"
    <3>1. t # <<>>
      BY <2>1 DEF Transcript
    <3> QED BY <2>1, <3>1, LastIsOne DEF EndsInCall
  <2>b. <<m, Last(t)>> \in Transcript
    BY <2>4 DEF Transcript
  <2>5. PICK v \in Transcript : v = <<m, Last(t)>>
    BY <2>b
  <2>6. MessagesOf(v) \subseteq MessagesOf(t) \cup {m} /\ Last(v) = Last(t)
    BY <2>4, <2>5 DEF MessagesOf, Last
  <2>7. ~EndsInCall(v) /\ m[1] # "stub"
    BY <2>3, <2>4, <2>6 DEF EndsInCall
  <2>8. Extends(r, v, 1)
    BY <1>1, <1>7, <2>1, <2>2, <2>5 DEF Compact
  <2> QED BY <1>1, <2>3, <2>6, <2>7, <2>8, ExtendsKeepsCuts
<1> QED BY <1>4, <1>6, <1>7

\* A cut of a transcript at a boundary.
LEMMA CutHolds ==
  ASSUME NEW t \in Transcript, NEW k \in Boundaries(t)
  PROVE  /\ SubSeq(t, 1, k) \in Transcript /\ MessagesOf(SubSeq(t, 1, k)) \subseteq MessagesOf(t)
         /\ ~EndsInCall(SubSeq(t, 1, k))
<1>1. k \in 1..(Len(t) - 1) /\ Len(t) \in Nat /\ ~EndsInCall(SubSeq(t, 1, k)) /\ DOMAIN t = 1..Len(t)
  BY DEF Boundaries, Transcript
<1>2. SubSeq(t, 1, k) \in Seq(Message) /\ Len(SubSeq(t, 1, k)) = k /\ \A i \in 1..k : SubSeq(t, 1, k)[i] = t[i]
  BY <1>1 DEF Transcript
<1>3. DOMAIN SubSeq(t, 1, k) = 1..k /\ 1..k \subseteq DOMAIN t
  BY <1>1, <1>2
<1> QED BY <1>1, <1>2, <1>3 DEF MessagesOf, Transcript

\* A call that begins, and the cut of a rewind.
LEMMA BeginKeepsCuts ==
  ASSUME SaveInv, CutInv, Shapes', NEW c \in Saves, NEW r \in Runtimes, NEW op, NEW kept, Begins(c, r, op, kept),
         MessagesOf(kept) \subseteq MessagesOf(mem[r].msgs), op = "strip" => ~EndsInCall(kept),
         mem' = mem \/ \E k \in Boundaries(mem[r].msgs) : mem' = [mem EXCEPT ![r].msgs = SubSeq(@, 1, k)]
  PROVE  CutInv'
<1>0. /\ mem \in [Runtimes -> MemShape] /\ call \in [Saves -> CallShape] /\ made \in Nat
      /\ UNCHANGED <<disk, cut, made>> /\ mem[r].up /\ call[c].pc = "new"
  BY DEF SaveInv, Shapes, Begins
<1>1. /\ mem'[r].base = mem[r].base /\ mem'[r].path = mem[r].path /\ mem'[r].up
      /\ \A s \in Runtimes \ {r} : mem'[s] = mem[s]
      /\ MessagesOf(mem'[r].msgs) \subseteq MessagesOf(mem[r].msgs)
      /\ mem'[r].msgs = mem[r].msgs \/ ~EndsInCall(mem'[r].msgs)
  <2>1. CASE mem' = mem
    BY <1>0, <2>1
  <2>2. CASE mem' # mem
    <3>1. PICK k \in Boundaries(mem[r].msgs) : mem' = [mem EXCEPT ![r].msgs = SubSeq(@, 1, k)]
      BY <2>2
    <3>2. PICK t \in Transcript : t = SubSeq(mem[r].msgs, 1, k) /\ MessagesOf(t) \subseteq MessagesOf(mem[r].msgs)
                                  /\ ~EndsInCall(t)
      BY <1>0, CutHolds DEF MemShape
    <3>3. mem' = [mem EXCEPT ![r] = [mem[r] EXCEPT !.msgs = t]]
      BY <1>0, <3>1, <3>2
    <3>4. mem'[r].msgs = t /\ mem'[r].base = mem[r].base /\ mem'[r].path = mem[r].path /\ mem'[r].up
      BY <1>0, <3>3 DEF MemShape
    <3> QED BY <1>0, <3>2, <3>3, <3>4
  <2> QED BY <2>1, <2>2
<1>2. /\ call[c].on = Idle /\ call[c].cap = <<>> /\ call[c].was = <<>> /\ call[c].end = "none"
      /\ call'[c].pc = "enter" /\ call'[c].on = r /\ call'[c].op = op /\ call'[c].cap = kept
      /\ call'[c].was = <<>> /\ call'[c].end = "none"
      /\ \A d \in Saves \ {c} : call'[d] = call[d]
  <2>1. call[c] = NewCall
    BY <1>0 DEF CutInv, NewOK
  <2>2. call' = [call EXCEPT ![c] = [NewCall EXCEPT !.pc = "enter", !.on = r, !.op = op, !.cap = kept]]
    BY <2>1 DEF Begins
  <2> QED BY <1>0, <2>1, <2>2 DEF NewCall
<1> DEFINE N == {}  F == {}
<1>3. StepsAlone(r, N, F)
  <2>1. MessagesOf(<<>>) = {}
    BY DEF MessagesOf
  <2>2. OfCall(c) = {} /\ OfCall(c)' \subseteq OfRuntime(r) /\ OfRuntime(r)' \subseteq OfRuntime(r)
    BY <1>1, <1>2, <2>1 DEF OfCall, OfRuntime
  <2>3. Joins(c, r)
    BY <1>0, <1>2, <2>2 DEF Joins
  <2> QED BY <1>0, <1>1, <1>2, <2>2, <2>3 DEF StepsAlone, Real
<1>4. EndsInCall(mem'[r].msgs) =>
        /\ Answer(r)' \notin Known \cup N
        /\ \A s \in Runtimes \ {r} : EndsInCall(mem[s].msgs) => Answer(s) # Answer(r)'
  <2>1. EndsInCall(mem'[r].msgs) => Answer(r)' = Answer(r) /\ EndsInCall(mem[r].msgs)
    BY <1>1 DEF Answer
  <2> QED BY <2>1 DEF CutInv, AnswersOK
<1>5. \A d \in Saves : PathOK(d)'
  <2> SUFFICES ASSUME NEW d \in Saves, call'[d].pc \in {"lock", "conflict"}
               PROVE  call'[d].path = mem'[call'[d].on].path
    BY DEF PathOK
  <2>0. call'[d] = call[d]
    BY <1>2
  <2>1. call[d].on \in Runtimes /\ call[d].path = mem[call[d].on].path
    BY <2>0 DEF CutInv, PathOK, SaveInv, CallsOK, CallOK
  <2> QED BY <1>1, <2>0, <2>1
<1>6. ASSUME NoFailure', Unfailed
      PROVE  AddedOK(r)' /\ BaseOK(r)' /\ \A d \in Saves : call'[d].on = r => LaterOK(d)'
  <2>1. AddedOK(r) /\ BaseOK(r) /\ \A d \in Saves : LaterOK(d)
    BY <1>6 DEF Unfailed
  <2>2. BaseOK(r)'
    BY <1>0, <1>1, <2>1 DEF BaseOK, SetOf, File
  <2>3. /\ Real(Others(r)') \subseteq Others(r) /\ (\A q : InFile(q)' = InFile(q)) /\ OnDisk' = OnDisk
    BY <1>3, MemoryMoves
  <2>4. (StripsOn(r)' <=> StripsOn(r)) /\ \A q : WritesTo(r, q)' <=> WritesTo(r, q)
    <3>1. call[c].pc \notin Inside /\ call'[c].pc \notin Inside
      BY <1>0, <1>2 DEF Inside, Writing
    <3> QED BY <1>2, <3>1 DEF StripsOn, WritesTo, Inside
  <2>6. Added(r)' \subseteq Added(r) /\ \A x \in Added(r)' : x[1] # "stub"
    BY <1>1 DEF Added, Real
  <2>7. AddedOK(r)'
    <3> SUFFICES ASSUME ~StripsOn(r)
                 PROVE  /\ Added(r)' \cap Others(r)' = {}
                        /\ \A p \in DOMAIN disk : ~WritesTo(r, p) => Added(r)' \cap InFile(p)' = {}
      BY <1>0, <2>4 DEF AddedOK
    <3>1. /\ Added(r) \cap Others(r) = {}
          /\ \A p \in DOMAIN disk : ~WritesTo(r, p) => Added(r) \cap InFile(p) = {}
      BY <1>0, <2>1 DEF AddedOK
    <3>2. Added(r)' \cap Others(r)' = {}
      BY <2>3, <2>6, <3>1 DEF Real
    <3> QED BY <2>3, <2>6, <3>1, <3>2
  <2>8. ASSUME NEW d \in Saves, call'[d].on = r, call'[d].pc \in Writing \cup {"fork"}
        PROVE  Later(d, r)' \cap (Others(r)' \cup OnDisk' \cup MessagesOf(call'[d].was)) = {}
    <3>0. call'[d] = call[d]
      BY <1>2, <2>8 DEF Writing
    <3>1. Later(d, r) \cap (Others(r) \cup OnDisk \cup MessagesOf(call[d].was)) = {}
      BY <2>1, <2>8, <3>0 DEF LaterOK
    <3>2. Later(d, r)' \subseteq Later(d, r) /\ \A x \in Later(d, r)' : x[1] # "stub"
      BY <1>1, <3>0 DEF Later, Real
    <3>3. Later(d, r)' \cap Others(r)' = {}
      BY <2>3, <3>1, <3>2 DEF Real
    <3> QED BY <2>3, <3>0, <3>1, <3>2, <3>3
  <2>9. \A d \in Saves : call'[d].on = r => LaterOK(d)'
    BY <2>8 DEF LaterOK
  <2> QED BY <2>2, <2>7, <2>9
<1>7. /\ \A x \in N : x[1] # "stub" => x[2] \in 0..made'
      /\ \A s \in Runtimes \ {r} : EndsInCall(mem[s].msgs) => Answer(s) \notin N
      /\ made' \in Nat /\ made <= made'
  BY <1>0
<1>8. \A d \in Saves : call'[d].op = "strip" /\ call'[d].pc = "enter" => call'[d] = call[d] \/ ~EndsInCall(call'[d].cap)
  BY <1>2
<1> HIDE DEF N, F
<1> QED BY <1>0, <1>3, <1>4, <1>5, <1>6, <1>7, <1>8, MemoryStepKeeps

\* A call that enters, and what a late cleanup puts back.
LEMMA EnterKeepsCuts ==
  ASSUME SaveInv, CutInv, Shapes', NEW c \in Saves, Enter(c)
  PROVE  CutInv'
<1>r. PICK r \in Runtimes : r = call[c].on
  BY DEF Enter, SaveInv, CallsOK, CallOK
<1>0. /\ mem \in [Runtimes -> MemShape] /\ call \in [Saves -> CallShape] /\ made \in Nat
      /\ UNCHANGED <<disk, cut, made>> /\ mem[r].up /\ call[c].pc = "enter" /\ mu[r] = Idle
  BY <1>r DEF SaveInv, Shapes, Enter, CallsOK, CallOK
<1>1. /\ mem'[r].base = mem[r].base /\ mem'[r].path = mem[r].path /\ mem'[r].up
      /\ \A s \in Runtimes \ {r} : mem'[s] = mem[s]
      /\ IF call[c].op = "strip" THEN mem'[r].msgs = call[c].cap ELSE mem'[r] = mem[r]
  <2>1. CASE call[c].op # "strip"
    BY <1>0, <2>1 DEF Enter
  <2>2. CASE call[c].op = "strip"
    <3>1. mem' = [mem EXCEPT ![r] = [mem[r] EXCEPT !.msgs = call[c].cap]]
      BY <1>r, <1>0, <2>2 DEF Enter, Replaced
    <3> QED BY <1>0, <2>2, <3>1 DEF MemShape
  <2> QED BY <2>1, <2>2
<1>2. /\ call'[c].pc = "lock" /\ call'[c].on = r /\ call'[c].op = call[c].op /\ call'[c].cap = call[c].cap
      /\ call'[c].was = call[c].was /\ call'[c].end = call[c].end /\ call'[c].path = mem[r].path
      /\ \A d \in Saves \ {c} : call'[d] = call[d]
  <2>1. PICK md : call' = [call EXCEPT ![c] = [call[c] EXCEPT !.pc = "lock", !.path = mem[r].path, !.mode = md]]
    BY <1>r DEF Enter
  <2> QED BY <1>r, <1>0, <2>1 DEF CallShape
<1> DEFINE N == {}  F == {}
<1>3. StepsAlone(r, N, F)
  <2>1. OfCall(c)' = OfCall(c) /\ OfRuntime(r)' \subseteq OfRuntime(r) \cup OfCall(c)
    BY <1>1, <1>2 DEF OfCall, OfRuntime
  <2>2. r # Idle
    BY SaveAssumption
  <2>3. Joins(c, r)
    BY <1>r, <1>0, <1>2, <2>1, <2>2 DEF Joins
  <2> QED BY <1>r, <1>0, <1>1, <1>2, <2>1, <2>3 DEF StepsAlone, Real
<1>4. EndsInCall(mem'[r].msgs) =>
        /\ Answer(r)' \notin Known \cup N
        /\ \A s \in Runtimes \ {r} : EndsInCall(mem[s].msgs) => Answer(s) # Answer(r)'
  <2>1. call[c].op = "strip" => ~EndsInCall(call[c].cap)
    BY <1>0 DEF CutInv, AnswersOK
  <2>2. EndsInCall(mem'[r].msgs) => Answer(r)' = Answer(r) /\ EndsInCall(mem[r].msgs)
    BY <1>1, <2>1 DEF Answer
  <2> QED BY <2>2 DEF CutInv, AnswersOK
<1>5. \A d \in Saves : PathOK(d)'
  <2> SUFFICES ASSUME NEW d \in Saves, call'[d].pc \in {"lock", "conflict"}
               PROVE  call'[d].path = mem'[call'[d].on].path
    BY DEF PathOK
  <2>1. CASE d = c
    BY <1>1, <1>2, <2>1
  <2>2. CASE d # c
    <3>0. call'[d] = call[d]
      BY <1>2, <2>2
    <3>1. call[d].on \in Runtimes /\ call[d].path = mem[call[d].on].path
      BY <3>0 DEF CutInv, PathOK, SaveInv, CallsOK, CallOK
    <3> QED BY <1>1, <3>0, <3>1
  <2> QED BY <2>1, <2>2
<1>6. ASSUME NoFailure', Unfailed
      PROVE  AddedOK(r)' /\ BaseOK(r)' /\ \A d \in Saves : call'[d].on = r => LaterOK(d)'
  <2>1. AddedOK(r) /\ BaseOK(r)
    BY <1>6 DEF Unfailed
  <2>2. BaseOK(r)'
    BY <1>0, <1>1, <2>1 DEF BaseOK, SetOf, File
  <2>3. /\ Real(Others(r)') \subseteq Others(r) /\ (\A q : InFile(q)' = InFile(q))
    BY <1>3, MemoryMoves
  <2>a. \A d \in Saves : call[d].on = r => call[d].pc \notin Inside
    BY <1>0, SaveAssumption DEF SaveInv, CallsOK, CallOK
  <2>4. CASE call[c].op = "strip"
    <3>1. StripsOn(r)'
      BY <1>2, <2>4 DEF StripsOn, Inside
    <3> QED BY <2>2, <2>a, <3>1, <1>2 DEF AddedOK, LaterOK, Inside, Writing
  <2>5. CASE call[c].op # "strip"
    <3>1. ~StripsOn(r) /\ \A q : ~WritesTo(r, q)
      BY <2>a DEF StripsOn, WritesTo, Inside
    <3>2. /\ Added(r) \cap Others(r) = {}
          /\ \A p \in DOMAIN disk : Added(r) \cap InFile(p) = {}
      BY <1>0, <2>1, <3>1 DEF AddedOK
    <3>3. Added(r)' = Added(r) /\ \A x \in Added(r) : x[1] # "stub"
      BY <1>1, <2>5 DEF Added, Real
    <3>4. Added(r)' \cap Others(r)' = {}
      BY <2>3, <3>2, <3>3 DEF Real
    <3>5. \A p \in DOMAIN disk' : Added(r)' \cap InFile(p)' = {}
      BY <1>0, <2>3, <3>2, <3>3
    <3>6. AddedOK(r)'
      BY <3>4, <3>5 DEF AddedOK
    <3> QED BY <2>2, <2>a, <3>6, <1>2 DEF LaterOK, Inside, Writing
  <2> QED BY <2>4, <2>5
<1>7. /\ \A x \in N : x[1] # "stub" => x[2] \in 0..made'
      /\ \A s \in Runtimes \ {r} : EndsInCall(mem[s].msgs) => Answer(s) \notin N
      /\ made' \in Nat /\ made <= made'
  BY <1>0
<1>8. \A d \in Saves : call'[d].op = "strip" /\ call'[d].pc = "enter" => call'[d] = call[d] \/ ~EndsInCall(call'[d].cap)
  BY <1>2
<1> HIDE DEF N, F
<1> QED BY <1>0, <1>3, <1>4, <1>5, <1>6, <1>7, <1>8, MemoryStepKeeps

\* A runtime that starts on a file nobody writes.
LEMMA ResumeKeepsCuts ==
  ASSUME SaveInv, CutInv, Shapes', NEW r \in Runtimes, NEW p \in DOMAIN disk, Resume(r, p)
  PROVE  CutInv'
<1>0. /\ mem \in [Runtimes -> MemShape] /\ made \in Nat /\ p \in Path
      /\ UNCHANGED <<disk, cut, made, call>> /\ ~mem[r].up /\ Holder(locked, p) = Idle
      /\ mem'[r] = Loaded(p) /\ \A s \in Runtimes \ {r} : mem'[s] = mem[s]
  BY DEF SaveInv, Shapes, Resume
<1>1. /\ Real(MessagesOf(Loaded(p).msgs)) \subseteq InFile(p)
      /\ Loaded(p).base.msgs = Loaded(p).msgs /\ ~EndsInCall(Loaded(p).msgs)
      /\ Loaded(p).base.ok /\ Loaded(p).base.path = p /\ Loaded(p).base.rev = File(p).rev /\ Loaded(p).path = p
  BY <1>0, LoadHolds
<1>2. \A d \in Saves : call[d].on = r => call[d].pc \in {"new", "done"}
  BY <1>0 DEF SaveInv, CallsOK, CallOK
<1> DEFINE N == {}  F == InFile(p)
<1>3. StepsAlone(r, N, F)
  <2>1. \A s \in Runtimes : ~WritesTo(s, p)
    BY <1>0, SaveAssumption DEF WritesTo, SaveInv, CallsOK, CallOK
  <2>2. Real(OfRuntime(r)') \subseteq F
    BY <1>0, <1>1 DEF OfRuntime
  <2> QED BY <1>0, <2>1, <2>2 DEF StepsAlone
<1>4. ~EndsInCall(mem'[r].msgs)
  BY <1>0, <1>1
<1>5. \A d \in Saves : PathOK(d)'
  <2> SUFFICES ASSUME NEW d \in Saves, call[d].pc \in {"lock", "conflict"}
               PROVE  call[d].path = mem'[call[d].on].path
    BY <1>0 DEF PathOK
  <2>1. call[d].on \in Runtimes /\ call[d].path = mem[call[d].on].path /\ call[d].on # r
    BY <1>2 DEF CutInv, PathOK, SaveInv, CallsOK, CallOK
  <2> QED BY <1>0, <2>1
<1>6. ASSUME NoFailure', Unfailed
      PROVE  AddedOK(r)' /\ BaseOK(r)' /\ \A d \in Saves : call'[d].on = r => LaterOK(d)'
  <2>1. Added(r)' = {}
    BY <1>0, <1>1 DEF Added, Real
  <2>2. AddedOK(r)'
    BY <2>1 DEF AddedOK
  <2>3. PICK b : b = mem'[r].base
    OBVIOUS
  <2>4. MessagesOf(b.msgs) \cap SetOf(cut, p) = {}
    BY <1>0, <1>1, <2>3, <1>6, FilesAreClean DEF Unfailed
  <2>5. MessagesOf(b.msgs) \cap SetOf(cut, p)' = {} /\ b.ok /\ b.path = p /\ mem'[r].path = p
    BY <1>0, <1>1, <2>3, <2>4 DEF SetOf
  <2>6. b.rev <= (File(p).rev)'
    <3>1. (File(p).rev)' = File(p).rev
      BY <1>0 DEF File
    <3>2. File(p).rev \in Nat
      BY DEF SaveInv, Shapes, File, FileShape, NoFile
    <3> QED BY <1>0, <1>1, <2>3, <3>1, <3>2
  <2>7. BaseOK(r)'
    BY <2>3, <2>5, <2>6, BaselineIsNew
  <2>8. \A d \in Saves : call'[d].on = r => LaterOK(d)'
    BY <1>0, <1>2 DEF LaterOK, Writing
  <2> QED BY <2>2, <2>7, <2>8
<1>7. /\ \A x \in N : x[1] # "stub" => x[2] \in 0..made'
      /\ \A s \in Runtimes \ {r} : EndsInCall(mem[s].msgs) => Answer(s) \notin N
      /\ made' \in Nat /\ made <= made'
  BY <1>0
<1>8. \A d \in Saves : call'[d].op = "strip" /\ call'[d].pc = "enter" => call'[d] = call[d] \/ ~EndsInCall(call'[d].cap)
  BY <1>0
<1> HIDE DEF N, F
<1> QED BY <1>0, <1>3, <1>4, <1>5, <1>6, <1>7, <1>8, MemoryStepKeeps

LEMMA MemoryKeepsCuts ==
  ASSUME SaveInv, CutInv, MemoryStep, Shapes'
  PROVE  CutInv'
<1>0. \A r \in Runtimes : mem[r].msgs \in Transcript
  BY DEF SaveInv, Shapes, MemShape
<1>e. MessagesOf(<<>>) = {} /\ "snapshot" # "strip" /\ "rewind" # "strip"
  BY DEF MessagesOf
<1>1. ASSUME NEW r \in Runtimes, NEW p \in DOMAIN disk, Resume(r, p)
      PROVE  CutInv'
  BY <1>1, ResumeKeepsCuts
<1>2. ASSUME NEW c \in Saves, NEW r \in Runtimes, Snapshot(c, r)
      PROVE  CutInv'
  BY <1>2, <1>e, BeginKeepsCuts DEF Snapshot
<1>3. ASSUME NEW c \in Saves, NEW r \in Runtimes, Rewind(c, r)
      PROVE  CutInv'
  BY <1>3, <1>e, BeginKeepsCuts DEF Rewind
<1>4. ASSUME NEW c \in Saves, NEW r \in Runtimes, Cleanup(c, r)
      PROVE  CutInv'
  <2>1. PICK k \in Boundaries(mem[r].msgs) : Begins(c, r, "strip", SubSeq(mem[r].msgs, 1, k)) /\ mem' = mem
    BY <1>4 DEF Cleanup
  <2>2. PICK t \in Transcript : t = SubSeq(mem[r].msgs, 1, k) /\ MessagesOf(t) \subseteq MessagesOf(mem[r].msgs)
                                /\ ~EndsInCall(t)
    BY <1>0, CutHolds
  <2> QED BY <2>1, <2>2, BeginKeepsCuts
<1> QED BY <1>1, <1>2, <1>3, <1>4, AddKeepsCuts, EnterKeepsCuts DEF MemoryStep

LEMMA DeathKeepsCuts ==
  ASSUME SaveInv, CutInv, ProcessDies
  PROVE  CutInv'
<1>0. /\ UNCHANGED <<disk, cut, made>>
      /\ \A r \in Runtimes : mem'[r] = Down
      /\ \A c \in Saves : \/ call'[c] = call[c] /\ call[c].pc \in {"new", "done"}
                          \/ /\ call'[c].pc = "done" /\ call'[c].cap = <<>> /\ call'[c].was = <<>>
                             /\ call[c].pc # "done"
  BY DEF ProcessDies, Ended, NewCall
<1>1. ~Down.up /\ MessagesOf(Down.msgs) = {} /\ MessagesOf(Down.base.msgs) = {} /\ ~EndsInCall(Down.msgs)
      /\ MessagesOf(<<>>) = {}
  BY DEF Down, NoBase, MessagesOf, EndsInCall
<1>2. \A m \in Known' : m \in Known
  <2>1. KnownIs /\ KnownIs'
    BY KnownOnes, PTL
  <2>2. OnDisk' = OnDisk /\ AllCut' = AllCut
    BY <1>0 DEF OnDisk, AllCut
  <2>3. \A r \in Runtimes : OfRuntime(r)' = {}
    BY <1>0, <1>1 DEF OfRuntime
  <2>4. \A c \in Saves : OfCall(c)' = OfCall(c) \/ OfCall(c)' = {}
    BY <1>0, <1>1 DEF OfCall
  <2> QED BY <2>1, <2>2, <2>3, <2>4 DEF KnownIs
<1>3. NumbersOK' /\ AnswersOK' /\ CutsOK'
  <2>1. NumbersOK'
    BY <1>0, <1>2 DEF CutInv, NumbersOK, Real
  <2>2. AnswersOK'
    BY <1>0, <1>1 DEF AnswersOK
  <2>3. CutsOK'
    BY <1>0 DEF CutInv, CutsOK, Exists, Stored, File
  <2> QED BY <2>1, <2>2, <2>3
<1>4. \A c \in Saves : NewOK(c)' /\ PathOK(c)'
  BY <1>0 DEF CutInv, NewOK, PathOK
<1>5. ASSUME NoFailure'
      PROVE  /\ \A r \in Runtimes : AddedOK(r)' /\ BaseOK(r)'
             /\ \A c \in Saves : LaterOK(c)' /\ CutOK(c)'
             /\ CutStaysCut'
  <2>1. NoFailure
    <3> SUFFICES ASSUME NEW c \in Saves PROVE call[c].end # "failed"
      BY DEF NoFailure
    <3>1. call[c].pc # "done" => call[c].end = "none"
      BY DEF SaveInv, CallsOK, CallOK
    <3> QED BY <1>0, <1>5, <3>1 DEF NoFailure
  <2>2. \A p \in DOMAIN cut : MessagesOf(Stored(File(p))) \cap cut[p] = {}
    BY <2>1 DEF CutInv, CutStaysCut, NoFailure
  <2>3. CutStaysCut'
    BY <1>0, <2>2 DEF CutStaysCut, Stored, File
  <2>4. \A r \in Runtimes : AddedOK(r)' /\ BaseOK(r)'
    BY <1>0, <1>1 DEF AddedOK, BaseOK
  <2>5. \A c \in Saves : LaterOK(c)' /\ CutOK(c)'
    BY <1>0 DEF LaterOK, CutOK, Writing
  <2> QED BY <2>3, <2>4, <2>5
<1> QED BY <1>3, <1>4, <1>5 DEF CutInv

LEMMA CutsStartWell ==
  ASSUME SaveInit
  PROVE  CutInv
<1>1. /\ \A p \in DOMAIN disk : Stored(disk[p]) = Opening
      /\ DOMAIN cut = {<<>>} /\ cut[<<>>] = {} /\ made = 0
      /\ \A r \in Runtimes : mem[r] = Down
      /\ \A c \in Saves : call[c] = NewCall
  <2>1. Stored(LegacyFile) = Opening /\ Stored(BranchFile) = Opening
    BY DEF LegacyFile, BranchFile, NoFile, Stored, Opening
  <2> QED BY <2>1 DEF SaveInit, OnlyOriginal
<1>2. /\ ~Down.up /\ MessagesOf(Down.msgs) = {} /\ MessagesOf(Down.base.msgs) = {} /\ ~EndsInCall(Down.msgs)
      /\ MessagesOf(<<>>) = {} /\ MessagesOf(Opening) = {<<"say", 0>>}
      /\ NewCall.pc = "new" /\ NewCall.cap = <<>> /\ NewCall.was = <<>> /\ NewCall.end = "none" /\ NewCall.op = "snapshot"
  BY DEF Down, NoBase, MessagesOf, EndsInCall, NewCall, Opening
<1>3. \A m \in Known : m = <<"say", 0>>
  <2>1. \A m \in OnDisk : m = <<"say", 0>>
    BY <1>1, <1>2 DEF OnDisk
  <2>2. AllCut = {}
    BY <1>1 DEF AllCut
  <2>3. \A r \in Runtimes : OfRuntime(r) = {}
    BY <1>1, <1>2 DEF OfRuntime
  <2>4. \A c \in Saves : OfCall(c) = {}
    BY <1>1, <1>2 DEF OfCall
  <2> QED BY <2>1, <2>2, <2>3, <2>4, KnownOnes DEF KnownIs
<1>4. NumbersOK /\ AnswersOK /\ CutsOK
  <2>1. NumbersOK
    BY <1>1, <1>3 DEF NumbersOK, Real
  <2>2. AnswersOK
    BY <1>1, <1>2 DEF AnswersOK
  <2>3. CutsOK
    BY <1>1 DEF CutsOK, Real, Path
  <2> QED BY <2>1, <2>2, <2>3
<1>5. \A c \in Saves : NewOK(c) /\ PathOK(c) /\ LaterOK(c) /\ CutOK(c)
  BY <1>1, <1>2 DEF NewOK, PathOK, LaterOK, CutOK, Writing
<1>6. \A r \in Runtimes : AddedOK(r) /\ BaseOK(r)
  BY <1>1, <1>2 DEF AddedOK, BaseOK
<1>7. CutStaysCut
  BY <1>1 DEF CutStaysCut
<1> QED BY <1>4, <1>5, <1>6, <1>7 DEF CutInv

\* A step that changes nothing.
LEMMA NothingChanges ==
  ASSUME CutInv, UNCHANGED <<disk, mem, call, made, cut>>
  PROVE  CutInv'
<1>1. /\ (\A p : File(p)' = File(p)) /\ Known' = Known /\ (\A r \in Runtimes : Others(r)' = Others(r))
      /\ OnDisk' = OnDisk /\ (\A p : InFile(p)' = InFile(p))
  BY DEF File, Known, Others, OnDisk, AllCut, OfRuntime, OfCall, InFile, Stored
<1>2. NumbersOK /\ AnswersOK /\ CutsOK => NumbersOK' /\ AnswersOK' /\ CutsOK'
  BY <1>1 DEF NumbersOK, AnswersOK, Answer, CutsOK, Exists
<1>3. (\A c \in Saves : NewOK(c) /\ PathOK(c)) => \A c \in Saves : NewOK(c)' /\ PathOK(c)'
  BY DEF NewOK, PathOK
<1>4. NoFailure' => NoFailure
  BY DEF NoFailure
<1>5. ASSUME NEW r \in Runtimes, AddedOK(r), BaseOK(r)
      PROVE  AddedOK(r)' /\ BaseOK(r)'
  <2>1. (StripsOn(r)' <=> StripsOn(r)) /\ (\A p : WritesTo(r, p)' <=> WritesTo(r, p)) /\ Added(r)' = Added(r)
    BY DEF StripsOn, WritesTo, Added
  <2>2. AddedOK(r)'
    BY <1>1, <1>5, <2>1 DEF AddedOK
  <2>3. BaseOK(r)'
    BY <1>5 DEF BaseOK, SetOf, File
  <2> QED BY <2>2, <2>3
<1>6. ASSUME NEW c \in Saves, LaterOK(c), CutOK(c)
      PROVE  LaterOK(c)' /\ CutOK(c)'
  <2>1. \A r : Later(c, r)' = Later(c, r)
    BY DEF Later
  <2>2. LaterOK(c)'
    BY <1>1, <1>6, <2>1 DEF LaterOK
  <2>3. CutOK(c)'
    BY <1>6 DEF CutOK, BringsBack, Overwrites, Refork, SetOf
  <2> QED BY <2>2, <2>3
<1>7. CutStaysCut => CutStaysCut'
  BY DEF CutStaysCut, Stored, File
<1> QED BY <1>2, <1>3, <1>4, <1>5, <1>6, <1>7 DEF CutInv

\* What an acknowledged rewind or compaction of one runtime removed from a file,
\* no later save of another brings back, while no save has failed on the way: an
\* append covers its baseline or finds it in the file, a rewrite owns the file
\* (checkSnapshotWrite, appendCoversPersistedBaseline).
THEOREM WhatIsCutStaysCut == SaveSpec => []CutStaysCut
<1>1. SaveInit => SaveInv /\ CutInv
  BY StartsWell, CutsStartWell
<1>2. SaveInv /\ CutInv /\ [SaveNext]_saveVars => CutInv'
  <2> SUFFICES ASSUME SaveInv, CutInv, [SaveNext]_saveVars
               PROVE  CutInv'
    OBVIOUS
  <2>0. Shapes'
    BY ShapesAreKept
  <2>1. CASE MemoryStep
    BY <2>0, <2>1, MemoryKeepsCuts
  <2>2. CASE \E c \in Saves : SaveStep(c)
    BY <2>0, <2>2, SavingKeepsCuts
  <2>3. CASE ProcessDies
    BY <2>3, DeathKeepsCuts
  <2>4. CASE UNCHANGED saveVars
    BY <2>4, NothingChanges DEF saveVars
  <2> QED BY <2>1, <2>2, <2>3, <2>4 DEF SaveNext, MemoryStep, SaveStep
<1>3. SaveInv /\ [SaveNext]_saveVars => SaveInv'
  BY InvariantIsKept
<1>4. CutInv => CutStaysCut
  BY DEF CutInv, CutStaysCut, NoFailure
<1> QED BY <1>1, <1>2, <1>3, <1>4, PTL DEF SaveSpec

(***************************************************************************)
(* Nobody fights itself.                                                   *)
(***************************************************************************)
Solo(r, p) == SetOf(wrote, p) \subseteq {r}
Asking == {"conflict", "adopt", "fork", "force"}
\* A runtime whose memory is no continuation of its baseline, and shall not be.
Edits(r) == NeedsRewrite(r) \/ Active(r, {"rewind"}) \/ StripsOn(r) \/ RewriteFailed

\* Where a call is and why it rewrites; one edit of a transcript at a time.
PlaceOK(c) ==
  LET r == call[c].on IN
  /\ call[c].pc \in Asking \cup {"lock"} \/ (call[c].pc \in Writing /\ call[c].shape # "fork")
       => call[c].path = mem[r].path
  /\ call[c].pc \in Inside => /\ call[c].mode = "snapshot" => call[c].op = "snapshot"
                              /\ call[c].mode = "rewrite" /\ call[c].op = "snapshot" => NeedsRewrite(r)
  /\ call[c].pc \in Writing \cup {"fork"} => mem[r].saved <= call[c].rw
  /\ call[c].pc \in Writing /\ call[c].shape = "fork" => call[c].path # mem[r].path
EditOf(c, r) == call[c].on = r /\ call[c].op \in {"rewind", "strip"} /\ call[c].pc \notin {"new", "done"}
LocksOK == \A p \in Path : \A c \in Saves :
  Holder(locked, p) = c => call[c].pc \in Writing /\ call[c].path = p
EditsOK == \A r \in Runtimes : \A c, d \in Saves : EditOf(c, r) /\ EditOf(d, r) => c = d

\* What a call captured is how the memory begins, unless that was rewritten since.
CaptureOK(c) ==
  LET r == call[c].on IN
  /\ call[c].pc \in Writing \cup {"fork"} /\ call[c].rw = mem[r].rw
  /\ call[c].op # "snapshot" \/ ~Active(r, {"rewind"})
  => IsPrefix(call[c].cap, mem[r].msgs)

\* The memory of a runtime that alone wrote its file goes on from its baseline
\* and from the file, which goes on from the baseline.
LineOK(r) ==
  LET b == mem[r].base.msgs  t == Stored(File(mem[r].path)) IN
  mem[r].up =>
    /\ mem[r].base.ok /\ mem[r].base.path = mem[r].path
    /\ Solo(r, mem[r].path) /\ ~Edits(r) =>
         /\ IsPrefix(b, mem[r].msgs)
         /\ b = Normalize(t) \/ (IsPrefix(b, t) /\ IsPrefix(t, mem[r].msgs))
NextOK(c) ==
  LET r == call[c].on IN
  /\ call[c].pc \in Writing /\ call[c].shape \notin {"fork", "force"} /\ call[c].mode = "snapshot"
  /\ Solo(r, call[c].path) /\ ~Edits(r)
  => IsPrefix(mem[r].base.msgs, call[c].cap)

\* A conflict is with somebody else's bytes.
FightOK(c) ==
  LET r == call[c].on IN
  /\ call[c].pc \in Asking \/ (call[c].pc \in Writing /\ call[c].shape = "force")
  /\ \/ call[c].mode = "snapshot" /\ ~Edits(r)
     \/ call[c].mode = "rewrite" /\ call[c].pc = "conflict" /\ faults = 0
  => ~Solo(r, call[c].path)

\* Whose bytes are in a file, and what its ledger says.
BytesOK ==
  /\ \A p \in Path : Stored(File(p)) = <<>> => File(p).rev = 0
  /\ \A p \in Path : p # <<>> /\ Stored(File(p)) # <<>> => SetOf(wrote, p) # {}
WriterOK(c) ==
  LET k == call[c] IN
  /\ k.pc \in {"anchor", "record"} => \/ k.on \in SetOf(wrote, k.path) \/ k.shape = "heal"
                                      \/ k.shape = "fork" /\ k.was # <<>>
  /\ k.pc \in Writing /\ k.shape = "fork" =>
       /\ k.was \notin {<<>>, k.cap} => Idle \in SetOf(wrote, k.path)
       /\ k.was = <<>> => File(k.path).rev = 0

\* While nothing fails, whoever alone wrote a file knows its revision.
KnownOK(r) ==
  LET b == mem[r].base  f == File(mem[r].path) IN
  mem[r].up /\ Solo(r, mem[r].path) =>
    /\ mem[r].path # <<>> => f.rev >= 1
    /\ ~WritesTo(r, mem[r].path) => b.rev = f.rev /\ b.msgs \in {Stored(f), Normalize(Stored(f))}
DigestsOK == \A p \in Path : Holder(locked, p) = Idle /\ Idle \notin SetOf(wrote, p)
                               => File(p).digest \in {<<>>, Stored(File(p))}
LedgerOK(c) ==
  call[c].pc \in Writing =>
    /\ call[c].shape = "fork" /\ call[c].was = call[c].cap /\ Idle \notin SetOf(wrote, call[c].path)
         => File(call[c].path).digest \in {<<>>, call[c].cap}
    /\ call[c].shape = "heal" => Idle \in SetOf(wrote, call[c].path)
CalmOK ==
  /\ NoFailure
  /\ \A p \in DOMAIN wrote, r \in Runtimes : r \in wrote[p] => mem[r].up
  /\ \A r \in Runtimes : KnownOK(r)
  /\ \A c \in Saves : LedgerOK(c)
  /\ DigestsOK

SelfInv ==
  /\ EditsOK /\ LocksOK /\ BytesOK
  /\ \A c \in Saves : PlaceOK(c) /\ CaptureOK(c) /\ NextOK(c) /\ FightOK(c) /\ WriterOK(c)
  /\ \A r \in Runtimes : LineOK(r)
  /\ faults = 0 => CalmOK

\* What it is to be a prefix.
LEMMA PrefixIs ==
  ASSUME NEW s \in Transcript, NEW t \in Transcript
  PROVE  IsPrefix(s, t) <=> (Len(s) <= Len(t) /\ \A i \in 1..Len(s) : s[i] = t[i])
<1>1. /\ s \in Seq(Message) /\ t \in Seq(Message) /\ Len(s) \in Nat /\ Len(t) \in Nat
  BY DEF Transcript
<1>2. ASSUME Len(s) <= Len(t)
      PROVE  SubSeq(s, 1, Len(s)) = SubSeq(t, 1, Len(s)) <=> \A i \in 1..Len(s) : s[i] = t[i]
  <2>1. /\ SubSeq(s, 1, Len(s)) \in Seq(Message) /\ SubSeq(t, 1, Len(s)) \in Seq(Message)
        /\ Len(SubSeq(s, 1, Len(s))) = Len(s) /\ Len(SubSeq(t, 1, Len(s))) = Len(s)
        /\ \A i \in 1..Len(s) : SubSeq(s, 1, Len(s))[i] = s[i] /\ SubSeq(t, 1, Len(s))[i] = t[i]
    BY <1>1, <1>2
  <2>2. SubSeq(s, 1, Len(s)) = SubSeq(t, 1, Len(s)) <=>
          \A i \in 1..Len(s) : SubSeq(s, 1, Len(s))[i] = SubSeq(t, 1, Len(s))[i]
    BY <2>1, SeqEqual
  <2> QED BY <2>1, <2>2
<1> QED BY <1>1, <1>2 DEF IsPrefix

LEMMA PrefixItself ==
  ASSUME NEW t \in Transcript
  PROVE  IsPrefix(t, t)
BY PrefixIs DEF Transcript

LEMMA PrefixThrough ==
  ASSUME NEW s \in Transcript, NEW t \in Transcript, NEW u \in Transcript, IsPrefix(s, t), IsPrefix(t, u)
  PROVE  IsPrefix(s, u)
<1>1. Len(s) \in Nat /\ Len(t) \in Nat /\ Len(u) \in Nat
  BY DEF Transcript
<1>2. Len(s) <= Len(t) /\ Len(t) <= Len(u) /\ (\A i \in 1..Len(s) : s[i] = t[i]) /\ (\A i \in 1..Len(t) : t[i] = u[i])
  BY PrefixIs
<1>3. \A i \in 1..Len(s) : s[i] = u[i]
  BY <1>1, <1>2
<1> QED BY <1>1, <1>2, <1>3, PrefixIs

\* What is appended to leaves its beginnings; the repair of a load appends.
LEMMA PrefixOfMore ==
  ASSUME NEW t \in Transcript, NEW m \in Message
  PROVE  Append(t, m) \in Transcript /\ IsPrefix(t, Append(t, m))
<1>1. /\ Append(t, m) \in Transcript /\ Len(Append(t, m)) = Len(t) + 1 /\ Len(t) \in Nat
      /\ \A i \in 1..Len(t) : t[i] = Append(t, m)[i]
  BY DEF Transcript
<1>2. Len(t) <= Len(Append(t, m))
  BY <1>1
<1>3. IsPrefix(t, Append(t, m)) <=> (Len(t) <= Len(Append(t, m)) /\ \A i \in 1..Len(t) : t[i] = Append(t, m)[i])
  BY <1>1, PrefixIs
<1> QED BY <1>1, <1>2, <1>3

LEMMA RepairIsLonger ==
  ASSUME NEW t \in Transcript
  PROVE  Normalize(t) \in Transcript /\ Len(Normalize(t)) \in Nat /\ Len(t) \in Nat /\ Len(Normalize(t)) >= Len(t)
<1>1. Normalize(t) \in Transcript /\ IsPrefix(t, Normalize(t))
  <2>1. CASE EndsInCall(t)
    <3>1. <<"stub", Last(t)[2]>> \in Message
      BY <2>1, LastIsOne DEF EndsInCall, Message, MessageKinds
    <3> QED BY <2>1, <3>1, PrefixOfMore DEF Normalize
  <2>2. CASE ~EndsInCall(t)
    BY <2>2, PrefixItself DEF Normalize
  <2> QED BY <2>1, <2>2
<1>2. Len(t) \in Nat /\ Len(Normalize(t)) \in Nat
  BY <1>1 DEF Transcript
<1> QED BY <1>1, <1>2, PrefixIs

(***************************************************************************)
(* What the steps of a save change.                                        *)
(***************************************************************************)
\* Files: two steps write what is read back, one the ledger.
LEMMA FileMoves ==
  ASSUME SaveInv, NEW c \in Saves, SaveStep(c), Shapes'
  PROVE  /\ \A q : q # call[c].path => File(q)' = File(q)
         /\ \A q : ~(WriteLog(c) \/ WriteAnchor(c)) => Stored(File(q))' = Stored(File(q))
         /\ \A q : Stored(File(q))' \in {Stored(File(q)), call[c].cap}
         /\ \A q : ~Record(c) => (File(q).rev)' = File(q).rev /\ (File(q).digest)' = File(q).digest
         /\ Record(c) => \A q : q = call[c].path => File(q)' = Recorded(c)
<1> DEFINE k == call[c]  p == k.path  f == File(p)
<1>0. /\ p \in Path /\ f \in FileShape /\ k \in CallShape /\ Shapes
  BY StepIsInside, CallIsOne DEF SaveInv, FileShape
<1>1. ASSUME NEW g \in FileShape, disk' = Put(disk, p, g), Stored(g) \in {Stored(f), k.cap},
             ~(WriteLog(c) \/ WriteAnchor(c)) => Stored(g) = Stored(f),
             ~Record(c) => g.rev = f.rev /\ g.digest = f.digest,
             Record(c) => g = Recorded(c)
      PROVE  /\ \A q : q # p => File(q)' = File(q)
             /\ \A q : ~(WriteLog(c) \/ WriteAnchor(c)) => Stored(File(q))' = Stored(File(q))
             /\ \A q : Stored(File(q))' \in {Stored(File(q)), call[c].cap}
             /\ \A q : ~Record(c) => (File(q).rev)' = File(q).rev /\ (File(q).digest)' = File(q).digest
             /\ Record(c) => \A q : q = p => File(q)' = Recorded(c)
  <2>1. \A q : File(q)' = IF q = p THEN g ELSE File(q)
    BY <1>0, <1>1, PutFile
  <2>2. \A q : Stored(File(q))' = IF q = p THEN Stored(g) ELSE Stored(File(q))
    BY <2>1 DEF Stored
  <2>3. \A q : (File(q).rev)' = (IF q = p THEN g.rev ELSE File(q).rev)
               /\ (File(q).digest)' = (IF q = p THEN g.digest ELSE File(q).digest)
    BY <2>1
  <2> QED BY <1>1, <2>1, <2>2, <2>3
<1>2. CASE SaveWrites(c) \/ SaveIsUpToDate(c) \/ SaveConflicts(c) \/ ForceSave(c)
  <2>1. disk' = Put(disk, p, Repaired(f))
    BY <1>2 DEF SaveWrites, SaveIsUpToDate, SaveConflicts, ForceSave, Locks
  <2>2. /\ Repaired(f) \in FileShape /\ Stored(Repaired(f)) = Stored(f)
        /\ Repaired(f).rev = f.rev /\ Repaired(f).digest = f.digest
    BY <1>0, RepairIsOne
  <2>3. ~Record(c)
    BY <1>2 DEF SaveWrites, SaveIsUpToDate, SaveConflicts, ForceSave, Locks, Record
  <2> QED BY <1>1, <2>1, <2>2, <2>3
<1>3. CASE WriteLog(c)
  <2>1. /\ disk' = Put(disk, p, Logged(c)) /\ Logged(c) \in FileShape
        /\ Logged(c).anchor = f.anchor
        /\ Logged(c) = f \/ Logged(c).log = k.cap
    BY <1>0, <1>3, LoggedIsOne, StepIsInside DEF WriteLog, SaveInv
  <2>2. Logged(c).rev = f.rev /\ Logged(c).digest = f.digest
    BY <1>0 DEF Logged, FileShape
  <2>3. Stored(Logged(c)) \in {Stored(f), k.cap}
    <3>1. k.cap # <<>>
      BY <1>3 DEF SaveInv, CallsOK, CallOK, WriteLog, Writing
    <3> QED BY <2>1, <3>1 DEF Stored
  <2>4. ~Record(c)
    BY <1>3 DEF WriteLog, Record
  <2> QED BY <1>1, <1>3, <2>1, <2>2, <2>3, <2>4
<1>4. CASE WriteAnchor(c)
  <2>1. disk' = Put(disk, p, [f EXCEPT !.anchor = k.cap])
    BY <1>4 DEF WriteAnchor
  <2>2. PICK g : g = [f EXCEPT !.anchor = k.cap]
    OBVIOUS
  <2>3. g \in FileShape /\ g.rev = f.rev /\ g.digest = f.digest /\ g.log = f.log /\ g.anchor = k.cap
    BY <1>0, <2>2 DEF FileShape, CallShape
  <2>4. Stored(g) \in {Stored(f), k.cap}
    BY <2>3 DEF Stored
  <2>5. ~Record(c)
    BY <1>4 DEF WriteAnchor, Record
  <2> QED BY <1>1, <1>4, <2>1, <2>2, <2>3, <2>4, <2>5
<1>5. CASE Record(c)
  <2>1. disk' = Put(disk, p, Recorded(c)) /\ k.pc \in Writing
    BY <1>5 DEF Record, Writing
  <2>2. /\ Recorded(c) \in FileShape /\ Recorded(c).log = f.log /\ Recorded(c).anchor = f.anchor
    BY <2>1, RecordedIsOne DEF SaveInv
  <2>3. Stored(Recorded(c)) = Stored(f)
    BY <2>2 DEF Stored
  <2> QED BY <1>1, <1>5, <2>1, <2>2, <2>3
<1>6. CASE disk' = disk
  <2>1. \A q : File(q)' = File(q)
    BY <1>6 DEF File
  <2>2. \A q : Stored(File(q))' = Stored(File(q)) /\ (File(q).rev)' = File(q).rev /\ (File(q).digest)' = File(q).digest
    BY <2>1 DEF Stored
  <2> QED BY <1>0, <1>5, <2>1, <2>2
<1>7. CASE WriteFails(c) /\ disk' # disk
  <2>1. PICK h : disk' = Put(disk, p, h) /\ h = IF f.log = <<>> THEN [f EXCEPT !.foreign = TRUE]
                                                ELSE [f EXCEPT !.torn = TRUE]
    BY <1>7 DEF WriteFails
  <2>2. h \in FileShape /\ h.log = f.log /\ h.anchor = f.anchor /\ h.rev = f.rev /\ h.digest = f.digest
    BY <1>0, <2>1 DEF FileShape
  <2>3. Stored(h) = Stored(f)
    BY <2>2 DEF Stored
  <2> QED BY <1>1, <1>5, <2>1, <2>2, <2>3
<1>8. CASE Retry(c) \/ Adopt(c) \/ Recover(c) \/ Fork(c)
  BY <1>6, <1>8 DEF Retry, Adopt, Recover, Fork
<1> QED BY <1>2, <1>3, <1>4, <1>5, <1>6, <1>7, <1>8 DEF SaveStep

\* A call that saves is alone in its runtime.
LEMMA OneInside ==
  ASSUME SaveInv, NEW c \in Saves, NEW d \in Saves, d # c, call[c].pc \in Inside, call[d].pc \in Inside
  PROVE  call[d].on # call[c].on
BY DEF SaveInv, CallsOK, CallOK

\* Whose bytes are in a file only becomes more; a write adds its runtime, and a
\* fork what it finds.
LEMMA BytesMove ==
  ASSUME SaveInv, NEW c \in Saves, SaveStep(c)
  PROVE  /\ \A q : SetOf(wrote, q) \subseteq SetOf(wrote, q)'
         /\ \A q : SetOf(wrote, q)' \subseteq SetOf(wrote, q) \cup {call[c].on, Idle}
         /\ WriteLog(c) \/ WriteAnchor(c) => \A q : q = call[c].path => call[c].on \in SetOf(wrote, q)'
         /\ Fork(c) => \A q : q = Append(call[c].path, call[c].cap) /\ Stored(File(q)) \notin {<<>>, call[c].cap}
                                => Idle \in SetOf(wrote, q)'
<1>1. ASSUME NEW p, NEW x, wrote' = Put(wrote, p, SetOf(wrote, p) \cup x)
      PROVE  \A q : SetOf(wrote, q)' = IF q = p THEN SetOf(wrote, q) \cup x ELSE SetOf(wrote, q)
  BY <1>1 DEF Put, SetOf
<1>2. CASE WriteLog(c) \/ WriteAnchor(c)
  <2>1. wrote' = Put(wrote, call[c].path, SetOf(wrote, call[c].path) \cup {call[c].on})
    BY <1>2 DEF WriteLog, WriteAnchor, Wrote
  <2>2. ~Fork(c)
    BY <1>2 DEF WriteLog, WriteAnchor, Fork
  <2>3. \A q : SetOf(wrote, q)' = IF q = call[c].path THEN SetOf(wrote, q) \cup {call[c].on} ELSE SetOf(wrote, q)
    BY <1>1, <2>1
  <2> QED BY <2>2, <2>3
<1>3. CASE Fork(c)
  <2>1. PICK q : q = Append(call[c].path, call[c].cap)
    OBVIOUS
  <2>2. PICK x : x = Found(call[c].cap, Stored(File(q)))
    OBVIOUS
  <2>3. wrote' = Put(wrote, q, SetOf(wrote, q) \cup x)
    BY <1>3, <2>1, <2>2 DEF Fork
  <2>4. \A y : SetOf(wrote, y)' = IF y = q THEN SetOf(wrote, y) \cup x ELSE SetOf(wrote, y)
    BY <1>1, <2>3
  <2>5. x \subseteq {Idle} /\ (Stored(File(q)) \notin {<<>>, call[c].cap} => Idle \in x)
    BY <2>2 DEF Found
  <2>6. ~WriteLog(c) /\ ~WriteAnchor(c)
    BY <1>3 DEF WriteLog, WriteAnchor, Fork
  <2> QED BY <2>1, <2>4, <2>5, <2>6
<1>4. CASE wrote' = wrote /\ ~WriteLog(c) /\ ~WriteAnchor(c) /\ ~Fork(c)
  <2>1. \A q : SetOf(wrote, q)' = SetOf(wrote, q)
    BY <1>4 DEF SetOf
  <2> QED BY <1>4, <2>1
<1>5. ~WriteLog(c) /\ ~WriteAnchor(c) /\ ~Fork(c) => wrote' = wrote
  BY DEF SaveStep, SaveWrites, SaveIsUpToDate, SaveConflicts, Record, Retry, Adopt, Recover, ForceSave, WriteFails
<1> QED BY <1>2, <1>3, <1>4, <1>5

LEMMA SoloStays ==
  ASSUME SaveInv, NEW c \in Saves, SaveStep(c), NEW r, NEW q, Solo(r, q)'
  PROVE  Solo(r, q)
BY BytesMove DEF Solo

\* What a save makes of the edits of transcripts.
LEMMA EditsMove ==
  ASSUME SaveInv, NEW c \in Saves, SaveStep(c)
  PROVE  /\ \A d \in Saves, s \in Runtimes : EditOf(d, s)' => EditOf(d, s)
         /\ \A d \in Saves \ {c}, s \in Runtimes : EditOf(d, s) => EditOf(d, s)'
<1>1. /\ call'[c].pc = "done" \/ (call'[c].on = call[c].on /\ call'[c].op = call[c].op)
      /\ call[c].pc \notin {"new", "done"}
      /\ \A d \in Saves \ {c} : call'[d] = call[d]
  BY CallMoves, OthersStay, StepIsInside DEF Inside, Writing
<1> QED BY <1>1 DEF EditOf

LEMMA ActiveIs ==
  ASSUME NEW r
  PROVE  /\ Active(r, {"rewind"}) <=> \E c \in Saves : EditOf(c, r) /\ call[c].op = "rewind"
         /\ Active(r, {"rewind", "strip"}) <=> \E c \in Saves : EditOf(c, r)
BY DEF Active, EditOf

\* While a call saves, the rewinds of its runtime wait.
LEMMA RewindsStay ==
  ASSUME SaveInv, NEW c \in Saves, SaveStep(c), NEW s \in Runtimes
  PROVE  /\ Active(s, {"rewind"})' => Active(s, {"rewind"})
         /\ s # call[c].on \/ call[c].op # "rewind" \/ call'[c].pc # "done" =>
              (Active(s, {"rewind"}) => Active(s, {"rewind"})')
<1>1. /\ call'[c].pc = "done" \/ (call'[c].on = call[c].on /\ call'[c].op = call[c].op)
      /\ call[c].pc \notin {"new", "done"} /\ call'[c].pc # "new"
      /\ \A d \in Saves \ {c} : call'[d] = call[d]
  BY CallMoves, OthersStay, StepIsInside DEF Inside, Writing
<1> QED BY <1>1 DEF Active

\* Whoever edits goes on doing so until its save succeeded or the file is adopted.
LEMMA EditingStays ==
  ASSUME SaveInv, \A d \in Saves : PlaceOK(d), NEW c \in Saves, SaveStep(c), NEW s \in Runtimes,
         s # call[c].on \/ ~Ends(c), Edits(s)
  PROVE  Edits(s)'
<1>0. /\ call \in [Saves -> CallShape] /\ call[c].pc \in Inside /\ call[c].on \in Runtimes
      /\ \A d \in Saves \ {c} : call'[d] = call[d]
  BY StepIsInside, CallIsOne, OthersStay DEF SaveInv, Shapes
<1>1. mem'[s] = mem[s]
  BY <1>0, OthersStay, MemMoves DEF Ends
<1>2. NeedsRewrite(s) => NeedsRewrite(s)'
  BY <1>1 DEF NeedsRewrite
<1>3. RewriteFailed => RewriteFailed'
  <2>1. call[c].end = "none"
    BY <1>0 DEF SaveInv, CallsOK, CallOK, Inside, Writing
  <2> QED BY <1>0, <2>1 DEF RewriteFailed
<1>4. CASE s # call[c].on
  BY <1>2, <1>3, <1>4, WritersStay, RewindsStay DEF Edits
<1>5. CASE s = call[c].on /\ ~WriteFails(c)
  <2>1. call'[c].pc \in Inside /\ call'[c].on = s /\ call'[c].op = call[c].op
    BY <1>5, GoesOn
  <2>2. StripsOn(s) => StripsOn(s)'
    BY <1>0, <2>1 DEF StripsOn
  <2>3. call'[c].pc # "done"
    BY <2>1 DEF Inside, Writing
  <2> QED BY <1>2, <1>3, <1>5, <2>2, <2>3, RewindsStay DEF Edits
<1>6. CASE s = call[c].on /\ WriteFails(c)
  <2>1. Leave(c, "failed")
    BY <1>6 DEF WriteFails
  <2>2. call'[c].end = "failed" /\ call'[c].mode = call[c].mode
    BY <1>0, <2>1 DEF Leave, Ended, NewCall, CallShape
  <2>3. CASE call[c].mode = "rewrite"
    <3>1. RewriteFailed'
      BY <2>2, <2>3 DEF RewriteFailed
    <3> QED BY <3>1 DEF Edits
  <2>4. CASE call[c].mode = "snapshot"
    <3>1. call[c].op = "snapshot"
      BY <1>0, <2>4 DEF PlaceOK
    <3>2. StripsOn(s) => StripsOn(s)'
      BY <1>0, <3>1 DEF StripsOn
    <3> QED BY <1>2, <1>3, <1>6, <3>1, <3>2, RewindsStay DEF Edits
  <2> QED BY <1>0, <2>3, <2>4 DEF CallShape
<1> QED BY <1>4, <1>5, <1>6

\* How a call goes on.
Stays(c) == /\ call'[c].on = call[c].on /\ call'[c].op = call[c].op
            /\ call'[c].path = call[c].path /\ call'[c].mode = call[c].mode
Recaptures(c) == call'[c].cap = mem[call[c].on].msgs /\ call'[c].rw = mem[call[c].on].rw
LEMMA CallGoes ==
  ASSUME SaveInv, NEW c \in Saves, SaveStep(c), call'[c].pc # "done"
  PROVE  \/ /\ SaveWrites(c) /\ call[c].pc = "lock" /\ call'[c].pc \in Writing /\ Stays(c) /\ Recaptures(c)
            /\ call'[c].shape \in {"append", "compact", "heal", "replace"}
            /\ call'[c].shape = "heal" <=> call'[c].pc = "record"
         \/ /\ ForceSave(c) /\ call[c].pc = "force" /\ call'[c].pc = "log" /\ Stays(c) /\ Recaptures(c)
            /\ call'[c].shape = "force"
         \/ /\ WriteLog(c) \/ WriteAnchor(c)
            /\ call[c].pc \in {"log", "anchor"} /\ call'[c].pc \in {"anchor", "record"} /\ Stays(c)
            /\ call'[c].cap = call[c].cap /\ call'[c].rw = call[c].rw /\ call'[c].shape = call[c].shape
            /\ call'[c].was = call[c].was
         \/ SaveConflicts(c) /\ call[c].pc = "lock" /\ call'[c].pc = "conflict" /\ Stays(c)
         \/ /\ Retry(c) /\ call[c].pc = "conflict" /\ call'[c].pc = "lock" /\ call'[c].mode = "rewrite"
            /\ call'[c].path = call[c].path /\ call'[c].on = call[c].on /\ call'[c].op = call[c].op
         \/ /\ Recover(c) /\ call[c].pc = "conflict" /\ call'[c].pc \in {"adopt", "force", "fork"}
            /\ Stays(c) /\ Recaptures(c)
         \/ /\ Fork(c) /\ call[c].pc = "fork" /\ call'[c].pc \in {"log", "record"}
            /\ call'[c].on = call[c].on /\ call'[c].op = call[c].op /\ call'[c].mode = call[c].mode
            /\ call'[c].path = Append(call[c].path, call[c].cap)
            /\ call'[c].cap = call[c].cap /\ call'[c].rw = call[c].rw /\ call'[c].shape = "fork"
            /\ call'[c].was = Stored(File(Append(call[c].path, call[c].cap)))
            /\ call'[c].pc = "record" => Normalize(call'[c].was) = call[c].cap
            /\ Holder(locked, Append(call[c].path, call[c].cap)) = Idle
<1>0. call \in [Saves -> CallShape]
  BY DEF SaveInv, Shapes
<1>1. CASE SaveWrites(c)
  <2>1. PICK s \in {"append", "compact", "heal", "replace"} : Captures(c, call[c].path, s)
    BY <1>1 DEF SaveWrites
  <2>2. call[c].pc = "lock"
    BY <1>1 DEF SaveWrites, Locks
  <2> QED BY <1>0, <1>1, <2>1, <2>2 DEF Captures, CallShape, Stays, Recaptures, Writing
<1>2. CASE ForceSave(c)
  <2>1. Captures(c, call[c].path, "force") /\ call[c].pc = "force"
    BY <1>2 DEF ForceSave
  <2> QED BY <1>0, <1>2, <2>1 DEF Captures, CallShape, Stays, Recaptures
<1>3. CASE WriteLog(c) \/ WriteAnchor(c)
  <2>1. PICK to \in {"anchor", "record"} : MoveTo(c, to) /\ call[c].pc \in {"log", "anchor"}
    BY <1>3 DEF WriteLog, WriteAnchor
  <2> QED BY <1>0, <1>3, <2>1 DEF MoveTo, CallShape, Stays
<1>4. CASE SaveConflicts(c)
  BY <1>0, <1>4 DEF SaveConflicts, Locks, CallShape, Stays
<1>5. CASE Retry(c)
  BY <1>0, <1>5 DEF Retry, CallShape
<1>6. CASE Recover(c)
  BY <1>0, <1>6 DEF Recover, GivesUp, CallShape, Stays, Recaptures
<1>7. CASE Fork(c)
  BY <1>0, <1>7 DEF Fork, CallShape
<1>8. CASE SaveIsUpToDate(c) \/ Record(c) \/ Adopt(c) \/ WriteFails(c)
  <2>1. PICK how : Leave(c, how)
    BY <1>8 DEF SaveIsUpToDate, Record, Adopt, WriteFails
  <2>2. call'[c].pc = "done"
    BY <1>0, <2>1 DEF Leave, Ended, NewCall
  <2> QED BY <2>2
<1> QED BY <1>1, <1>2, <1>3, <1>4, <1>5, <1>6, <1>7, <1>8 DEF SaveStep

\* What memory is after the end of a save.
LEMMA MemoryEnds ==
  ASSUME SaveInv, NEW c \in Saves, SaveStep(c), NEW r \in Runtimes, r = call[c].on
  PROVE  /\ mem[r] \in MemShape
         /\ ~Ends(c) => mem'[r] = mem[r]
         /\ Adopt(c) => mem'[r] = Loaded(call[c].path)
         /\ SaveIsUpToDate(c) =>
              /\ mem'[r].base = Base(call[c].path, mem[r].msgs, File(call[c].path).rev)
              /\ Stored(File(call[c].path)) = mem[r].msgs
         /\ Record(c) =>
              /\ mem'[r].base = Base(call[c].path, call[c].cap, Recorded(c).rev)
              /\ mem'[r].saved = IF call[c].rw > mem[r].saved THEN call[c].rw ELSE mem[r].saved
         /\ SaveIsUpToDate(c) \/ Record(c) =>
              /\ mem'[r].msgs = mem[r].msgs /\ mem'[r].up /\ mem'[r].path = call[c].path /\ mem'[r].rw = mem[r].rw
<1>0. mem \in [Runtimes -> MemShape]
  BY DEF SaveInv, Shapes
<1>1. ~Ends(c) => mem'[r] = mem[r]
  BY MemMoves DEF Ends
<1>2. Adopt(c) => mem'[r] = Loaded(call[c].path)
  BY <1>0 DEF Adopt
<1>3. ASSUME NEW t, NEW n, NEW w, MarkPersisted(r, call[c].path, t, n, w)
      PROVE  /\ mem'[r].base = Base(call[c].path, t, n) /\ mem'[r].path = call[c].path
             /\ mem'[r].msgs = mem[r].msgs /\ mem'[r].up = mem[r].up /\ mem'[r].rw = mem[r].rw
             /\ mem'[r].saved = IF w > mem[r].saved THEN w ELSE mem[r].saved
  BY <1>0, <1>3 DEF MarkPersisted, MemShape
<1>4. mem[r].up
  BY StepIsInside, CallIsOne DEF SaveInv
<1>5. ASSUME SaveIsUpToDate(c)
      PROVE  /\ mem'[r].base = Base(call[c].path, mem[r].msgs, File(call[c].path).rev)
             /\ Stored(File(call[c].path)) = mem[r].msgs
             /\ mem'[r].msgs = mem[r].msgs /\ mem'[r].up /\ mem'[r].path = call[c].path /\ mem'[r].rw = mem[r].rw
  <2>1. /\ MarkPersisted(r, call[c].path, mem[r].msgs, File(call[c].path).rev, mem[r].rw)
        /\ UpToDate(call[c].path, mem[r].msgs)
    BY <1>5 DEF SaveIsUpToDate
  <2>2. Stored(File(call[c].path)) = mem[r].msgs
    BY <2>1, UpToDateIsStored
  <2>3. /\ mem'[r].base = Base(call[c].path, mem[r].msgs, File(call[c].path).rev)
        /\ mem'[r].msgs = mem[r].msgs /\ mem'[r].up = mem[r].up /\ mem'[r].path = call[c].path /\ mem'[r].rw = mem[r].rw
    BY <1>3, <2>1
  <2> QED BY <1>4, <2>2, <2>3
<1>6. ASSUME Record(c)
      PROVE  /\ mem'[r].base = Base(call[c].path, call[c].cap, Recorded(c).rev)
             /\ mem'[r].saved = IF call[c].rw > mem[r].saved THEN call[c].rw ELSE mem[r].saved
             /\ mem'[r].msgs = mem[r].msgs /\ mem'[r].up /\ mem'[r].path = call[c].path /\ mem'[r].rw = mem[r].rw
  <2>1. MarkPersisted(r, call[c].path, call[c].cap, Recorded(c).rev, call[c].rw)
    BY <1>6 DEF Record
  <2> QED BY <1>3, <1>4, <2>1
<1> QED BY <1>0, <1>1, <1>2, <1>5, <1>6

\* A save that ended, ended.
LEMMA EndIsDone ==
  ASSUME SaveInv, NEW c \in Saves, Ends(c) \/ WriteFails(c)
  PROVE  call'[c].pc = "done"
<1>0. call \in [Saves -> CallShape]
  BY DEF SaveInv, Shapes
<1>1. PICK how : Leave(c, how)
  BY DEF Ends, SaveIsUpToDate, Record, Adopt, WriteFails
<1> QED BY <1>0, <1>1 DEF Leave, Ended, NewCall

(***************************************************************************)
(* A save of a runtime that alone wrote its file is allowed.               *)
(***************************************************************************)
\* The revision of a baseline is all that an append must know.
LEMMA LineAllows ==
  ASSUME SaveInv, NEW r \in Runtimes, NEW p \in Path, mem[r].up, LineOK(r), mem[r].path = p, Solo(r, p), ~Edits(r)
  PROVE  MayAppend(r, p, mem[r].msgs)
<1> DEFINE next == mem[r].msgs  t == Stored(File(p))  b == mem[r].base.msgs  v == View(File(p), next)
<1>1. next \in Transcript /\ t \in Transcript /\ b \in Transcript
  BY FileIsOne DEF SaveInv, Shapes, MemShape, BaseShape
<1>2. /\ Normalize(t) \in Transcript /\ Len(Normalize(t)) \in Nat /\ Len(t) \in Nat /\ Len(b) \in Nat
      /\ Len(Normalize(t)) >= Len(t)
  BY <1>1, RepairIsLonger DEF Transcript
<1>3. IsPrefix(b, next) /\ (b = Normalize(t) \/ (IsPrefix(b, t) /\ IsPrefix(t, next)))
  BY DEF LineOK
<1>4. v = IF IsPrefix(Normalize(t), next) THEN Normalize(t) ELSE t
  BY DEF View
<1>5. IsPrefix(v, next) /\ Len(v) >= Len(b)
  <2>1. CASE b = Normalize(t)
    BY <1>2, <1>3, <1>4, <2>1
  <2>2. CASE IsPrefix(b, t) /\ IsPrefix(t, next)
    <3>1. Len(b) <= Len(t)
      BY <1>1, <2>2, PrefixIs
    <3> QED BY <1>2, <1>4, <2>2, <3>1
  <2> QED BY <1>3, <2>1, <2>2
<1>6. CoversBaseline(v, next, mem[r].base)
  BY <1>3, <1>5 DEF CoversBaseline
<1> QED BY <1>5, <1>6 DEF MayAppend, AppendShaped, Resurrects

LEMMA KnownAllows ==
  ASSUME NEW r \in Runtimes, NEW p, mem[r].up, LineOK(r), mem[r].path = p,
         mem[r].base.rev = File(p).rev, mem[r].base.msgs \in {Stored(File(p)), Normalize(Stored(File(p)))}
  PROVE  MayAppend(r, p, mem[r].msgs) \/ MayRewrite(r, p, mem[r].msgs, "rewrite")
<1>1. BaseFor(r, p)
  BY DEF LineOK, BaseFor
<1>2. ~Resurrects(r, p, mem[r].msgs)
  BY DEF Resurrects
<1>3. Owns(r, p)
  BY <1>1 DEF Owns
<1> QED BY <1>2, <1>3 DEF MayAppend, MayRewrite

LEMMA OwnFileAllows ==
  ASSUME SaveInv, SelfInv, NEW c \in Saves, call[c].pc = "lock", Solo(call[c].on, call[c].path),
         \/ call[c].mode = "snapshot" /\ ~Edits(call[c].on)
         \/ call[c].mode = "rewrite" /\ faults = 0
  PROVE  Allowed(c)
<1>1. PICK r \in Runtimes, p \in Path : r = call[c].on /\ p = call[c].path
  BY CallIsOne DEF SaveInv, Inside
<1>2. mem[r].up /\ mem[r].path = p /\ LineOK(r) /\ call[c].pc \in Inside
  BY <1>1, CallIsOne DEF SaveInv, SelfInv, PlaceOK, Inside
<1>3. CASE call[c].mode = "snapshot" /\ ~Edits(call[c].on)
  BY <1>1, <1>2, <1>3, LineAllows DEF Allowed
<1>4. CASE call[c].mode = "rewrite" /\ faults = 0
  <2>1. KnownOK(r)
    BY <1>4 DEF SelfInv, CalmOK
  <2>2. ~WritesTo(r, p)
    <3> SUFFICES ASSUME NEW d \in Saves, call[d].on = r, call[d].pc \in Writing
                 PROVE  FALSE
      BY DEF WritesTo
    <3>1. d # c /\ call[d].pc \in Inside
      BY DEF Writing, Inside
    <3> QED BY <1>1, <1>2, <3>1, OneInside
  <2>3. mem[r].base.rev = File(p).rev /\ mem[r].base.msgs \in {Stored(File(p)), Normalize(Stored(File(p)))}
    BY <1>1, <1>2, <2>1, <2>2 DEF KnownOK
  <2> QED BY <1>1, <1>2, <1>4, <2>3, KnownAllows DEF Allowed
<1> QED BY <1>3, <1>4

(***************************************************************************)
(* The steps of a save.                                                    *)
(***************************************************************************)
\* Other runtimes' calls find things as they were.
LEMMA OthersRemain ==
  ASSUME SaveInv, SelfInv, NEW c \in Saves, SaveStep(c), NEW d \in Saves, d # c
  PROVE  PlaceOK(d)' /\ CaptureOK(d)' /\ NextOK(d)' /\ FightOK(d)'
<1>1. call'[d] = call[d] /\ (faults' = 0 => faults = 0)
  <2>1. faults \in Nat
    BY DEF SaveInv, Shapes
  <2>2. faults' = 0 => faults = 0
    BY <2>1 DEF SaveStep, SaveWrites, SaveIsUpToDate, SaveConflicts, WriteLog, WriteAnchor, Record,
                Retry, Adopt, Recover, ForceSave, Fork, WriteFails, Fault
  <2> QED BY <2>2, OthersStay
<1>2. PlaceOK(d) /\ CaptureOK(d) /\ NextOK(d) /\ FightOK(d) /\ \A e \in Saves : PlaceOK(e)
  BY DEF SelfInv
<1>3. CASE call[d].pc \notin Inside
  BY <1>1, <1>3 DEF PlaceOK, CaptureOK, NextOK, FightOK, Inside, Asking
<1>4. CASE call[d].pc \in Inside
  <2>1. PICK s \in Runtimes : s = call[d].on /\ s # call[c].on
    BY <1>4, OneInside, StepIsInside, CallIsOne DEF SaveInv
  <2>2. mem'[s] = mem[s]
    BY <2>1, OthersStay
  <2>3. Edits(s) => Edits(s)'
    BY <1>2, <2>1, EditingStays
  <2>4. \A q : Solo(s, q)' => Solo(s, q)
    BY SoloStays
  <2>5. Active(s, {"rewind"})' <=> Active(s, {"rewind"})
    BY <2>1, RewindsStay
  <2>6. PlaceOK(d)'
    BY <1>1, <1>2, <2>1, <2>2 DEF PlaceOK, NeedsRewrite
  <2>7. CaptureOK(d)'
    BY <1>1, <1>2, <2>1, <2>2, <2>5 DEF CaptureOK
  <2>8. NextOK(d)'
    BY <1>1, <1>2, <2>1, <2>2, <2>3, <2>4 DEF NextOK
  <2>9. FightOK(d)'
    BY <1>1, <1>2, <2>1, <2>3, <2>4 DEF FightOK
  <2> QED BY <2>6, <2>7, <2>8, <2>9
<1> QED BY <1>3, <1>4

\* A call that has ended says nothing more.
LEMMA DoneIsSilent ==
  ASSUME NEW c \in Saves, call'[c].pc \in {"new", "enter", "done"}
  PROVE  PlaceOK(c)' /\ CaptureOK(c)' /\ NextOK(c)' /\ FightOK(c)' /\ WriterOK(c)' /\ LedgerOK(c)'
BY DEF PlaceOK, CaptureOK, NextOK, FightOK, WriterOK, LedgerOK, Inside, Asking, Writing

\* The call that saves.
LEMMA CallerRemains ==
  ASSUME SaveInv, SelfInv, NEW c \in Saves, SaveStep(c)
  PROVE  PlaceOK(c)' /\ CaptureOK(c)' /\ NextOK(c)' /\ FightOK(c)'
<1>1. CASE call'[c].pc = "done"
  BY <1>1, DoneIsSilent
<1>2. CASE call'[c].pc # "done"
  <2>0. PICK r \in Runtimes, p \in Path : r = call[c].on /\ p = call[c].path
    BY StepIsInside, CallIsOne DEF SaveInv
  <2>1. /\ call[c].pc \in Inside /\ mem[r] \in MemShape /\ call[c].cap \in Transcript /\ mem[r].msgs \in Transcript
        /\ mem[r].saved <= mem[r].rw /\ call'[c].on = r /\ call'[c].op = call[c].op
    BY <2>0, <1>2, StepIsInside, CallIsOne, CallMoves DEF SaveInv, RuntimesOK
  <2>2. ~Ends(c) /\ ~WriteFails(c)
    BY <1>2, EndIsDone
  <2>3. mem'[r] = mem[r]
    BY <2>0, <2>2, MemoryEnds
  <2>4. /\ PlaceOK(c) /\ CaptureOK(c) /\ NextOK(c) /\ FightOK(c) /\ LineOK(r)
        /\ \A d \in Saves : PlaceOK(d)
    BY DEF SelfInv
  <2>5. /\ Edits(r) => Edits(r)'
        /\ \A q : Solo(r, q)' => Solo(r, q)
        /\ Active(r, {"rewind"})' <=> Active(r, {"rewind"})
    BY <2>0, <2>2, <2>4, <1>2, EditingStays, SoloStays, RewindsStay
  <2>6. faults' = faults
    BY <2>2 DEF SaveStep, SaveWrites, SaveIsUpToDate, SaveConflicts, WriteLog, WriteAnchor, Record,
                Retry, Adopt, Recover, ForceSave, Fork
  <2>7. IsPrefix(mem[r].msgs, mem[r].msgs)
    BY <2>1, PrefixItself
  <2>8. /\ call[c].mode = "snapshot" => call[c].op = "snapshot"
        /\ call[c].mode = "rewrite" /\ call[c].op = "snapshot" => NeedsRewrite(r)
        /\ NeedsRewrite(r)' <=> NeedsRewrite(r)
    BY <2>0, <2>1, <2>3, <2>4 DEF PlaceOK, NeedsRewrite
  <2>9. CASE /\ SaveWrites(c) /\ call[c].pc = "lock" /\ call'[c].pc \in Writing /\ Stays(c) /\ Recaptures(c)
             /\ call'[c].shape \in {"append", "compact", "heal", "replace"}
    <3>1. PlaceOK(c)'
      BY <2>0, <2>1, <2>3, <2>4, <2>8, <2>9 DEF PlaceOK, Stays, Recaptures, Writing
    <3>2. CaptureOK(c)'
      BY <2>0, <2>3, <2>7, <2>9 DEF CaptureOK, Stays, Recaptures
    <3>3. NextOK(c)'
      <4>1. mem[r].path = p /\ mem[r].up
        BY <2>0, <2>1, <2>4, <2>9, CallIsOne DEF PlaceOK, SaveInv
      <4>2. Solo(r, p)' /\ ~Edits(r)' => IsPrefix(mem[r].base.msgs, mem[r].msgs)
        BY <2>4, <2>5, <4>1 DEF LineOK
      <4>3. call'[c].on = r /\ call'[c].path = p /\ call'[c].cap = mem[r].msgs
        BY <2>0, <2>9 DEF Stays, Recaptures
      <4> QED BY <2>3, <4>2, <4>3 DEF NextOK
    <3>4. FightOK(c)'
      BY <2>9 DEF FightOK, Asking, Writing
    <3> QED BY <3>1, <3>2, <3>3, <3>4
  <2>10. CASE /\ ForceSave(c) /\ call[c].pc = "force" /\ call'[c].pc = "log" /\ Stays(c) /\ Recaptures(c)
              /\ call'[c].shape = "force"
    <3>1. PlaceOK(c)'
      BY <2>0, <2>1, <2>3, <2>4, <2>8, <2>10 DEF PlaceOK, Stays, Recaptures, Writing, Asking
    <3>2. CaptureOK(c)'
      BY <2>0, <2>3, <2>7, <2>10 DEF CaptureOK, Stays, Recaptures
    <3>3. NextOK(c)'
      BY <2>10 DEF NextOK
    <3>4. FightOK(c)'
      BY <2>0, <2>4, <2>5, <2>10 DEF FightOK, Stays, Asking
    <3> QED BY <3>1, <3>2, <3>3, <3>4
  <2>11. CASE /\ call[c].pc \in {"log", "anchor"} /\ call'[c].pc \in {"anchor", "record"} /\ Stays(c)
              /\ call'[c].cap = call[c].cap /\ call'[c].rw = call[c].rw /\ call'[c].shape = call[c].shape
    <3>1. PlaceOK(c)'
      BY <2>0, <2>1, <2>3, <2>4, <2>8, <2>11 DEF PlaceOK, Stays, Writing, Asking
    <3>2. CaptureOK(c)'
      BY <2>0, <2>3, <2>4, <2>5, <2>11 DEF CaptureOK, Stays, Writing
    <3>3. NextOK(c)'
      BY <2>0, <2>3, <2>4, <2>5, <2>11 DEF NextOK, Stays, Writing
    <3>4. FightOK(c)'
      BY <2>0, <2>4, <2>5, <2>11 DEF FightOK, Stays, Asking, Writing
    <3> QED BY <3>1, <3>2, <3>3, <3>4
  <2>12. CASE SaveConflicts(c) /\ call[c].pc = "lock" /\ call'[c].pc = "conflict" /\ Stays(c)
    <3>1. PlaceOK(c)'
      BY <2>0, <2>1, <2>3, <2>4, <2>8, <2>12 DEF PlaceOK, Stays, Writing, Asking
    <3>2. CaptureOK(c)' /\ NextOK(c)'
      BY <2>12 DEF CaptureOK, NextOK, Writing
    <3>3. ~Allowed(c)
      BY <2>12 DEF SaveConflicts
    <3>4. FightOK(c)'
      BY <2>0, <2>5, <2>6, <2>12, <3>3, OwnFileAllows DEF FightOK, Stays, Asking, Writing
    <3> QED BY <3>1, <3>2, <3>4
  <2>13. CASE /\ Retry(c) /\ call'[c].pc = "lock" /\ call'[c].mode = "rewrite" /\ call'[c].path = call[c].path
              /\ call[c].pc = "conflict"
    <3>1. NeedsRewrite(r)
      BY <2>0, <2>13 DEF Retry
    <3>2. PlaceOK(c)'
      BY <2>0, <2>1, <2>3, <2>4, <2>8, <2>13, <3>1 DEF PlaceOK, Writing, Asking
    <3>3. CaptureOK(c)' /\ NextOK(c)' /\ FightOK(c)'
      BY <2>13 DEF CaptureOK, NextOK, FightOK, Writing, Asking
    <3> QED BY <3>2, <3>3
  <2>14. CASE /\ Recover(c) /\ call[c].pc = "conflict" /\ call'[c].pc \in {"adopt", "force", "fork"}
              /\ Stays(c) /\ Recaptures(c)
    <3>1. PlaceOK(c)'
      BY <2>0, <2>1, <2>3, <2>4, <2>8, <2>14 DEF PlaceOK, Stays, Recaptures, Writing, Asking
    <3>2. CaptureOK(c)'
      BY <2>0, <2>3, <2>7, <2>14 DEF CaptureOK, Stays, Recaptures
    <3>3. NextOK(c)'
      BY <2>14 DEF NextOK, Writing
    <3>4. FightOK(c)'
      BY <2>0, <2>4, <2>5, <2>14 DEF FightOK, Stays, Asking, Writing
    <3> QED BY <3>1, <3>2, <3>3, <3>4
  <2>15. CASE /\ call[c].pc = "fork" /\ call'[c].pc \in {"log", "record"} /\ call'[c].mode = call[c].mode
              /\ call'[c].path = Append(call[c].path, call[c].cap)
              /\ call'[c].cap = call[c].cap /\ call'[c].rw = call[c].rw /\ call'[c].shape = "fork"
    <3>1. call'[c].path # mem[r].path
      <4>1. mem[r].path = p
        BY <2>0, <2>4, <2>15 DEF PlaceOK, Asking
      <4>2. Append(p, call[c].cap) # p
        <5>1. Len(Append(p, call[c].cap)) = Len(p) + 1 /\ Len(p) \in Nat
          BY <2>1 DEF Path
        <5> QED BY <5>1
      <4> QED BY <2>0, <2>15, <4>1, <4>2
    <3>2. PlaceOK(c)'
      BY <2>0, <2>1, <2>3, <2>4, <2>8, <2>15, <3>1 DEF PlaceOK, Writing, Asking
    <3>3. CaptureOK(c)'
      BY <2>0, <2>1, <2>3, <2>4, <2>5, <2>15 DEF CaptureOK, Writing
    <3>4. NextOK(c)' /\ FightOK(c)'
      BY <2>15 DEF NextOK, FightOK, Asking, Writing
    <3> QED BY <3>2, <3>3, <3>4
  <2> QED BY <1>2, <2>9, <2>10, <2>11, <2>12, <2>13, <2>14, <2>15, CallGoes
<1> QED BY <1>1, <1>2

\* How a runtime's line is kept, in terms of what is in memory and in the file then.
LEMMA LineIs ==
  ASSUME NEW s \in Runtimes, NEW p, NEW b, NEW n, NEW t,
         mem'[s].path = p, mem'[s].base = b, mem'[s].msgs = n, Stored(File(p))' = t,
         mem'[s].up => b.ok /\ b.path = p,
         mem'[s].up /\ Solo(s, p)' /\ ~Edits(s)' =>
           IsPrefix(b.msgs, n) /\ (b.msgs = Normalize(t) \/ (IsPrefix(b.msgs, t) /\ IsPrefix(t, n)))
  PROVE  LineOK(s)'
BY DEF LineOK, File, Stored, Solo, SetOf

\* A call that saves no edit of a runtime saves no edit.
LEMMA SavesNoEdit ==
  ASSUME SaveInv, SelfInv, NEW c \in Saves, call[c].pc \in Inside, NEW r \in Runtimes, r = call[c].on, ~Edits(r)
  PROVE  /\ call[c].mode = "snapshot" /\ call[c].op = "snapshot" /\ mem[r].rw <= mem[r].saved
         /\ ~Active(r, {"rewind"})
<1>1. PlaceOK(c) /\ call[c] \in CallShape /\ mem[r] \in MemShape
  BY DEF SelfInv, SaveInv, Shapes
<1>2. ~NeedsRewrite(r) /\ ~Active(r, {"rewind"}) /\ ~StripsOn(r)
  BY DEF Edits
<1>3. call[c].pc \notin {"new", "done"}
  BY DEF Inside, Writing
<1>4. call[c].op = "snapshot"
  BY <1>1, <1>2, <1>3 DEF Active, StripsOn, CallShape
<1>5. call[c].mode = "snapshot"
  BY <1>1, <1>2, <1>4 DEF PlaceOK, CallShape
<1>6. mem[r].rw <= mem[r].saved
  BY <1>1, <1>2 DEF NeedsRewrite, MemShape
<1> QED BY <1>2, <1>4, <1>5, <1>6

\* The lines of the runtimes.
LEMMA SavingKeepsLines ==
  ASSUME SaveInv, SelfInv, NEW c \in Saves, SaveStep(c), Shapes', NEW s \in Runtimes
  PROVE  LineOK(s)'
<1>0. /\ call[c].pc \in Inside /\ call[c] \in CallShape /\ call[c].on \in Runtimes /\ call[c].path \in Path
      /\ mem[call[c].on].up
  BY StepIsInside, CallIsOne DEF SaveInv
<1>1. /\ \A r \in Runtimes : LineOK(r)
      /\ \A d \in Saves : PlaceOK(d) /\ CaptureOK(d) /\ NextOK(d) /\ FightOK(d) /\ WriterOK(d)
  BY DEF SelfInv
<1>2. mem[s] \in MemShape /\ mem[s].path \in Path /\ mem[s].msgs \in Transcript
  BY DEF SaveInv, Shapes, MemShape
<1>3. PICK q, b, n, t : q \in Path /\ q = mem[s].path /\ b = mem[s].base /\ n = mem[s].msgs /\ t = Stored(File(q))
  BY <1>2
<1>4. mem[s].up => /\ b.ok /\ b.path = q
                   /\ Solo(s, q) /\ ~Edits(s) =>
                        IsPrefix(b.msgs, n) /\ (b.msgs = Normalize(t) \/ (IsPrefix(b.msgs, t) /\ IsPrefix(t, n)))
  BY <1>1, <1>3 DEF LineOK
<1>5. PICK u : u = Stored(File(q))'
  OBVIOUS
<1>6. u \in {t, call[c].cap} /\ (u # t => (WriteLog(c) \/ WriteAnchor(c)) /\ q = call[c].path)
  <2>1. q # call[c].path => Stored(File(q))' = Stored(File(q))
    BY FileMoves DEF Stored
  <2> QED BY <1>3, <1>5, <2>1, FileMoves
<1>7. CASE s # call[c].on
  <2>1. mem'[s] = mem[s] /\ (Edits(s) => Edits(s)') /\ (Solo(s, q)' => Solo(s, q))
    BY <1>0, <1>1, <1>7, OthersStay, EditingStays, SoloStays
  <2>2. Solo(s, q)' => u = t
    BY <1>0, <1>6, <1>7, BytesMove DEF Solo
  <2> QED BY <1>3, <1>4, <1>5, <2>1, <2>2, LineIs
<1>8. CASE s = call[c].on /\ ~Ends(c)
  <2>1. mem'[s] = mem[s] /\ (Edits(s) => Edits(s)') /\ (Solo(s, q)' => Solo(s, q))
    BY <1>1, <1>8, MemoryEnds, EditingStays, SoloStays
  <2>2. ASSUME Solo(s, q)', ~Edits(s)', u # t
        PROVE  IsPrefix(b.msgs, u) /\ IsPrefix(u, n)
    <3>1. Solo(s, q) /\ ~Edits(s) /\ q = call[c].path /\ u = call[c].cap
      BY <1>6, <2>1, <2>2
    <3>2. /\ call[c].mode = "snapshot" /\ call[c].op = "snapshot" /\ mem[s].rw <= mem[s].saved
          /\ ~Active(s, {"rewind"})
      BY <1>0, <1>8, <3>1, SavesNoEdit
    <3>3. call[c].pc \in Writing
      BY <1>6, <2>2 DEF WriteLog, WriteAnchor, Writing
    <3>4. call[c].shape # "fork" /\ call[c].shape # "force"
      BY <1>1, <1>3, <1>8, <3>1, <3>2, <3>3 DEF PlaceOK, FightOK
    <3>5. IsPrefix(b.msgs, call[c].cap)
      BY <1>1, <1>3, <1>8, <3>1, <3>2, <3>3, <3>4 DEF NextOK
    <3>6. call[c].rw = mem[s].rw
      <4>1. mem[s].saved <= call[c].rw /\ call[c].rw <= mem[s].rw
        BY <1>1, <1>8, <3>3 DEF PlaceOK, SaveInv, CallsOK, CallOK
      <4> QED BY <1>0, <1>2, <3>2, <4>1 DEF MemShape, CallShape
    <3>7. IsPrefix(call[c].cap, n)
      BY <1>1, <1>3, <1>8, <3>2, <3>3, <3>6 DEF CaptureOK
    <3> QED BY <3>1, <3>5, <3>7
  <2> QED BY <1>3, <1>4, <1>5, <2>1, <2>2, LineIs
<1>9. CASE s = call[c].on /\ Adopt(c)
  <2>1. PICK p, v : p \in Path /\ p = call[c].path /\ v = Stored(File(p)) /\ v \in Transcript
    BY <1>0, FileIsOne DEF SaveInv
  <2>2. mem'[s] = Loaded(p)
    BY <1>9, <2>1, MemoryEnds
  <2>3. disk' = disk
    BY <1>9 DEF Adopt
  <2>4. Stored(File(p))' = v
    BY <2>1, <2>3 DEF Stored, File
  <2>5. /\ mem'[s].path = p /\ mem'[s].msgs = Normalize(v) /\ mem'[s].base = Base(p, Normalize(v), File(p).rev)
    BY <2>1, <2>2 DEF Loaded
  <2>6. /\ Base(p, Normalize(v), File(p).rev).ok /\ Base(p, Normalize(v), File(p).rev).path = p
        /\ Base(p, Normalize(v), File(p).rev).msgs = Normalize(v)
    BY DEF Base
  <2>7. IsPrefix(Normalize(v), Normalize(v))
    BY <2>1, NormalizeKeeps, PrefixItself
  <2> QED BY <2>4, <2>5, <2>6, <2>7, LineIs
<1>10. CASE s = call[c].on /\ SaveIsUpToDate(c)
  <2>1. PICK p \in Path, v \in Nat : p = call[c].path /\ v = File(p).rev
    BY <1>0, FileIsOne DEF SaveInv, FileShape
  <2>2. mem'[s].path = p /\ mem'[s].msgs = n /\ mem'[s].base = Base(p, n, v) /\ Stored(File(p)) = n
    BY <1>3, <1>10, <2>1, MemoryEnds
  <2>3. Stored(File(p))' = n
    BY <1>10, <2>2, FileMoves, StepsDiffer DEF SaveIsUpToDate, Locks, WriteLog, WriteAnchor
  <2>4. Base(p, n, v).ok /\ Base(p, n, v).path = p /\ Base(p, n, v).msgs = n
    BY DEF Base
  <2>5. IsPrefix(n, n)
    BY <1>2, <1>3, PrefixItself
  <2> QED BY <2>2, <2>3, <2>4, <2>5, LineIs
<1>11. CASE s = call[c].on /\ Record(c)
  <2>1. PICK p, k, v : p \in Path /\ k \in Transcript /\ p = call[c].path /\ k = call[c].cap /\ v = Recorded(c).rev
    BY <1>0 DEF CallShape
  <2>2. /\ mem'[s].path = p /\ mem'[s].msgs = n /\ mem'[s].base = Base(p, k, v)
        /\ mem'[s].rw = mem[s].rw /\ mem'[s].saved = IF call[c].rw > mem[s].saved THEN call[c].rw ELSE mem[s].saved
    BY <1>3, <1>11, <2>1, MemoryEnds
  <2>3. Base(p, k, v).ok /\ Base(p, k, v).path = p /\ Base(p, k, v).msgs = k
    BY DEF Base
  <2>4. Stored(File(p))' = Stored(File(p)) /\ call[c].pc = "record"
    BY <1>11, FileMoves, StepsDiffer DEF Record
  <2>5. ASSUME Solo(s, p)', ~Edits(s)'
        PROVE  Stored(File(p)) = k /\ IsPrefix(k, n)
    <3>1. Solo(s, p)
      BY <2>5, SoloStays
    <3>2. ~Refork(c)
      <4>1. Refork(c) => Idle \in SetOf(wrote, p)
        BY <1>1, <2>1, <2>4 DEF WriterOK, Refork, Writing
      <4> QED BY <3>1, <4>1 DEF Solo
    <3>3. Stored(File(p)) = k
      BY <2>1, <2>4, <3>2 DEF SaveInv, WritesOK, WriteOK
    <3>4. ~NeedsRewrite(s)' /\ ~Active(s, {"rewind"})'
      BY <2>5 DEF Edits
    <3>5. call[c].rw = mem[s].rw
      <4>1. mem[s].saved <= call[c].rw /\ call[c].rw <= mem[s].rw
        BY <1>1, <1>11, <2>4 DEF PlaceOK, SaveInv, CallsOK, CallOK, Writing
      <4>2. ~(mem'[s].rw > mem'[s].saved)
        BY <3>4 DEF NeedsRewrite
      <4> QED BY <1>0, <1>2, <2>2, <4>1, <4>2 DEF MemShape, CallShape
    <3>6. call[c].op # "snapshot" \/ ~Active(s, {"rewind"})
      BY <3>4, RewindsStay
    <3>7. IsPrefix(k, n)
      BY <1>1, <1>3, <1>11, <2>1, <2>4, <3>5, <3>6 DEF CaptureOK, Writing
    <3> QED BY <3>3, <3>7
  <2>6. IsPrefix(k, k)
    BY <2>1, PrefixItself
  <2> QED BY <2>2, <2>3, <2>4, <2>5, <2>6, LineIs
<1> QED BY <1>7, <1>8, <1>9, <1>10, <1>11 DEF Ends

\* One edit of a transcript at a time, and who holds the locks of a path writes it.
LEMMA SavingKeepsEdits ==
  ASSUME SaveInv, SelfInv, NEW c \in Saves, SaveStep(c)
  PROVE  EditsOK'
BY EditsMove DEF SelfInv, EditsOK

LEMMA SavingKeepsLocks ==
  ASSUME SaveInv, SelfInv, NEW c \in Saves, SaveStep(c)
  PROVE  LocksOK'
<1>0. /\ call \in [Saves -> CallShape] /\ call[c].pc \in Inside /\ call[c].path \in Path /\ c # Idle
      /\ \A d \in Saves \ {c} : call'[d] = call[d]
  BY StepIsInside, CallIsOne, OthersStay DEF SaveInv, Shapes
<1>1. \A q \in Path : \A d \in Saves : Holder(locked, q) = d => call[d].pc \in Writing /\ call[d].path = q
  BY DEF SelfInv, LocksOK
<1>2. ASSUME NEW p \in Path, locked' = Put(locked, p, c), call'[c].pc \in Writing, call'[c].path = p,
             call[c].pc \notin Writing
      PROVE  LocksOK'
  <2>1. \A q : Holder(locked, q)' = IF q = p THEN c ELSE Holder(locked, q)
    BY <1>2 DEF Put, Holder
  <2>2. ASSUME NEW q \in Path, NEW d \in Saves, Holder(locked, q)' = d
        PROVE  call'[d].pc \in Writing /\ call'[d].path = q
    <3>1. CASE q = p
      BY <1>2, <2>1, <2>2, <3>1
    <3>2. CASE q # p
      <4>1. Holder(locked, q) = d
        BY <2>1, <2>2, <3>2
      <4>2. d # c
        BY <1>1, <1>2, <4>1
      <4> QED BY <1>0, <1>1, <4>1, <4>2
    <3> QED BY <3>1, <3>2
  <2> QED BY <2>2 DEF LocksOK
<1>3. CASE Record(c) \/ WriteFails(c)
  <2>1. locked' = [p \in DOMAIN locked |-> IF locked[p] = c THEN Idle ELSE locked[p]]
    BY <1>3 DEF Record, WriteFails, ReleaseLocks
  <2>2. \A q : Holder(locked, q)' = IF Holder(locked, q) = c THEN Idle ELSE Holder(locked, q)
    BY <2>1 DEF Holder
  <2> QED BY <1>0, <1>1, <2>2 DEF LocksOK
<1>4. CASE WriteLog(c) \/ WriteAnchor(c)
  <2>1. locked' = locked
    BY <1>4 DEF WriteLog, WriteAnchor
  <2>2. \A q : Holder(locked, q)' = Holder(locked, q)
    BY <2>1 DEF Holder
  <2>3. PICK to \in {"anchor", "record"} : MoveTo(c, to)
    BY <1>4 DEF WriteLog, WriteAnchor
  <2>4. call'[c].pc \in Writing /\ call'[c].path = call[c].path
    BY <1>0, <2>3 DEF MoveTo, CallShape, Writing
  <2> QED BY <1>0, <1>1, <2>2, <2>4 DEF LocksOK
<1>5. CASE SaveIsUpToDate(c) \/ SaveConflicts(c) \/ Retry(c) \/ Adopt(c) \/ Recover(c)
  <2>1. locked' = locked /\ call[c].pc \notin Writing
    BY <1>5 DEF SaveIsUpToDate, SaveConflicts, Retry, Adopt, Recover, GivesUp, Locks, Writing
  <2>2. \A q : Holder(locked, q)' = Holder(locked, q)
    BY <2>1 DEF Holder
  <2> QED BY <1>0, <1>1, <2>1, <2>2 DEF LocksOK
<1>6. CASE SaveWrites(c)
  <2>1. PICK s \in {"append", "compact", "heal", "replace"} : Captures(c, call[c].path, s)
    BY <1>6 DEF SaveWrites
  <2>2. call[c].pc = "lock"
    BY <1>6 DEF SaveWrites, Locks
  <2> QED BY <1>0, <1>2, <2>1, <2>2 DEF Captures, CallShape, Writing
<1>7. CASE ForceSave(c)
  <2>1. Captures(c, call[c].path, "force") /\ call[c].pc = "force"
    BY <1>7 DEF ForceSave
  <2> QED BY <1>0, <1>2, <2>1 DEF Captures, CallShape, Writing
<1>8. CASE Fork(c)
  <2>1. PICK q \in Path : q = Append(call[c].path, call[c].cap)
    BY <1>0, PathGrows DEF CallShape
  <2> QED BY <1>0, <1>2, <1>8, <2>1 DEF Fork, CallShape, Writing
<1> QED BY <1>3, <1>4, <1>5, <1>6, <1>7, <1>8 DEF SaveStep

\* What is in a file has a revision only once it is there, and somebody wrote a branch.
LEMMA SavingKeepsBytes ==
  ASSUME SaveInv, SelfInv, NEW c \in Saves, SaveStep(c), Shapes'
  PROVE  BytesOK'
<1>1. /\ \A p \in Path : Stored(File(p)) = <<>> => File(p).rev = 0
      /\ \A p \in Path : p # <<>> /\ Stored(File(p)) # <<>> => SetOf(wrote, p) # {}
  BY DEF SelfInv, BytesOK
<1>2. \A q : Stored(File(q))' # Stored(File(q)) =>
        (WriteLog(c) \/ WriteAnchor(c)) /\ q = call[c].path /\ Stored(File(q))' = call[c].cap
  <2>1. \A q : q # call[c].path => Stored(File(q))' = Stored(File(q))
    BY FileMoves DEF Stored
  <2> QED BY <2>1, FileMoves
<1>3. WriteLog(c) \/ WriteAnchor(c) => call[c].cap # <<>>
  BY DEF WriteLog, WriteAnchor, SaveInv, CallsOK, CallOK, Writing
<1>4. ASSUME NEW p \in Path, Stored(File(p))' = <<>>
      PROVE  (File(p).rev)' = 0
  <2>1. Stored(File(p)) = <<>>
    BY <1>2, <1>3, <1>4
  <2>2. Record(c) => p # call[c].path
    BY <2>1, RecordFinds DEF Record, Exists
  <2>3. (File(p).rev)' = File(p).rev
    BY <2>2, FileMoves
  <2> QED BY <1>1, <2>1, <2>3
<1>5. ASSUME NEW p \in Path, p # <<>>, Stored(File(p))' # <<>>
      PROVE  SetOf(wrote, p)' # {}
  <2>1. CASE Stored(File(p)) # <<>>
    BY <1>1, <1>5, <2>1, BytesMove
  <2>2. CASE Stored(File(p)) = <<>>
    BY <1>2, <1>5, <2>2, BytesMove
  <2> QED BY <2>1, <2>2
<1> QED BY <1>4, <1>5 DEF BytesOK

\* Whose bytes a call that writes leaves.
LEMMA SavingKeepsWriters ==
  ASSUME SaveInv, SelfInv, NEW c \in Saves, SaveStep(c), Shapes', NEW d \in Saves
  PROVE  WriterOK(d)'
<1>0. WriterOK(d) /\ WriterOK(c) /\ BytesOK /\ call \in [Saves -> CallShape]
  BY DEF SelfInv, SaveInv, Shapes
<1>1. CASE call[d].pc \in Writing /\ call'[d].pc \in Writing /\ call'[d].path = call[d].path /\ call'[d].on = call[d].on
           /\ call'[d].shape = call[d].shape /\ call'[d].was = call[d].was /\ call'[d].cap = call[d].cap
           /\ (call'[d].pc = call[d].pc \/ call[d].on \in SetOf(wrote, call[d].path)') /\ (d = c => ~Record(c))
  <2>1. PICK p \in Path : p = call[d].path
    BY <1>0 DEF CallShape
  <2>2. (File(p).rev)' = File(p).rev
    <3>1. CASE d = c
      BY <1>1, <3>1, FileMoves
    <3>2. CASE d # c
      <4>1. File(p)' = File(p)
        BY <1>1, <2>1, <3>2, DiskKeeps
      <4> QED BY <4>1
    <3> QED BY <3>1, <3>2
  <2>3. SetOf(wrote, p) \subseteq SetOf(wrote, p)'
    BY BytesMove
  <2>4. /\ call[d].pc \in {"anchor", "record"} => \/ call[d].on \in SetOf(wrote, p) \/ call[d].shape = "heal"
                                                  \/ call[d].shape = "fork" /\ call[d].was # <<>>
        /\ call[d].shape = "fork" =>
             /\ call[d].was \notin {<<>>, call[d].cap} => Idle \in SetOf(wrote, p)
             /\ call[d].was = <<>> => File(p).rev = 0
    BY <1>0, <1>1, <2>1 DEF WriterOK
  <2>5. call'[d].pc = call[d].pc \/ call[d].on \in SetOf(wrote, p)'
    <3>1. call[d].on \in SetOf(wrote, call[d].path)' => call[d].on \in SetOf(wrote, p)'
      BY <1>1, <2>1 DEF SetOf
    <3> QED BY <1>1, <3>1
  <2> QED BY <1>1, <2>1, <2>2, <2>3, <2>4, <2>5 DEF WriterOK, SetOf, File
<1>2. CASE d # c
  <2>1. call'[d] = call[d]
    BY <1>2, OthersStay
  <2>2. CASE call[d].pc \in Writing
    BY <1>1, <1>2, <2>1, <2>2
  <2>3. CASE call[d].pc \notin Writing
    BY <2>1, <2>3 DEF WriterOK, Writing
  <2> QED BY <2>2, <2>3
<1>3. CASE d = c /\ call'[c].pc \notin Writing
  BY <1>3 DEF WriterOK, Writing
<1>4. CASE d = c /\ (WriteLog(c) \/ WriteAnchor(c)) /\ call'[c].pc \in Writing
  <2>1. PICK to \in {"anchor", "record"} : MoveTo(c, to) /\ call[c].pc \in Writing /\ ~Record(c)
    BY <1>4, StepsDiffer DEF WriteLog, WriteAnchor, Writing
  <2>2. PICK p : p = call[c].path /\ call[c].on \in SetOf(wrote, p)'
    BY <1>4, BytesMove
  <2>3. call[c].on \in SetOf(wrote, call[c].path)'
    <3>1. call'[c].path = call[c].path
      BY <1>0, <2>1 DEF MoveTo, CallShape
    <3> QED BY <2>2, <3>1 DEF SetOf
  <2>4. /\ call'[c].path = call[c].path /\ call'[c].on = call[c].on /\ call'[c].shape = call[c].shape
        /\ call'[c].was = call[c].was /\ call'[c].cap = call[c].cap
    BY <1>0, <2>1 DEF MoveTo, CallShape
  <2> QED BY <1>1, <1>4, <2>1, <2>3, <2>4
<1>5. CASE d = c /\ Fork(c) /\ call'[c].pc \in Writing
  <2>1. PICK q \in Path : q = Append(call[c].path, call[c].cap) /\ call[c].cap \in Transcript
    BY <1>0, PathGrows DEF CallShape
  <2>2. PICK w : w = Stored(File(q)) /\ w \in Transcript
    BY FileIsOne DEF SaveInv
  <2>3. /\ call[c].pc = "fork" /\ call'[c].path = q /\ call'[c].cap = call[c].cap /\ call'[c].was = w
        /\ call'[c].shape = "fork"
        /\ call'[c].pc = IF Normalize(w) = call[c].cap THEN "record" ELSE "log"
    BY <1>0, <1>5, <2>1, <2>2 DEF Fork, CallShape
  <2>4. call[c].cap # <<>>
    BY <2>3 DEF SaveInv, CallsOK, CallOK
  <2>5. call'[c].pc = "record" => w # <<>>
    BY <2>2, <2>3, <2>4, NormalizeKeeps
  <2>6. w \notin {<<>>, call[c].cap} => Idle \in SetOf(wrote, q)'
    BY <1>5, <2>1, <2>2, BytesMove
  <2>7. w = <<>> => (File(q).rev)' = 0
    <3>1. (File(q).rev)' = File(q).rev
      <4>1. ~Record(c)
        BY <2>3 DEF Record
      <4> QED BY <4>1, FileMoves
    <3> QED BY <1>0, <2>2, <3>1 DEF BytesOK
  <2> QED BY <1>5, <2>3, <2>5, <2>6, <2>7 DEF WriterOK, SetOf, File
<1>6. CASE d = c /\ (SaveWrites(c) \/ ForceSave(c)) /\ call'[c].pc \in Writing
  <2>1. PICK s \in {"append", "compact", "heal", "replace", "force"} : Captures(c, call[c].path, s)
    BY <1>6 DEF SaveWrites, ForceSave
  <2>2. call'[c].shape = s /\ call'[c].pc = IF s = "heal" THEN "record" ELSE "log"
    BY <1>0, <2>1 DEF Captures, CallShape
  <2> QED BY <1>6, <2>2 DEF WriterOK
<1>7. call'[c].pc \notin Writing \/ WriteLog(c) \/ WriteAnchor(c) \/ Fork(c) \/ SaveWrites(c) \/ ForceSave(c)
  <2>1. call'[c].pc = "done" => call'[c].pc \notin Writing
    BY DEF Writing
  <2>2. call'[c].pc \in {"conflict", "lock", "adopt", "force", "fork"} => call'[c].pc \notin Writing
    BY DEF Writing
  <2> QED BY <2>1, <2>2, CallGoes
<1> QED BY <1>2, <1>3, <1>4, <1>5, <1>6, <1>7

(***************************************************************************)
(* While nothing fails.                                                    *)
(***************************************************************************)
LEMMA CalmStays ==
  ASSUME SaveInv, SelfInv, NEW c \in Saves, SaveStep(c), faults' = 0
  PROVE  faults = 0 /\ ~WriteFails(c) /\ CalmOK /\ NoFailure'
<1>1. faults \in Nat /\ call \in [Saves -> CallShape]
  BY DEF SaveInv, Shapes
<1>2. faults = 0 /\ ~WriteFails(c)
  BY <1>1 DEF SaveStep, SaveWrites, SaveIsUpToDate, SaveConflicts, WriteLog, WriteAnchor, Record,
              Retry, Adopt, Recover, ForceSave, Fork, WriteFails, Fault
<1>3. CalmOK
  BY <1>2 DEF SelfInv
<1>4. call'[c].end # "failed"
  <2>1. CASE Ends(c)
    <3>1. PICK how \in {"saved", "forked", "adopted"} : Leave(c, how)
      BY <2>1 DEF Ends, SaveIsUpToDate, Record, Adopt
    <3> QED BY <1>1, <3>1 DEF Leave, Ended, NewCall
  <2>2. CASE ~Ends(c)
    <3>1. PICK r \in Runtimes : r = call[c].on
      BY StepIsInside, CallIsOne DEF SaveInv
    <3>2. call'[c].pc # "done"
      BY <1>2, <2>2, <3>1, GoesOn DEF Inside, Writing
    <3> QED BY <1>3, <3>2, CallMoves DEF CalmOK, NoFailure
  <2> QED BY <2>1, <2>2
<1> QED BY <1>2, <1>3, <1>4, OthersStay DEF CalmOK, NoFailure

\* Locks are given back at the end of a save.
LEMMA LocksMove ==
  ASSUME SaveInv, NEW c \in Saves, SaveStep(c), NEW q, Holder(locked, q)' = Idle
  PROVE  Holder(locked, q) = Idle \/ ((Record(c) \/ WriteFails(c)) /\ Holder(locked, q) = c)
<1>1. ASSUME NEW p, locked' = Put(locked, p, c)
      PROVE  Holder(locked, q) = Idle
  <2>1. Holder(locked, q)' = IF q = p THEN c ELSE Holder(locked, q)
    BY <1>1 DEF Put, Holder
  <2> QED BY <2>1
<1>2. CASE locked' = locked
  BY <1>2 DEF Holder
<1>3. CASE Record(c) \/ WriteFails(c)
  <2>1. locked' = [p \in DOMAIN locked |-> IF locked[p] = c THEN Idle ELSE locked[p]]
    BY <1>3 DEF Record, WriteFails, ReleaseLocks
  <2>2. Holder(locked, q)' = IF Holder(locked, q) = c THEN Idle ELSE Holder(locked, q)
    BY <2>1 DEF Holder
  <2> QED BY <1>3, <2>2
<1>4. CASE SaveWrites(c) \/ ForceSave(c)
  <2>1. PICK s \in {"append", "compact", "heal", "replace", "force"} : Captures(c, call[c].path, s)
    BY <1>4 DEF SaveWrites, ForceSave
  <2> QED BY <1>1, <2>1 DEF Captures
<1>5. CASE Fork(c)
  BY <1>1, <1>5 DEF Fork
<1>6. CASE SaveIsUpToDate(c) \/ SaveConflicts(c) \/ WriteLog(c) \/ WriteAnchor(c) \/ Retry(c) \/ Adopt(c) \/ Recover(c)
  BY <1>2, <1>6 DEF SaveIsUpToDate, SaveConflicts, WriteLog, WriteAnchor, Retry, Adopt, Recover
<1> QED BY <1>3, <1>4, <1>5, <1>6 DEF SaveStep

\* Whoever wrote is alive.
LEMMA WritersLive ==
  ASSUME SaveInv, NEW c \in Saves, SaveStep(c), \A p \in DOMAIN wrote, r \in Runtimes : r \in wrote[p] => mem[r].up
  PROVE  \A p \in DOMAIN wrote', r \in Runtimes : r \in wrote'[p] => mem'[r].up
<1> SUFFICES ASSUME NEW p \in DOMAIN wrote', NEW r \in Runtimes, r \in wrote'[p]
             PROVE  mem'[r].up
  OBVIOUS
<1>1. r \in SetOf(wrote, p)'
  BY DEF SetOf
<1>2. r \in SetOf(wrote, p) \/ r = call[c].on
  BY <1>1, BytesMove
<1>3. r \in SetOf(wrote, p) => mem[r].up
  BY DEF SetOf
<1> QED BY <1>2, <1>3, OthersStay

\* What a record leaves of a file that nobody else wrote.
LEMMA RecordKnows ==
  ASSUME SaveInv, SelfInv, NEW c \in Saves, Record(c), Idle \notin SetOf(wrote, call[c].path)
  PROVE  Stored(File(call[c].path)) = call[c].cap /\ Recorded(c).rev >= 1
<1>1. call[c].pc = "record" /\ call[c].pc \in Inside /\ call[c].pc \in Writing
  BY DEF Record, Inside, Writing
<1>2. WriterOK(c) /\ File(call[c].path) \in FileShape /\ call[c] \in CallShape
  BY <1>1, CallIsOne, FileIsOne DEF SelfInv, SaveInv
<1>3. ~Refork(c)
  BY <1>1, <1>2 DEF WriterOK, Refork
<1>4. Stored(File(call[c].path)) = call[c].cap
  BY <1>1, <1>3 DEF SaveInv, WritesOK, WriteOK
<1>5. Recorded(c).rev >= 1
  BY <1>2 DEF Recorded, FileShape, CallShape
<1> QED BY <1>4, <1>5

\* The digest in a ledger is that of the file.
LEMMA SavingKeepsDigests ==
  ASSUME SaveInv, SelfInv, CalmOK, NEW c \in Saves, SaveStep(c), ~WriteFails(c), Shapes'
  PROVE  DigestsOK'
<1> SUFFICES ASSUME NEW p \in Path, Holder(locked, p)' = Idle, Idle \notin SetOf(wrote, p)'
             PROVE  (File(p).digest)' \in {<<>>, Stored(File(p))'}
  <2>1. \A q : (File(q).digest)' = File(q)'.digest
    OBVIOUS
  <2> QED BY DEF DigestsOK
<1>0. Idle \notin SetOf(wrote, p)
  BY BytesMove
<1>1. CASE Holder(locked, p) = Idle
  <2>1. File(p).digest \in {<<>>, Stored(File(p))}
    BY <1>0, <1>1 DEF CalmOK, DigestsOK
  <2>2. call[c].pc \in Writing => call[c].path # p
    BY <1>1 DEF SaveInv, CallsOK, CallOK
  <2>3. WriteLog(c) \/ WriteAnchor(c) \/ Record(c) => call[c].pc \in Writing
    BY DEF WriteLog, WriteAnchor, Record, Writing
  <2>4. Stored(File(p))' = Stored(File(p)) /\ (File(p).digest)' = File(p).digest
    <3>1. call[c].pc \in Writing => File(p)' = File(p)
      BY <2>2, FileMoves
    <3>2. CASE call[c].pc \in Writing
      BY <3>1, <3>2 DEF Stored
    <3>3. CASE call[c].pc \notin Writing
      BY <2>3, <3>3, FileMoves
    <3> QED BY <3>2, <3>3
  <2> QED BY <2>1, <2>4
<1>2. CASE Record(c) /\ Holder(locked, p) = c
  <2>1. call[c].path = p
    BY <1>2 DEF SelfInv, LocksOK
  <2>2. Stored(File(p)) = call[c].cap /\ Stored(File(p))' = Stored(File(p)) /\ (File(p))' = Recorded(c)
    BY <1>0, <1>2, <2>1, RecordKnows, FileMoves, StepsDiffer
  <2>3. Recorded(c).digest \in {<<>>, call[c].cap}
    <3>0. /\ call[c].pc = "record" /\ call[c].pc \in Writing /\ WriterOK(c) /\ LedgerOK(c)
          /\ File(p) \in FileShape /\ call[c] \in CallShape
      BY <1>2, FileIsOne DEF Record, Writing, SelfInv, CalmOK, SaveInv, Shapes
    <3>1. CASE call[c].shape # "fork"
      BY <3>0, <3>1, RecordedIsOne DEF SaveInv
    <3>2. CASE call[c].shape = "fork" /\ File(p).rev > 1
      <4>1. Recorded(c).digest = File(p).digest
        BY <2>1, <3>0, <3>2 DEF Recorded, FileShape
      <4>2. call[c].was = call[c].cap
        BY <1>0, <2>1, <3>0, <3>2 DEF WriterOK
      <4> QED BY <1>0, <2>1, <3>0, <3>2, <4>1, <4>2 DEF LedgerOK
    <3>3. CASE call[c].shape = "fork" /\ ~(File(p).rev > 1)
      BY <2>1, <3>0, <3>3 DEF Recorded, FileShape
    <3> QED BY <3>1, <3>2, <3>3
  <2> QED BY <2>2, <2>3
<1> QED BY <1>1, <1>2, LocksMove

\* What the ledger says of a file that a call writes.
LEMMA SavingKeepsLedgers ==
  ASSUME SaveInv, SelfInv, CalmOK, NEW c \in Saves, SaveStep(c), ~WriteFails(c), Shapes', NEW d \in Saves
  PROVE  LedgerOK(d)'
<1>0. /\ LedgerOK(d) /\ DigestsOK /\ call \in [Saves -> CallShape]
      /\ call[c].path \in Path /\ call[c].pc \in Inside
  BY StepIsInside, CallIsOne DEF CalmOK, SaveInv, Shapes
<1>1. CASE call[d].pc \in Writing /\ call'[d].path = call[d].path /\ call'[d].shape = call[d].shape
           /\ call'[d].was = call[d].was /\ call'[d].cap = call[d].cap /\ (d = c => ~Record(c))
  <2>1. PICK p \in Path : p = call[d].path
    BY <1>0 DEF CallShape
  <2>2. (File(p).digest)' = File(p).digest
    <3>1. CASE d = c
      BY <1>1, <3>1, FileMoves
    <3>2. CASE d # c
      <4>1. File(p)' = File(p)
        BY <1>1, <2>1, <3>2, DiskKeeps
      <4> QED BY <4>1
    <3> QED BY <3>1, <3>2
  <2>3. SetOf(wrote, p) \subseteq SetOf(wrote, p)'
    BY BytesMove
  <2>4. /\ call[d].shape = "fork" /\ call[d].was = call[d].cap /\ Idle \notin SetOf(wrote, p)
             => File(p).digest \in {<<>>, call[d].cap}
        /\ call[d].shape = "heal" => Idle \in SetOf(wrote, p)
    BY <1>0, <1>1, <2>1 DEF LedgerOK
  <2> QED BY <1>1, <2>1, <2>2, <2>3, <2>4 DEF LedgerOK, SetOf, File
<1>2. CASE d # c
  <2>1. call'[d] = call[d]
    BY <1>2, OthersStay
  <2>2. CASE call[d].pc \in Writing
    BY <1>1, <1>2, <2>1, <2>2
  <2>3. CASE call[d].pc \notin Writing
    BY <2>1, <2>3 DEF LedgerOK
  <2> QED BY <2>2, <2>3
<1>3. CASE d = c /\ call'[c].pc \notin Writing
  BY <1>3 DEF LedgerOK
<1>4. CASE d = c /\ (WriteLog(c) \/ WriteAnchor(c))
  <2>1. PICK to \in {"anchor", "record"} : MoveTo(c, to) /\ call[c].pc \in Writing /\ ~Record(c)
    BY <1>4, StepsDiffer DEF WriteLog, WriteAnchor, Writing
  <2>2. /\ call'[c].path = call[c].path /\ call'[c].shape = call[c].shape
        /\ call'[c].was = call[c].was /\ call'[c].cap = call[c].cap
    BY <1>0, <2>1 DEF MoveTo, CallShape
  <2> QED BY <1>1, <1>4, <2>1, <2>2
<1>5. CASE d = c /\ Fork(c)
  <2>1. PICK q \in Path : q = Append(call[c].path, call[c].cap) /\ call[c].cap \in Transcript
    BY <1>0, PathGrows DEF CallShape
  <2>2. /\ call'[c].path = q /\ call'[c].cap = call[c].cap /\ call'[c].was = Stored(File(q))
        /\ call'[c].shape = "fork" /\ Holder(locked, q) = Idle /\ disk' = disk
    BY <1>0, <1>5, <2>1 DEF Fork, CallShape
  <2>3. Stored(File(q)) = call[c].cap /\ Idle \notin SetOf(wrote, q)' => (File(q).digest)' \in {<<>>, call[c].cap}
    <3>1. File(q)' = File(q)
      BY <2>2 DEF File
    <3>2. Idle \notin SetOf(wrote, q)' => Idle \notin SetOf(wrote, q)
      BY BytesMove
    <3> QED BY <1>0, <2>2, <3>1, <3>2 DEF DigestsOK
  <2> QED BY <1>5, <2>2, <2>3 DEF LedgerOK, SetOf, File
<1>6. CASE d = c /\ SaveWrites(c)
  <2>1. PICK p \in Path : p = call[c].path
    BY <1>0
  <2>2. PICK s \in {"append", "compact", "heal", "replace"} :
          /\ Captures(c, p, s)
          /\ s = "heal" => UpToDate(p, mem[call[c].on].msgs) /\ File(p).digest \notin {<<>>, mem[call[c].on].msgs}
    BY <1>6, <2>1 DEF SaveWrites
  <2>3. call'[c].shape = s /\ call'[c].path = p /\ wrote' = wrote /\ Holder(locked, p) = Idle
    BY <1>0, <1>6, <2>1, <2>2 DEF Captures, CallShape, SaveWrites, Locks
  <2>4. s = "heal" => Idle \in SetOf(wrote, p)
    <3>1. s = "heal" => Stored(File(p)) = mem[call[c].on].msgs
      BY <2>2, UpToDateIsStored
    <3> QED BY <1>0, <2>2, <2>3, <3>1 DEF DigestsOK
  <2>5. SetOf(wrote, p)' = SetOf(wrote, p)
    BY <2>3 DEF SetOf
  <2> QED BY <1>6, <2>3, <2>4, <2>5 DEF LedgerOK, SetOf
<1>7. CASE d = c /\ ForceSave(c)
  <2>1. Captures(c, call[c].path, "force")
    BY <1>7 DEF ForceSave
  <2>2. call'[c].shape = "force"
    BY <1>0, <2>1 DEF Captures, CallShape
  <2> QED BY <1>7, <2>2 DEF LedgerOK
<1>8. call'[c].pc \notin Writing \/ WriteLog(c) \/ WriteAnchor(c) \/ Fork(c) \/ SaveWrites(c) \/ ForceSave(c)
  <2>1. call'[c].pc = "done" => call'[c].pc \notin Writing
    BY DEF Writing
  <2>2. call'[c].pc \in {"conflict", "lock", "adopt", "force", "fork"} => call'[c].pc \notin Writing
    BY DEF Writing
  <2> QED BY <2>1, <2>2, CallGoes
<1> QED BY <1>2, <1>3, <1>4, <1>5, <1>6, <1>7, <1>8

\* How what a runtime knows is kept, in terms of its memory and the file then.
LEMMA KnownIsKept ==
  ASSUME NEW s \in Runtimes, NEW p, NEW b, NEW t, NEW n,
         mem'[s].path = p, mem'[s].base = b, Stored(File(p))' = t, (File(p).rev)' = n,
         mem'[s].up /\ Solo(s, p)' => /\ p # <<>> => n >= 1
                                      /\ ~WritesTo(s, p)' => b.rev = n /\ b.msgs \in {t, Normalize(t)}
  PROVE  KnownOK(s)'
BY DEF KnownOK, File, Stored, Solo, SetOf, WritesTo

LEMMA SavingKeepsKnown ==
  ASSUME SaveInv, SelfInv, CalmOK, NEW c \in Saves, SaveStep(c), ~WriteFails(c), Shapes', NEW s \in Runtimes
  PROVE  KnownOK(s)'
<1>0. /\ call[c].pc \in Inside /\ call[c] \in CallShape /\ call[c].on \in Runtimes /\ call[c].path \in Path
      /\ mem[call[c].on].up /\ File(call[c].path) \in FileShape
      /\ KnownOK(s) /\ WriterOK(c) /\ LedgerOK(c) /\ PlaceOK(c)
      /\ mem[s].path \in Path
  BY StepIsInside, CallIsOne, FileIsOne DEF SaveInv, SelfInv, CalmOK, Shapes, MemShape
<1>1. PICK q, b, t, n : /\ q \in Path /\ q = mem[s].path /\ b = mem[s].base /\ t = Stored(File(q)) /\ n = File(q).rev
                        /\ n \in Nat
  <2>1. File(mem[s].path) \in FileShape
    BY <1>0, FileIsOne DEF SaveInv
  <2> QED BY <1>0, <2>1 DEF FileShape
<1>2. mem[s].up /\ Solo(s, q) => /\ q # <<>> => n >= 1
                                 /\ ~WritesTo(s, q) => b.rev = n /\ b.msgs \in {t, Normalize(t)}
  BY <1>0, <1>1 DEF KnownOK
<1>3. PICK u, m : u = Stored(File(q))' /\ m = (File(q).rev)'
  OBVIOUS
<1>4. /\ u # t => (WriteLog(c) \/ WriteAnchor(c)) /\ q = call[c].path
      /\ m # n => Record(c) /\ q = call[c].path
  <2>1. q # call[c].path => Stored(File(q))' = Stored(File(q)) /\ (File(q).rev)' = File(q).rev
    BY FileMoves DEF Stored
  <2> QED BY <1>1, <1>3, <2>1, FileMoves
<1>5. Solo(s, q)' => Solo(s, q)
  BY SoloStays
<1>6. CASE s # call[c].on
  <2>1. mem'[s] = mem[s] /\ (WritesTo(s, q)' <=> WritesTo(s, q))
    BY <1>6, OthersStay, WritersStay
  <2>2. Solo(s, q)' => u = t
    BY <1>0, <1>4, <1>6, BytesMove DEF Solo
  <2>3. ASSUME mem[s].up, Solo(s, q)', m # n
        PROVE  FALSE
    <3>1. call[c].pc = "record" /\ call[c].pc \in Writing /\ q = call[c].path /\ Solo(s, q)
      BY <1>4, <1>5, <2>3 DEF Record, Writing
    <3>2. call[c].on \notin SetOf(wrote, q) /\ Idle \notin SetOf(wrote, q)
      BY <1>0, <1>6, <3>1 DEF Solo
    <3>3. call[c].shape = "fork"
      BY <1>0, <3>1, <3>2 DEF WriterOK, LedgerOK
    <3>4. q # <<>>
      BY <3>1, <3>3 DEF SaveInv, ForksOK, ForkOK
    <3>5. n >= 1
      BY <1>2, <2>3, <3>1, <3>4
    <3>6. File(q)' = Recorded(c)
      BY <1>4, <2>3, FileMoves
    <3>7. Recorded(c).rev = n
      BY <1>0, <1>1, <3>1, <3>3, <3>5 DEF Recorded, FileShape
    <3> QED BY <1>3, <2>3, <3>6, <3>7
  <2> QED BY <1>1, <1>2, <1>3, <1>5, <2>1, <2>2, <2>3, KnownIsKept
<1>7. CASE s = call[c].on /\ ~Ends(c)
  <2>1. mem'[s] = mem[s]
    BY <1>7, MemoryEnds
  <2>2. m = n
    BY <1>4, <1>7 DEF Ends
  <2>3. call[c].pc \in Writing => call'[c].pc \in Writing /\ call'[c].path = call[c].path /\ call'[c].on = s
    BY <1>7, GoesOn
  <2>4. u # t => WritesTo(s, q)'
    <3>1. WriteLog(c) \/ WriteAnchor(c) => call[c].pc \in Writing
      BY DEF WriteLog, WriteAnchor, Writing
    <3> QED BY <1>4, <2>3, <3>1 DEF WritesTo
  <2>5. WritesTo(s, q) => WritesTo(s, q)'
    <3> SUFFICES ASSUME NEW d \in Saves, call[d].on = s, call[d].pc \in Writing, call[d].path = q
                 PROVE  WritesTo(s, q)'
      BY DEF WritesTo
    <3>1. d = c
      BY <1>0, <1>7, OneInside DEF Inside
    <3> QED BY <2>3, <3>1 DEF WritesTo
  <2> QED BY <1>1, <1>2, <1>3, <1>5, <2>1, <2>2, <2>4, <2>5, KnownIsKept
<1>8. CASE s = call[c].on /\ (Adopt(c) \/ SaveIsUpToDate(c))
  <2>1. call[c].path = q
    BY <1>0, <1>1, <1>8 DEF Adopt, GivesUp, SaveIsUpToDate, Locks, PlaceOK, Asking
  <2>2. u = t /\ m = n
    BY <1>4, <1>8, StepsDiffer DEF Adopt, GivesUp, SaveIsUpToDate, Locks, WriteLog, WriteAnchor
  <2>3. /\ mem'[s].path = q /\ mem'[s].base.rev = n /\ mem'[s].base.msgs \in {t, Normalize(t)}
    <3>1. CASE Adopt(c)
      <4>1. mem'[s] = Loaded(q)
        BY <1>8, <2>1, <3>1, MemoryEnds
      <4> QED BY <1>1, <4>1 DEF Loaded, Base
    <3>2. CASE SaveIsUpToDate(c)
      <4>1. /\ mem'[s].path = q /\ mem'[s].base = Base(q, mem[s].msgs, File(q).rev) /\ Stored(File(q)) = mem[s].msgs
        BY <1>8, <2>1, <3>2, MemoryEnds
      <4> QED BY <1>1, <4>1 DEF Base
    <3> QED BY <1>8, <3>1, <3>2
  <2>4. mem[s].up
    BY <1>0, <1>8
  <2> QED BY <1>2, <1>3, <1>5, <2>2, <2>3, <2>4, KnownIsKept
<1>9. CASE s = call[c].on /\ Record(c)
  <2>1. PICK p, k, v : p \in Path /\ p = call[c].path /\ k = call[c].cap /\ v = Recorded(c).rev
    BY <1>0
  <2>2. mem'[s].path = p /\ mem'[s].base = Base(p, k, v)
    BY <1>9, <2>1, MemoryEnds
  <2>3. (File(p).rev)' = v /\ Stored(File(p))' = Stored(File(p))
    BY <1>9, <2>1, FileMoves, StepsDiffer
  <2>4. Solo(s, p)' => Stored(File(p)) = k /\ v >= 1
    <3>1. Solo(s, p)' => Idle \notin SetOf(wrote, p)
      BY SoloStays DEF Solo
    <3> QED BY <1>9, <2>1, <3>1, RecordKnows
  <2>5. Base(p, k, v).rev = v /\ Base(p, k, v).msgs = k
    BY DEF Base
  <2>6. Solo(s, p)' => Stored(File(p))' = k
    BY <2>3, <2>4
  <2>7. PICK w : w = Stored(File(p))'
    OBVIOUS
  <2> QED BY <2>2, <2>3, <2>4, <2>5, <2>6, <2>7, KnownIsKept
<1> QED BY <1>6, <1>7, <1>8, <1>9 DEF Ends

\* The steps of a save keep it.
LEMMA SavingKeepsSelf ==
  ASSUME SaveInv, SelfInv, NEW c \in Saves, SaveStep(c), Shapes'
  PROVE  SelfInv'
<1>1. /\ EditsOK' /\ LocksOK' /\ BytesOK'
      /\ \A d \in Saves : PlaceOK(d)' /\ CaptureOK(d)' /\ NextOK(d)' /\ FightOK(d)' /\ WriterOK(d)'
      /\ \A s \in Runtimes : LineOK(s)'
  BY SavingKeepsEdits, SavingKeepsLocks, SavingKeepsBytes, SavingKeepsWriters, SavingKeepsLines, OthersRemain, CallerRemains
<1>2. ASSUME faults' = 0
      PROVE  CalmOK'
  <2>1. CalmOK /\ ~WriteFails(c) /\ NoFailure'
    BY <1>2, CalmStays
  <2>2. \A p \in DOMAIN wrote', r \in Runtimes : r \in wrote'[p] => mem'[r].up
    BY <2>1, WritersLive DEF CalmOK
  <2>3. DigestsOK' /\ (\A d \in Saves : LedgerOK(d)') /\ \A s \in Runtimes : KnownOK(s)'
    BY <2>1, SavingKeepsDigests, SavingKeepsLedgers, SavingKeepsKnown
  <2> QED BY <2>1, <2>2, <2>3 DEF CalmOK
<1> QED BY <1>1, <1>2 DEF SelfInv

(***************************************************************************)
(* The steps in memory.                                                    *)
(***************************************************************************)
\* A step of one runtime in memory: a call of it may begin or enter.
Joining(d, r) ==
  /\ call[d].pc \in {"new", "enter"} /\ call'[d].pc \in {"enter", "lock"}
  /\ call'[d].on = r /\ (call[d].pc = "enter" => call[d].on = r) /\ call'[d].end = call[d].end
StepsInMemory(r) ==
  /\ UNCHANGED <<disk, locked, wrote, faults>>
  /\ \A s \in Runtimes \ {r} : mem'[s] = mem[s]
  /\ \A d \in Saves : call'[d] = call[d] \/ Joining(d, r)

LEMMA RewritesFailNot ==
  ASSUME SaveInv, NEW r \in Runtimes, StepsInMemory(r)
  PROVE  RewriteFailed' <=> RewriteFailed
<1>1. \A d \in Saves : call[d].pc # "done" => call[d].end = "none"
  BY DEF SaveInv, CallsOK, CallOK
<1>2. \A d \in Saves : Joining(d, r) => call[d].end = "none" /\ call'[d].end = "none"
  BY <1>1 DEF Joining
<1>3. ASSUME RewriteFailed PROVE RewriteFailed'
  <2>1. PICK d \in Saves : call[d].mode = "rewrite" /\ call[d].end = "failed"
    BY <1>3 DEF RewriteFailed
  <2>2. call'[d] = call[d]
    BY <1>2, <2>1 DEF StepsInMemory
  <2> QED BY <2>1, <2>2 DEF RewriteFailed
<1>4. ASSUME RewriteFailed' PROVE RewriteFailed
  <2>1. PICK d \in Saves : call'[d].mode = "rewrite" /\ call'[d].end = "failed"
    BY <1>4 DEF RewriteFailed
  <2>2. call'[d] = call[d]
    BY <1>2, <2>1 DEF StepsInMemory
  <2> QED BY <2>1, <2>2 DEF RewriteFailed
<1> QED BY <1>3, <1>4

\* Other runtimes see nothing of it, and no file and no lock changes.
LEMMA OthersSeeNothing ==
  ASSUME SaveInv, NEW r \in Runtimes, StepsInMemory(r)
  PROVE  /\ \A s \in Runtimes \ {r} : Edits(s)' <=> Edits(s)
         /\ \A s \in Runtimes \ {r} : Active(s, {"rewind"})' <=> Active(s, {"rewind"})
         /\ \A s \in Runtimes \ {r}, d \in Saves : EditOf(d, s)' <=> EditOf(d, s)
         /\ \A s \in Runtimes : \A q : WritesTo(s, q)' <=> WritesTo(s, q)
         /\ \A s, q : Solo(s, q)' <=> Solo(s, q)
         /\ \A q : File(q)' = File(q) /\ Stored(File(q))' = Stored(File(q)) /\ Holder(locked, q)' = Holder(locked, q)
<1>1. /\ UNCHANGED <<disk, locked, wrote, faults>>
      /\ \A s \in Runtimes \ {r} : mem'[s] = mem[s]
      /\ \A d \in Saves : call'[d] = call[d] \/ (/\ call[d].pc \in {"new", "enter"} /\ call'[d].pc \in {"enter", "lock"}
                                                 /\ call'[d].on = r /\ (call[d].pc = "enter" => call[d].on = r))
  BY DEF StepsInMemory, Joining
<1>2. \A s \in Runtimes \ {r} : Active(s, {"rewind"})' <=> Active(s, {"rewind"})
  BY <1>1 DEF Active
<1>3. \A s \in Runtimes \ {r} : StripsOn(s)' <=> StripsOn(s)
  BY <1>1 DEF StripsOn, Inside, Writing
<1>4. \A s \in Runtimes \ {r} : NeedsRewrite(s)' <=> NeedsRewrite(s)
  BY <1>1 DEF NeedsRewrite
<1>5. \A s \in Runtimes \ {r} : Edits(s)' <=> Edits(s)
  BY <1>2, <1>3, <1>4, RewritesFailNot DEF Edits
<1>6. \A s \in Runtimes \ {r}, d \in Saves : EditOf(d, s)' <=> EditOf(d, s)
  BY <1>1 DEF EditOf
<1>7. \A s \in Runtimes : \A q : WritesTo(s, q)' <=> WritesTo(s, q)
  BY <1>1 DEF WritesTo, Writing
<1>8. \A q : File(q)' = File(q)
  BY <1>1 DEF File
<1>9. /\ \A s, q : Solo(s, q)' <=> Solo(s, q)
      /\ \A q : Stored(File(q))' = Stored(File(q)) /\ Holder(locked, q)' = Holder(locked, q)
  BY <1>1, <1>8 DEF Solo, SetOf, Stored, Holder
<1> QED BY <1>2, <1>5, <1>6, <1>7, <1>8, <1>9

\* What such a step leaves alone.
LEMMA MemoryLeavesAlone ==
  ASSUME SaveInv, SelfInv, NEW r \in Runtimes, StepsInMemory(r)
  PROVE  /\ LocksOK' /\ BytesOK'
         /\ \A d \in Saves : WriterOK(d)'
         /\ \A d \in Saves : call'[d].on # r \/ call'[d].pc \notin Inside =>
               PlaceOK(d)' /\ CaptureOK(d)' /\ NextOK(d)' /\ FightOK(d)'
         /\ \A s \in Runtimes \ {r} : LineOK(s)'
<1>1. /\ UNCHANGED <<disk, locked, wrote, faults>>
      /\ \A s \in Runtimes \ {r} : mem'[s] = mem[s]
      /\ \A d \in Saves : call'[d] = call[d] \/ (/\ call[d].pc \in {"new", "enter"} /\ call'[d].pc \in {"enter", "lock"}
                                                 /\ call'[d].on = r)
  BY DEF StepsInMemory, Joining
<1>2. /\ LocksOK /\ BytesOK
      /\ \A d \in Saves : PlaceOK(d) /\ CaptureOK(d) /\ NextOK(d) /\ FightOK(d) /\ WriterOK(d)
      /\ \A s \in Runtimes : LineOK(s)
  BY DEF SelfInv
<1>3. LocksOK'
  BY <1>1, <1>2 DEF LocksOK, Holder, Writing
<1>4. BytesOK'
  BY <1>1, <1>2 DEF BytesOK, File, Stored, SetOf
<1>5. ASSUME NEW d \in Saves PROVE WriterOK(d)'
  <2>1. CASE call'[d] = call[d]
    BY <1>1, <1>2, <2>1 DEF WriterOK, File, SetOf
  <2>2. CASE call'[d].pc \in {"enter", "lock"}
    BY <2>2 DEF WriterOK, Writing
  <2> QED BY <1>1, <2>1, <2>2
<1>6. ASSUME NEW d \in Saves, call'[d].on # r \/ call'[d].pc \notin Inside
      PROVE  PlaceOK(d)' /\ CaptureOK(d)' /\ NextOK(d)' /\ FightOK(d)'
  <2>1. CASE call'[d].pc \notin Inside
    BY <2>1 DEF PlaceOK, CaptureOK, NextOK, FightOK, Inside, Asking
  <2>2. CASE call'[d].pc \in Inside /\ call'[d].on # r
    <3>1. call'[d] = call[d]
      BY <1>1, <2>2
    <3>2. PICK s \in Runtimes \ {r} : s = call[d].on
      BY <2>2, <3>1, CallIsOne DEF SaveInv
    <3>3. mem'[s] = mem[s] /\ faults' = faults
      BY <1>1
    <3>4. (Edits(s)' <=> Edits(s)) /\ (Active(s, {"rewind"})' <=> Active(s, {"rewind"}))
      BY OthersSeeNothing
    <3>5. PlaceOK(d)'
      BY <1>2, <3>1, <3>2, <3>3 DEF PlaceOK, NeedsRewrite
    <3>6. CaptureOK(d)'
      BY <1>2, <3>1, <3>2, <3>3, <3>4 DEF CaptureOK
    <3>7. PICK q : q = call[d].path
      OBVIOUS
    <3>8. Solo(s, q)' <=> Solo(s, q)
      BY OthersSeeNothing
    <3>9. NextOK(d)'
      BY <1>2, <3>1, <3>2, <3>3, <3>4, <3>7, <3>8 DEF NextOK, Solo, SetOf
    <3>10. FightOK(d)'
      BY <1>2, <3>1, <3>2, <3>3, <3>4, <3>7, <3>8 DEF FightOK, Solo, SetOf
    <3> QED BY <3>5, <3>6, <3>9, <3>10
  <2> QED BY <1>6, <2>1, <2>2
<1>7. ASSUME NEW s \in Runtimes \ {r} PROVE LineOK(s)'
  <2>1. mem'[s] = mem[s]
    BY <1>1
  <2>2. PICK q, b, n, t : q = mem[s].path /\ b = mem[s].base /\ n = mem[s].msgs /\ t = Stored(File(q))
    OBVIOUS
  <2>3. Stored(File(q))' = t /\ (Solo(s, q)' <=> Solo(s, q)) /\ (Edits(s)' <=> Edits(s))
    BY <2>2, OthersSeeNothing
  <2>4. mem[s].up => /\ b.ok /\ b.path = q
                     /\ Solo(s, q) /\ ~Edits(s) =>
                          IsPrefix(b.msgs, n) /\ (b.msgs = Normalize(t) \/ (IsPrefix(b.msgs, t) /\ IsPrefix(t, n)))
    BY <1>2, <2>2 DEF LineOK
  <2> QED BY <2>1, <2>2, <2>3, <2>4, LineIs
<1> QED BY <1>3, <1>4, <1>5, <1>6, <1>7

\* While nothing fails.
LEMMA MemoryStaysCalm ==
  ASSUME SaveInv, SelfInv, NEW r \in Runtimes, StepsInMemory(r), faults' = 0, mem[r].up => mem'[r].up,
         CalmOK => KnownOK(r)'
  PROVE  CalmOK'
<1>1. /\ UNCHANGED <<disk, locked, wrote, faults>>
      /\ \A s \in Runtimes \ {r} : mem'[s] = mem[s]
      /\ \A d \in Saves : call'[d] = call[d] \/ (call'[d].pc \in {"enter", "lock"} /\ call'[d].end = call[d].end)
  BY DEF StepsInMemory, Joining
<1>2. CalmOK
  BY <1>1 DEF SelfInv
<1>3. NoFailure'
  BY <1>1, <1>2 DEF CalmOK, NoFailure
<1>4. \A p \in DOMAIN wrote', s \in Runtimes : s \in wrote'[p] => mem'[s].up
  BY <1>1, <1>2 DEF CalmOK
<1>5. DigestsOK'
  BY <1>1, <1>2 DEF CalmOK, DigestsOK, Holder, SetOf, File, Stored
<1>6. ASSUME NEW d \in Saves PROVE LedgerOK(d)'
  <2>1. LedgerOK(d)
    BY <1>2 DEF CalmOK
  <2>2. CASE call'[d] = call[d]
    BY <1>1, <2>1, <2>2 DEF LedgerOK, File, SetOf
  <2>3. CASE call'[d].pc \in {"enter", "lock"}
    BY <2>3 DEF LedgerOK, Writing
  <2> QED BY <1>1, <2>2, <2>3
<1>7. ASSUME NEW s \in Runtimes PROVE KnownOK(s)'
  <2>1. CASE s = r
    BY <1>2, <2>1
  <2>2. CASE s # r
    <3>1. mem'[s] = mem[s] /\ KnownOK(s)
      BY <1>1, <1>2, <2>2 DEF CalmOK
    <3>2. PICK q, b, t, n : q = mem[s].path /\ b = mem[s].base /\ t = Stored(File(q)) /\ n = File(q).rev
      OBVIOUS
    <3>3. Stored(File(q))' = t /\ (File(q).rev)' = n /\ (Solo(s, q)' <=> Solo(s, q)) /\ (WritesTo(s, q)' <=> WritesTo(s, q))
      <4>1. File(q)' = File(q)
        BY OthersSeeNothing
      <4> QED BY <3>2, <4>1, OthersSeeNothing
    <3>4. mem[s].up /\ Solo(s, q) => /\ q # <<>> => n >= 1
                                     /\ ~WritesTo(s, q) => b.rev = n /\ b.msgs \in {t, Normalize(t)}
      BY <3>1, <3>2 DEF KnownOK
    <3> QED BY <3>1, <3>2, <3>3, <3>4, KnownIsKept
  <2> QED BY <2>1, <2>2
<1> QED BY <1>3, <1>4, <1>5, <1>6, <1>7 DEF CalmOK

\* A step in memory keeps the invariant if its own runtime does.
LEMMA MemoryStepKeepsSelf ==
  ASSUME SaveInv, SelfInv, NEW r \in Runtimes, StepsInMemory(r), mem[r].up => mem'[r].up,
         \A c, d \in Saves : EditOf(c, r)' /\ EditOf(d, r)' => c = d,
         \A d \in Saves : call'[d].on = r /\ call'[d].pc \in Inside =>
            PlaceOK(d)' /\ CaptureOK(d)' /\ NextOK(d)' /\ FightOK(d)',
         LineOK(r)', faults = 0 /\ CalmOK => KnownOK(r)'
  PROVE  SelfInv'
<1>1. EditsOK'
  <2>1. \A s \in Runtimes \ {r}, d \in Saves : EditOf(d, s)' <=> EditOf(d, s)
    BY OthersSeeNothing
  <2> QED BY <2>1 DEF SelfInv, EditsOK
<1>2. \A d \in Saves : PlaceOK(d)' /\ CaptureOK(d)' /\ NextOK(d)' /\ FightOK(d)' /\ WriterOK(d)'
  BY MemoryLeavesAlone
<1>3. \A s \in Runtimes : LineOK(s)'
  BY MemoryLeavesAlone
<1>4. faults' = 0 => CalmOK'
  <2>1. faults' = faults
    BY DEF StepsInMemory
  <2> QED BY <2>1, MemoryStaysCalm
<1> QED BY <1>1, <1>2, <1>3, <1>4, MemoryLeavesAlone DEF SelfInv

\* A runtime that keeps its baseline and its path.
KeepsBase(r) ==
  /\ mem'[r].up = mem[r].up /\ mem'[r].base = mem[r].base /\ mem'[r].path = mem[r].path
  /\ mem'[r].saved = mem[r].saved

LEMMA KnownStays ==
  ASSUME SaveInv, NEW r \in Runtimes, StepsInMemory(r), KeepsBase(r), KnownOK(r)
  PROVE  KnownOK(r)'
<1>1. PICK q, b, t, n : q = mem[r].path /\ b = mem[r].base /\ t = Stored(File(q)) /\ n = File(q).rev
  OBVIOUS
<1>2. Stored(File(q))' = t /\ (File(q).rev)' = n /\ (Solo(r, q)' <=> Solo(r, q)) /\ (WritesTo(r, q)' <=> WritesTo(r, q))
  <2>1. File(q)' = File(q)
    BY OthersSeeNothing
  <2> QED BY <1>1, <2>1, OthersSeeNothing
<1>3. mem[r].up /\ Solo(r, q) => /\ q # <<>> => n >= 1
                                 /\ ~WritesTo(r, q) => b.rev = n /\ b.msgs \in {t, Normalize(t)}
  BY <1>1 DEF KnownOK
<1> QED BY <1>1, <1>2, <1>3, KnownIsKept DEF KeepsBase

\* The line is drawn out, or is about to be rewritten.
LEMMA LineStays ==
  ASSUME SaveInv, SelfInv, Shapes', NEW r \in Runtimes, StepsInMemory(r), KeepsBase(r),
         Edits(r)' \/ (IsPrefix(mem[r].msgs, mem'[r].msgs) /\ (Edits(r) => Edits(r)'))
  PROVE  LineOK(r)'
<1>1. PICK q, b, o, n, t : /\ q = mem[r].path /\ b = mem[r].base /\ o = mem[r].msgs /\ n = mem'[r].msgs /\ t = Stored(File(q))
                           /\ q \in Path /\ b.msgs \in Transcript /\ o \in Transcript /\ n \in Transcript /\ t \in Transcript
  <2>1. mem[r] \in MemShape /\ mem'[r] \in MemShape /\ Stored(File(mem[r].path)) \in Transcript
    BY FileIsOne DEF SaveInv, Shapes, MemShape
  <2> QED BY <2>1 DEF MemShape, BaseShape
<1>2. Stored(File(q))' = t /\ (Solo(r, q)' <=> Solo(r, q))
  BY <1>1, OthersSeeNothing
<1>3. mem[r].up => /\ b.ok /\ b.path = q
                   /\ Solo(r, q) /\ ~Edits(r) =>
                        IsPrefix(b.msgs, o) /\ (b.msgs = Normalize(t) \/ (IsPrefix(b.msgs, t) /\ IsPrefix(t, o)))
  BY <1>1 DEF SelfInv, LineOK
<1>4. IsPrefix(o, n) => (IsPrefix(b.msgs, o) => IsPrefix(b.msgs, n)) /\ (IsPrefix(t, o) => IsPrefix(t, n))
  BY <1>1, PrefixThrough
<1> QED BY <1>1, <1>2, <1>3, <1>4, LineIs DEF KeepsBase

\* What its calls rely on.
LEMMA CallsStay ==
  ASSUME SaveInv, SelfInv, Shapes', NEW r \in Runtimes, StepsInMemory(r), KeepsBase(r),
         \/ /\ mem'[r].rw = mem[r].rw /\ IsPrefix(mem[r].msgs, mem'[r].msgs)
            /\ Edits(r) => Edits(r)'
            /\ Active(r, {"rewind"}) => Active(r, {"rewind"})'
         \/ Edits(r)' /\ mem'[r].rw > mem[r].rw
         \/ Edits(r)' /\ mem'[r].rw = mem[r].rw /\ Active(r, {"rewind"})' /\ ~Active(r, {"rewind", "strip"}),
         NEW d \in Saves, call'[d] = call[d], call[d].on = r, call[d].pc \in Inside
  PROVE  PlaceOK(d)' /\ CaptureOK(d)' /\ NextOK(d)' /\ FightOK(d)'
<1>1. PlaceOK(d) /\ CaptureOK(d) /\ NextOK(d) /\ FightOK(d)
  BY DEF SelfInv
<1>2. /\ mem[r] \in MemShape /\ mem'[r] \in MemShape /\ call[d] \in CallShape /\ faults' = faults
      /\ call[d].cap \in Transcript
  BY DEF SaveInv, Shapes, StepsInMemory, CallShape
<1>3. PICK q : q = call[d].path /\ (Solo(r, q)' <=> Solo(r, q))
  BY OthersSeeNothing
<1>4. mem[r].msgs \in Transcript /\ mem'[r].msgs \in Transcript /\ mem[r].rw \in Nat /\ mem'[r].rw \in Nat /\ mem[r].saved \in Nat
  BY <1>2 DEF MemShape
<1>5. NeedsRewrite(r) => NeedsRewrite(r)'
  BY <1>4 DEF NeedsRewrite, KeepsBase
<1>6. PlaceOK(d)'
  BY <1>1, <1>5 DEF PlaceOK, KeepsBase
<1>7. CaptureOK(d)'
  <2> SUFFICES ASSUME call[d].pc \in Writing \cup {"fork"}, call[d].rw = mem'[r].rw,
                      call[d].op # "snapshot" \/ ~Active(r, {"rewind"})'
               PROVE  IsPrefix(call[d].cap, mem'[r].msgs)
    BY DEF CaptureOK
  <2>1. CASE /\ mem'[r].rw = mem[r].rw /\ IsPrefix(mem[r].msgs, mem'[r].msgs)
             /\ Active(r, {"rewind"}) => Active(r, {"rewind"})'
    <3>1. IsPrefix(call[d].cap, mem[r].msgs)
      BY <1>1, <2>1 DEF CaptureOK
    <3> QED BY <1>2, <1>4, <2>1, <3>1, PrefixThrough
  <2>2. CASE mem'[r].rw > mem[r].rw
    <3>1. call[d].rw <= mem[r].rw
      BY DEF SaveInv, CallsOK, CallOK
    <3> QED BY <1>4, <2>2, <3>1
  <2>3. CASE Active(r, {"rewind"})' /\ ~Active(r, {"rewind", "strip"})
    <3>1. call[d].op \in {"rewind", "strip"}
      BY <1>2, <2>3 DEF CallShape
    <3>2. call[d].pc \notin {"new", "done"}
      BY DEF Inside, Writing
    <3> QED BY <2>3, <3>1, <3>2 DEF Active
  <2> QED BY <2>1, <2>2, <2>3
<1>8. NextOK(d)'
  BY <1>1, <1>3 DEF NextOK, KeepsBase, Solo, SetOf
<1>9. FightOK(d)'
  BY <1>1, <1>2, <1>3 DEF FightOK, Solo, SetOf
<1> QED BY <1>6, <1>7, <1>8, <1>9

\* A turn or a compaction.
LEMMA ExtendsKeepsSelf ==
  ASSUME SaveInv, SelfInv, Shapes', NEW r \in Runtimes, NEW t, NEW n \in {0, 1}, Extends(r, t, n),
         n = 0 => IsPrefix(mem[r].msgs, t)
  PROVE  SelfInv'
<1>1. /\ mem[r].up /\ ~Active(r, {"rewind", "strip"})
      /\ mem' = [mem EXCEPT ![r].msgs = t, ![r].rw = @ + n]
      /\ UNCHANGED <<disk, mu, locked, call, faults, acked, cut, removed, wrote>>
  BY DEF Extends
<1>2. mem \in [Runtimes -> MemShape]
  BY DEF SaveInv, Shapes
<1>3. StepsInMemory(r) /\ KeepsBase(r) /\ mem'[r].msgs = t /\ mem'[r].rw = mem[r].rw + n
      /\ mem[r].rw \in Nat /\ mem[r].saved \in Nat
  BY <1>1, <1>2 DEF StepsInMemory, KeepsBase, MemShape
<1>4. /\ \A s : Active(s, {"rewind"})' <=> Active(s, {"rewind"})
      /\ StripsOn(r)' <=> StripsOn(r)
      /\ RewriteFailed' <=> RewriteFailed
  BY <1>1 DEF Active, StripsOn, RewriteFailed
<1>5. NeedsRewrite(r) => NeedsRewrite(r)'
  BY <1>3 DEF NeedsRewrite, KeepsBase
<1>6. Edits(r) => Edits(r)'
  BY <1>4, <1>5 DEF Edits
<1>7. n = 1 => Edits(r)' /\ mem'[r].rw > mem[r].rw
  <2>1. mem[r].saved <= mem[r].rw
    BY <1>1 DEF SaveInv, RuntimesOK
  <2> QED BY <1>3, <2>1 DEF Edits, NeedsRewrite, KeepsBase
<1>8. n = 0 => mem'[r].rw = mem[r].rw /\ IsPrefix(mem[r].msgs, mem'[r].msgs)
  BY <1>3
<1>9. LineOK(r)'
  BY <1>3, <1>6, <1>7, <1>8, LineStays
<1>10. \A d \in Saves : call[d].on = r /\ call[d].pc \in Inside =>
          PlaceOK(d)' /\ CaptureOK(d)' /\ NextOK(d)' /\ FightOK(d)'
  BY <1>1, <1>3, <1>4, <1>6, <1>7, <1>8, CallsStay
<1>11. CalmOK => KnownOK(r)'
  BY <1>3, KnownStays DEF CalmOK
<1>12. \A c, d \in Saves : EditOf(c, r)' /\ EditOf(d, r)' => c = d
  BY <1>1 DEF EditOf, SelfInv, EditsOK
<1>13. mem'[r].up
  BY <1>1, <1>3 DEF KeepsBase
<1>14. call' = call
  BY <1>1
<1> QED BY <1>3, <1>9, <1>10, <1>11, <1>12, <1>13, <1>14, MemoryStepKeepsSelf

LEMMA AddKeepsSelf ==
  ASSUME SaveInv, SelfInv, Shapes', NEW r \in Runtimes, Add(r) \/ Compact(r)
  PROVE  SelfInv'
<1>0. made' \in Nat /\ mem[r].msgs \in Transcript
  BY DEF SaveInv, Shapes, MemShape
<1>1. CASE Compact(r)
  <2>1. PICK t : Extends(r, t, 1)
    BY <1>1 DEF Compact
  <2> QED BY <2>1, ExtendsKeepsSelf
<1>2. CASE Add(r) /\ EndsInCall(mem[r].msgs)
  <2>1. PICK m : m = <<"result", Last(mem[r].msgs)[2]>> /\ Extends(r, Append(mem[r].msgs, m), 0)
    BY <1>2 DEF Add
  <2>2. m \in Message
    BY <1>0, <1>2, <2>1, LastIsOne DEF EndsInCall, Message, MessageKinds
  <2>3. IsPrefix(mem[r].msgs, Append(mem[r].msgs, m))
    BY <1>0, <2>2, PrefixOfMore
  <2> QED BY <2>1, <2>3, ExtendsKeepsSelf
<1>3. CASE Add(r) /\ ~EndsInCall(mem[r].msgs)
  <2>1. PICK k \in {"say", "call"} : Extends(r, Append(mem[r].msgs, <<k, made'>>), 0)
    BY <1>3 DEF Add
  <2>2. <<k, made'>> \in Message
    BY <1>0 DEF Message, MessageKinds
  <2>3. IsPrefix(mem[r].msgs, Append(mem[r].msgs, <<k, made'>>))
    BY <1>0, <2>2, PrefixOfMore
  <2> QED BY <2>1, <2>3, ExtendsKeepsSelf
<1> QED BY <1>1, <1>2, <1>3

\* A call that begins, and the cut of a rewind.
LEMMA BeginKeepsSelf ==
  ASSUME SaveInv, SelfInv, Shapes', NEW c \in Saves, NEW r \in Runtimes,
         NEW op \in {"snapshot", "rewind", "strip"}, NEW kept, Begins(c, r, op, kept),
         op # "snapshot" => ~Active(r, {"rewind", "strip"}),
         mem' = mem \/ (op = "rewind" /\ \E t : mem' = [mem EXCEPT ![r].msgs = t])
  PROVE  SelfInv'
<1>1. /\ call[c].pc = "new" /\ mem[r].up
      /\ call' = [call EXCEPT ![c] = [@ EXCEPT !.pc = "enter", !.on = r, !.op = op, !.cap = kept]]
      /\ UNCHANGED <<disk, mu, locked, made, faults, acked, cut, removed, wrote>>
  BY DEF Begins
<1>2. mem \in [Runtimes -> MemShape] /\ call \in [Saves -> CallShape] /\ mem[r].msgs \in Transcript
  BY DEF SaveInv, Shapes, MemShape
<1>3. /\ call'[c].pc = "enter" /\ call'[c].on = r /\ call'[c].op = op /\ call'[c].end = call[c].end
      /\ \A d \in Saves \ {c} : call'[d] = call[d]
  BY <1>1, <1>2 DEF CallShape
<1>4. /\ StepsInMemory(r) /\ KeepsBase(r) /\ mem'[r].rw = mem[r].rw
      /\ mem' = mem \/ op = "rewind"
  <2>1. Joining(c, r)
    BY <1>1, <1>3 DEF Joining
  <2>2. /\ \A s \in Runtimes \ {r} : mem'[s] = mem[s]
        /\ KeepsBase(r) /\ mem'[r].rw = mem[r].rw /\ (mem' = mem \/ op = "rewind")
    <3>1. CASE mem' = mem
      BY <3>1 DEF KeepsBase
    <3>2. CASE op = "rewind" /\ \E t : mem' = [mem EXCEPT ![r].msgs = t]
      BY <1>2, <3>2 DEF KeepsBase, MemShape
    <3> QED BY <3>1, <3>2
  <2> QED BY <1>1, <1>3, <2>1, <2>2 DEF StepsInMemory
<1>5. /\ Active(r, {"rewind"}) => Active(r, {"rewind"})'
      /\ op = "rewind" => Active(r, {"rewind"})'
      /\ StripsOn(r) => StripsOn(r)'
  BY <1>1, <1>3 DEF Active, StripsOn, Inside, Writing
<1>6. (Edits(r) => Edits(r)') /\ (op = "rewind" => Edits(r)')
  <2>1. NeedsRewrite(r)' <=> NeedsRewrite(r)
    BY <1>4 DEF NeedsRewrite, KeepsBase
  <2> QED BY <1>4, <1>5, <2>1, RewritesFailNot DEF Edits
<1>7. mem' = mem => IsPrefix(mem[r].msgs, mem'[r].msgs)
  BY <1>2, PrefixItself
<1>8. LineOK(r)'
  BY <1>4, <1>6, <1>7, LineStays
<1>9. \A d \in Saves : call'[d].on = r /\ call'[d].pc \in Inside =>
          PlaceOK(d)' /\ CaptureOK(d)' /\ NextOK(d)' /\ FightOK(d)'
  <2> SUFFICES ASSUME NEW d \in Saves, call'[d].on = r, call'[d].pc \in Inside
               PROVE  PlaceOK(d)' /\ CaptureOK(d)' /\ NextOK(d)' /\ FightOK(d)'
    OBVIOUS
  <2>1. call'[d] = call[d]
    BY <1>3 DEF Inside, Writing
  <2> QED BY <1>4, <1>5, <1>6, <1>7, <2>1, CallsStay
<1>10. CalmOK => KnownOK(r)'
  BY <1>4, KnownStays DEF CalmOK
<1>11. \A d, e \in Saves : EditOf(d, r)' /\ EditOf(e, r)' => d = e
  <2>1. \A d \in Saves \ {c} : EditOf(d, r)' => EditOf(d, r)
    BY <1>3 DEF EditOf
  <2>2. op = "snapshot" => ~EditOf(c, r)'
    BY <1>3 DEF EditOf
  <2>3. op # "snapshot" => \A d \in Saves : ~EditOf(d, r)
    BY ActiveIs
  <2>4. \A d, e \in Saves : EditOf(d, r) /\ EditOf(e, r) => d = e
    BY DEF SelfInv, EditsOK
  <2> QED BY <2>1, <2>2, <2>3, <2>4
<1>12. mem'[r].up
  BY <1>1, <1>4 DEF KeepsBase
<1> QED BY <1>4, <1>8, <1>9, <1>10, <1>11, <1>12, MemoryStepKeepsSelf

\* A call that enters, and what a late cleanup puts back.
LEMMA EnterKeepsSelf ==
  ASSUME SaveInv, SelfInv, Shapes', NEW c \in Saves, Enter(c)
  PROVE  SelfInv'
<1>1. PICK r \in Runtimes : r = call[c].on /\ mem[r].up /\ call[c].pc = "enter"
  BY DEF Enter, SaveInv, CallsOK, CallOK
<1>2. /\ mem \in [Runtimes -> MemShape] /\ call \in [Saves -> CallShape] /\ mem[r].msgs \in Transcript
  BY DEF SaveInv, Shapes, MemShape
<1>3. /\ mu[r] = Idle /\ UNCHANGED <<disk, locked, faults, wrote>>
      /\ call' = [call EXCEPT ![c] = [@ EXCEPT !.pc = "lock", !.path = mem[r].path,
                !.mode = IF call[c].op # "snapshot" \/ mem[r].rw > mem[r].saved
                         THEN "rewrite" ELSE "snapshot"]]
      /\ mem' = IF call[c].op = "strip" THEN [mem EXCEPT ![r].msgs = call[c].cap] ELSE mem
  BY <1>1 DEF Enter, Replaced
<1>4. /\ call'[c].pc = "lock" /\ call'[c].on = r /\ call'[c].op = call[c].op /\ call'[c].end = call[c].end
      /\ call'[c].path = mem[r].path
      /\ call'[c].mode = IF call[c].op # "snapshot" \/ mem[r].rw > mem[r].saved THEN "rewrite" ELSE "snapshot"
      /\ \A d \in Saves \ {c} : call'[d] = call[d]
  BY <1>1, <1>2, <1>3 DEF CallShape
<1>5. /\ StepsInMemory(r) /\ KeepsBase(r) /\ mem'[r].rw = mem[r].rw
      /\ call[c].op = "strip" \/ mem' = mem
  <2>1. Joining(c, r)
    BY <1>1, <1>4 DEF Joining
  <2>2. /\ \A s \in Runtimes \ {r} : mem'[s] = mem[s]
        /\ KeepsBase(r) /\ mem'[r].rw = mem[r].rw /\ (call[c].op = "strip" \/ mem' = mem)
    <3>1. CASE mem' = mem
      BY <3>1 DEF KeepsBase
    <3>2. CASE call[c].op = "strip" /\ mem' = [mem EXCEPT ![r].msgs = call[c].cap]
      BY <1>2, <3>2 DEF KeepsBase, MemShape
    <3> QED BY <1>3, <3>1, <3>2
  <2> QED BY <1>3, <1>4, <2>1, <2>2 DEF StepsInMemory
<1>6. /\ Active(r, {"rewind"}) => Active(r, {"rewind"})'
      /\ StripsOn(r) => StripsOn(r)'
      /\ call[c].op = "strip" => StripsOn(r)'
  BY <1>1, <1>4 DEF Active, StripsOn, Inside, Writing
<1>7. NeedsRewrite(r)' <=> NeedsRewrite(r)
  BY <1>5 DEF NeedsRewrite, KeepsBase
<1>8. (Edits(r) => Edits(r)') /\ (call[c].op = "strip" => Edits(r)')
  BY <1>5, <1>6, <1>7, RewritesFailNot DEF Edits
<1>9. mem' = mem => IsPrefix(mem[r].msgs, mem'[r].msgs)
  BY <1>2, PrefixItself
<1>10. LineOK(r)'
  BY <1>5, <1>8, <1>9, LineStays
<1>11. \A d \in Saves : call'[d].on = r /\ call'[d].pc \in Inside =>
          PlaceOK(d)' /\ CaptureOK(d)' /\ NextOK(d)' /\ FightOK(d)'
  <2> SUFFICES ASSUME NEW d \in Saves, call'[d].on = r, call'[d].pc \in Inside
               PROVE  PlaceOK(d)' /\ CaptureOK(d)' /\ NextOK(d)' /\ FightOK(d)'
    OBVIOUS
  <2>1. d = c
    <3>1. d # c => call[d].pc \in Inside /\ call[d].on = r
      BY <1>4
    <3>2. call[d].pc \in Inside => mu[call[d].on] = d
      BY DEF SaveInv, CallsOK, CallOK
    <3> QED BY <1>3, <3>1, <3>2
  <2>2. PlaceOK(c)'
    <3>1. call[c].op # "snapshot" \/ NeedsRewrite(r) <=> call'[c].mode = "rewrite"
      BY <1>4 DEF NeedsRewrite
    <3>2. mem'[r].path = mem[r].path
      BY <1>5 DEF KeepsBase
    <3> QED BY <1>4, <1>7, <3>1, <3>2 DEF PlaceOK, Writing
  <2>3. CaptureOK(c)' /\ NextOK(c)' /\ FightOK(c)'
    BY <1>4 DEF CaptureOK, NextOK, FightOK, Writing, Asking
  <2> QED BY <2>1, <2>2, <2>3
<1>12. CalmOK => KnownOK(r)'
  BY <1>5, KnownStays DEF CalmOK
<1>13. \A d, e \in Saves : EditOf(d, r)' /\ EditOf(e, r)' => d = e
  <2>1. \A d \in Saves : EditOf(d, r)' => EditOf(d, r)
    BY <1>1, <1>4 DEF EditOf
  <2> QED BY <2>1 DEF SelfInv, EditsOK
<1>14. mem'[r].up
  BY <1>1, <1>5 DEF KeepsBase
<1> QED BY <1>5, <1>10, <1>11, <1>12, <1>13, <1>14, MemoryStepKeepsSelf

\* A runtime that starts on a file, which it has not written yet.
LEMMA ResumeKeepsSelf ==
  ASSUME SaveInv, SelfInv, Shapes', NEW r \in Runtimes, NEW p \in DOMAIN disk, Resume(r, p)
  PROVE  SelfInv'
<1>1. /\ ~mem[r].up /\ Stored(File(p)) # <<>> /\ mem' = [mem EXCEPT ![r] = Loaded(p)]
      /\ UNCHANGED <<disk, mu, locked, call, made, faults, acked, cut, removed, wrote>>
      /\ p \in Path
  BY DEF Resume, SaveInv, Shapes
<1>2. mem \in [Runtimes -> MemShape]
  BY DEF SaveInv, Shapes
<1>3. StepsInMemory(r) /\ mem'[r] = Loaded(p)
  BY <1>1, <1>2 DEF StepsInMemory
<1>4. \A d \in Saves : call[d].pc \in {"new", "done"} \/ call[d].on # r
  BY <1>1 DEF SaveInv, CallsOK, CallOK
<1>5. PICK t, n : t = Stored(File(p)) /\ t \in Transcript /\ n = File(p).rev
  BY <1>1, FileIsOne DEF SaveInv
<1>6. /\ mem'[r].path = p /\ mem'[r].msgs = Normalize(t) /\ mem'[r].base = Base(p, Normalize(t), n)
  BY <1>3, <1>5 DEF Loaded
<1>7. /\ Base(p, Normalize(t), n).ok /\ Base(p, Normalize(t), n).path = p
      /\ Base(p, Normalize(t), n).msgs = Normalize(t) /\ Base(p, Normalize(t), n).rev = n
  BY DEF Base
<1>8. Stored(File(p))' = t /\ (File(p).rev)' = n
  <2>1. File(p)' = File(p)
    BY <1>3, OthersSeeNothing
  <2> QED BY <1>5, <2>1 DEF Stored
<1>9. LineOK(r)'
  <2>1. IsPrefix(Normalize(t), Normalize(t))
    BY <1>5, NormalizeKeeps, PrefixItself
  <2> QED BY <1>6, <1>7, <1>8, <2>1, LineIs
<1>10. CalmOK => KnownOK(r)'
  <2> SUFFICES ASSUME CalmOK
               PROVE  KnownOK(r)'
    OBVIOUS
  <2>1. r \notin SetOf(wrote, p)
    BY <1>1 DEF CalmOK, SetOf
  <2>2. Solo(r, p)' => p = <<>>
    <3>1. Solo(r, p)' <=> Solo(r, p)
      BY <1>3, OthersSeeNothing
    <3>2. p # <<>> => SetOf(wrote, p) # {}
      BY <1>1 DEF SelfInv, BytesOK
    <3> QED BY <2>1, <3>1, <3>2 DEF Solo
  <2> QED BY <1>6, <1>7, <1>8, <2>2, KnownIsKept
<1>11. \A d \in Saves : call'[d].on # r \/ call'[d].pc \notin Inside
  BY <1>1, <1>4 DEF Inside, Writing
<1>12. \A d, e \in Saves : EditOf(d, r)' /\ EditOf(e, r)' => d = e
  BY <1>1, <1>4 DEF EditOf
<1> QED BY <1>1, <1>3, <1>9, <1>10, <1>11, <1>12, MemoryStepKeepsSelf

\* A crash, the start, and a step that changes nothing.
LEMMA DeathKeepsSelf ==
  ASSUME SaveInv, SelfInv, ProcessDies
  PROVE  SelfInv'
<1>1. /\ faults' = faults + 1 /\ faults \in Nat
      /\ mem' = [r \in Runtimes |-> Down]
      /\ locked' = [p \in DOMAIN locked |-> Idle]
      /\ call' = [c \in Saves |-> IF call[c].pc \in {"new", "done"} THEN call[c]
                                  ELSE Ended(call[c], "crashed")]
      /\ UNCHANGED <<disk, made, acked, cut, removed, wrote>>
  BY DEF ProcessDies, Fault, SaveInv, Shapes
<1>2. \A c \in Saves : call'[c].pc \in {"new", "done"}
  BY <1>1 DEF Ended, NewCall
<1>3. EditsOK'
  BY <1>2 DEF EditsOK, EditOf
<1>4. LocksOK'
  BY <1>1 DEF LocksOK, Holder
<1>5. BytesOK'
  BY <1>1 DEF SelfInv, BytesOK, File, Stored, SetOf
<1>6. \A c \in Saves : PlaceOK(c)' /\ CaptureOK(c)' /\ NextOK(c)' /\ FightOK(c)' /\ WriterOK(c)'
  BY <1>2, DoneIsSilent
<1>7. \A r \in Runtimes : LineOK(r)'
  BY <1>1 DEF LineOK, Down
<1>8. faults' # 0
  BY <1>1
<1> QED BY <1>3, <1>4, <1>5, <1>6, <1>7, <1>8 DEF SelfInv

LEMMA SelfStartsWell ==
  ASSUME SaveInit
  PROVE  SelfInv
<1>1. PICK first \in {LegacyFile, BranchFile} : disk = OnlyOriginal(first)
  BY DEF SaveInit
<1>2. /\ mem = [r \in Runtimes |-> Down] /\ locked = OnlyOriginal(Idle) /\ call = [c \in Saves |-> NewCall]
  BY DEF SaveInit
<1>3. \A q : File(q) = IF q = <<>> THEN first ELSE NoFile
  BY <1>1 DEF File, OnlyOriginal
<1>4. /\ Stored(first) = Opening /\ first.digest \in {<<>>, Opening} /\ Opening # <<>>
      /\ Stored(NoFile) = <<>> /\ NoFile.rev = 0 /\ NoFile.digest = <<>>
  BY DEF LegacyFile, BranchFile, NoFile, Stored, Opening
<1>5. /\ \A c \in Saves : call[c].pc = "new" /\ call[c].end = "none"
      /\ \A r \in Runtimes : ~mem[r].up
  BY <1>2 DEF NewCall, Down
<1>6. EditsOK
  BY <1>5 DEF EditsOK, EditOf
<1>7. LocksOK
  BY <1>2 DEF LocksOK, Holder, OnlyOriginal
<1>8. BytesOK
  BY <1>3, <1>4 DEF BytesOK
<1>9. \A c \in Saves : PlaceOK(c) /\ CaptureOK(c) /\ NextOK(c) /\ FightOK(c) /\ WriterOK(c) /\ LedgerOK(c)
  BY <1>5 DEF PlaceOK, CaptureOK, NextOK, FightOK, WriterOK, LedgerOK, Inside, Asking, Writing
<1>10. \A r \in Runtimes : LineOK(r) /\ KnownOK(r)
  BY <1>5 DEF LineOK, KnownOK
<1>11. \A p \in DOMAIN wrote, r \in Runtimes : r \in wrote[p] => mem[r].up
  BY DEF SaveInit, OnlyOriginal
<1>12. DigestsOK
  <2>1. \A p : File(p).digest \in {<<>>, Stored(File(p))}
    BY <1>3, <1>4
  <2> QED BY <2>1 DEF DigestsOK
<1>13. NoFailure
  BY <1>5 DEF NoFailure
<1> QED BY <1>6, <1>7, <1>8, <1>9, <1>10, <1>11, <1>12, <1>13 DEF SelfInv, CalmOK

LEMMA NothingChangesSelf ==
  ASSUME SelfInv, UNCHANGED saveVars
  PROVE  SelfInv'
<1>1. UNCHANGED <<disk, mem, mu, locked, call, made, faults, wrote>>
  BY DEF saveVars
<1>2. (EditsOK' <=> EditsOK) /\ (LocksOK' <=> LocksOK) /\ (BytesOK' <=> BytesOK)
  BY <1>1 DEF EditsOK, EditOf, LocksOK, Holder, BytesOK, File, Stored, SetOf
<1>4. /\ \A c \in Saves : (PlaceOK(c)' <=> PlaceOK(c)) /\ (CaptureOK(c)' <=> CaptureOK(c))
      /\ \A c \in Saves : (NextOK(c)' <=> NextOK(c)) /\ (FightOK(c)' <=> FightOK(c))
      /\ \A c \in Saves : (WriterOK(c)' <=> WriterOK(c)) /\ (LedgerOK(c)' <=> LedgerOK(c))
  BY <1>1 DEF PlaceOK, CaptureOK, NextOK, FightOK, WriterOK, LedgerOK, Solo, SetOf, File, Edits, NeedsRewrite,
              Active, StripsOn, RewriteFailed
<1>5. \A r \in Runtimes : (LineOK(r)' <=> LineOK(r)) /\ (KnownOK(r)' <=> KnownOK(r))
  BY <1>1 DEF LineOK, KnownOK, Solo, SetOf, File, Stored, Edits, NeedsRewrite, Active, StripsOn, RewriteFailed, WritesTo
<1>6. (DigestsOK' <=> DigestsOK) /\ (NoFailure' <=> NoFailure)
  BY <1>1 DEF DigestsOK, NoFailure, Holder, SetOf, File, Stored
<1>7. CalmOK => CalmOK'
  BY <1>1, <1>4, <1>5, <1>6 DEF CalmOK
<1> QED BY <1>1, <1>2, <1>4, <1>5, <1>7 DEF SelfInv

LEMMA MemoryKeepsSelf ==
  ASSUME SaveInv, SelfInv, MemoryStep, Shapes'
  PROVE  SelfInv'
<1>1. CASE \E r \in Runtimes : Add(r) \/ Compact(r)
  BY <1>1, AddKeepsSelf
<1>2. CASE \E r \in Runtimes, p \in DOMAIN disk : Resume(r, p)
  BY <1>2, ResumeKeepsSelf
<1>3. CASE \E c \in Saves : Enter(c)
  BY <1>3, EnterKeepsSelf
<1>4. ASSUME NEW c \in Saves, NEW r \in Runtimes, Snapshot(c, r) \/ Rewind(c, r) \/ Cleanup(c, r)
      PROVE  SelfInv'
  <2>1. CASE Snapshot(c, r)
    <3>1. Begins(c, r, "snapshot", <<>>) /\ mem' = mem
      BY <2>1 DEF Snapshot
    <3> QED BY <3>1, BeginKeepsSelf
  <2>2. CASE Rewind(c, r)
    <3>1. PICK k \in Boundaries(mem[r].msgs) : mem' = [mem EXCEPT ![r].msgs = SubSeq(@, 1, k)]
      BY <2>2 DEF Rewind
    <3>2. mem' = [mem EXCEPT ![r].msgs = SubSeq(mem[r].msgs, 1, k)]
      BY <3>1
    <3>3. Begins(c, r, "rewind", <<>>) /\ ~Active(r, {"rewind", "strip"})
      BY <2>2 DEF Rewind
    <3> QED BY <3>2, <3>3, BeginKeepsSelf
  <2>3. CASE Cleanup(c, r)
    <3>1. PICK k : Begins(c, r, "strip", SubSeq(mem[r].msgs, 1, k)) /\ mem' = mem /\ ~Active(r, {"rewind", "strip"})
      BY <2>3 DEF Cleanup
    <3> QED BY <3>1, BeginKeepsSelf
  <2> QED BY <1>4, <2>1, <2>2, <2>3
<1> QED BY <1>1, <1>2, <1>3, <1>4 DEF MemoryStep

\* Whoever alone wrote a file goes on from its baseline, is allowed what it saves,
\* and so finds itself in conflict with nobody.
LEMMA SelfMeans ==
  ASSUME SaveInv, SelfInv
  PROVE  NoConflictWithOneself
<1> SUFFICES ASSUME NEW c \in Saves, GivesUp(c), ~Active(call[c].on, {"rewind"}),
                    faults = 0 \/ (call[c].mode = "snapshot" /\ ~RewriteFailed)
             PROVE  SetOf(wrote, call[c].path) \ {call[c].on} # {}
  BY DEF NoConflictWithOneself
<1>1. /\ call[c].pc = "conflict" /\ call[c].pc \in Inside /\ call[c].on \in Runtimes /\ call[c] \in CallShape
      /\ ~(call[c].mode = "snapshot" /\ NeedsRewrite(call[c].on))
  BY CallIsOne DEF GivesUp, Inside, SaveInv
<1>2. PICK r \in Runtimes : r = call[c].on
  BY <1>1
<1>3. FightOK(c) /\ PlaceOK(c) /\ (faults = 0 => NoFailure)
  BY DEF SelfInv, CalmOK
<1>4. CASE call[c].mode = "snapshot"
  <2>1. ~RewriteFailed
    BY <1>3 DEF NoFailure, RewriteFailed
  <2>2. ~StripsOn(r)
    <3> SUFFICES ASSUME NEW d \in Saves, call[d].on = r, call[d].op = "strip", call[d].pc \in Inside
                 PROVE  FALSE
      BY DEF StripsOn
    <3>1. d = c
      BY <1>1, <1>2, OneInside
    <3> QED BY <1>1, <1>3, <1>4, <3>1 DEF PlaceOK
  <2>3. ~Edits(r)
    BY <1>1, <1>2, <1>4, <2>1, <2>2 DEF Edits
  <2>4. ~Solo(r, call[c].path)
    BY <1>1, <1>2, <1>3, <1>4, <2>3 DEF FightOK, Asking
  <2> QED BY <1>2, <2>4 DEF Solo
<1>5. CASE call[c].mode = "rewrite"
  <2>1. ~Solo(r, call[c].path)
    BY <1>1, <1>2, <1>3, <1>5 DEF FightOK, Asking
  <2> QED BY <1>2, <2>1 DEF Solo
<1> QED BY <1>1, <1>4, <1>5 DEF CallShape

\* What the call, the runtime and the file of a save are to each other.
THEOREM SelfInvariant == SaveSpec => []SelfInv
<1>1. SaveInit => SelfInv
  BY SelfStartsWell
<1>2. SaveInv /\ SelfInv /\ [SaveNext]_saveVars => SelfInv'
  <2> SUFFICES ASSUME SaveInv, SelfInv, [SaveNext]_saveVars
               PROVE  SelfInv'
    OBVIOUS
  <2>0. Shapes'
    BY ShapesAreKept
  <2>1. CASE MemoryStep
    BY <2>0, <2>1, MemoryKeepsSelf
  <2>2. CASE \E c \in Saves : SaveStep(c)
    BY <2>0, <2>2, SavingKeepsSelf
  <2>3. CASE ProcessDies
    BY <2>3, DeathKeepsSelf
  <2>4. CASE UNCHANGED saveVars
    BY <2>4, NothingChangesSelf
  <2> QED BY <2>1, <2>2, <2>3, <2>4 DEF SaveNext, MemoryStep, SaveStep
<1> QED BY <1>1, <1>2, SavesInvariant, PTL DEF SaveSpec

\* A conflict is with somebody else's bytes: a runtime that alone wrote a file is allowed
\* to save to it whatever it captured, however its writes failed or were cut off
\* (checkSnapshotWrite).
THEOREM NobodyConflictsWithItself == SaveSpec => []NoConflictWithOneself
<1>1. SaveInv /\ SelfInv => NoConflictWithOneself
  BY SelfMeans
<1> QED BY <1>1, SavesInvariant, SelfInvariant, PTL

\* The same of the property as it is checked, with the files and runtimes well formed.
THEOREM NobodyEverFightsItself == SaveSpec => []NobodyFightsItself
<1>1. SavesTypeOK /\ NoConflictWithOneself => NobodyFightsItself
  BY DEF NobodyFightsItself
<1> QED BY <1>1, SavesAreTyped, NobodyConflictsWithItself, PTL
=============================================================================
