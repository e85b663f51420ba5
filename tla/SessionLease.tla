---------------------------- MODULE SessionLease ----------------------------
(***************************************************************************)
(* The lease of one session file among the runtimes of one machine:        *)
(* agent.SessionLease, the removal guard, and the sweeps that retire       *)
(* leftover sidecars.                                                      *)
(*                                                                         *)
(* A lease is three things: an entry in the process's owner map, an OS     *)
(* lock on <session>.lease.lock, and <session>.lease.json naming the       *)
(* holder.  The lock file is opened and locked in two steps, and it is     *)
(* deleted and re-created over the life of a session, so the file a name   *)
(* points to and the file a handle is open on are told apart (inodes).     *)
(* What deleting an open file means is the platform's: unix takes the name *)
(* away at once; windows marks the file, refuses new openers and takes the *)
(* name away with the last handle.                                         *)
(*                                                                         *)
(* Every call of the API is one-shot, runs in one process, and can die     *)
(* with it between any two steps.                                          *)
(***************************************************************************)
EXTENDS Naturals, FiniteSets

CONSTANTS
    Platform,   \* "unix" or "windows": session_lock_unix.go, session_lock_windows.go
    Processes,  \* runtimes: windows, servers, bots of NexusCode
    Calls,      \* calls of the API on this session
    KindOf,     \* what each of them is
    ProcOf,     \* the process it runs in
    Inodes,     \* files the lock file's name may come to point to
    NoOne,      \* no call, no process
    NoInode     \* no file

(***************************************************************************)
(*   acquire    TryAcquireSessionLease, then Release                       *)
(*   reclaim    TryReclaimCurrentProcessSessionLease, then Release         *)
(*   probe      SessionLeaseHeldByOtherRuntime                             *)
(*   sweep      removeStaleSessionLeaseLockSidecar                         *)
(*   infoSweep  removeStaleSessionLeaseInfoSidecar                         *)
(*   remove     TryAcquireSessionRemovalGuard and the end of the guard     *)
(***************************************************************************)
Kinds == {"acquire", "reclaim", "probe", "sweep", "infoSweep", "remove"}

ASSUME LeaseAssumption ==
    /\ Platform \in {"unix", "windows"}
    /\ KindOf \in [Calls -> Kinds]
    /\ ProcOf \in [Calls -> Processes]
    /\ NoOne \notin Calls \cup Processes
    /\ NoInode \notin Inodes

VARIABLES
    owner,   \* sessionLeaseOwners of each process
    info,    \* the process <session>.lease.json names
    name,    \* the file the name <session>.lease.lock points to
    doomed,  \* files marked for deletion (windows)
    fd,      \* the file each call has open
    locker,  \* the call that holds each file's lock
    pc       \* where each call is

fileVars == <<name, doomed, fd, locker>>
vars == <<owner, info, fileVars, pc>>

Leases == {c \in Calls : KindOf[c] \in {"acquire", "reclaim"}}

Init ==
    /\ owner = [p \in Processes |-> NoOne]
    /\ info = NoOne
    /\ name = NoInode /\ doomed = {}
    /\ fd = [c \in Calls |-> NoInode]
    /\ locker = [i \in Inodes |-> NoOne]
    /\ pc = [c \in Calls |-> "new"]

Goto(c, l) == pc' = [pc EXCEPT ![c] = l]

-----------------------------------------------------------------------------
(* Files *)

IsOpen(i) == \E c \in Calls : fd[c] = i

\* sessionLockFile: its windows handle asks for DELETE.
OpenedToDelete(c) == pc[c] \in {"lockToDelete", "guarding", "unlink", "closeDeleted"}

\* os.OpenFile does not share DELETE and CreateFile of sessionLockFile asks for it, so
\* neither opens what the other has open; a doomed file opens for nobody.
MayOpen(toDelete) ==
    Platform = "windows" /\ name # NoInode =>
        /\ name \notin doomed
        /\ \A c \in Calls : fd[c] = name => (OpenedToDelete(c) <=> toDelete)

\* Open the lock file, creating it when the name points nowhere.
Open(c) ==
    \E i \in Inodes :
        /\ IF name = NoInode THEN ~IsOpen(i) ELSE i = name
        /\ name' = i
        /\ fd' = [fd EXCEPT ![c] = i]

\* Unlock, if locked, and close.  Windows takes a doomed file's name away with its
\* last handle.
Close(c) ==
    /\ fd' = [fd EXCEPT ![c] = NoInode]
    /\ locker' = [i \in Inodes |-> IF locker[i] = c THEN NoOne ELSE locker[i]]
    /\ IF fd[c] \in doomed /\ \A d \in Calls \ {c} : fd[d] # fd[c]
       THEN name' = NoInode /\ doomed' = doomed \ {fd[c]}
       ELSE UNCHANGED <<name, doomed>>

\* LOCK_EX | LOCK_NB on the open file.
TryLock(c) ==
    /\ locker[fd[c]] = NoOne
    /\ locker' = [locker EXCEPT ![fd[c]] = c]
    /\ UNCHANGED <<name, doomed, fd>>

\* CompareAndDelete on the process's owner map.
Disown(c) ==
    owner' = [owner EXCEPT ![ProcOf[c]] = IF @ = c THEN NoOne ELSE @]

-----------------------------------------------------------------------------
(* How the calls begin *)

\* TryAcquireSessionLease: LoadOrStore on the owner map.
Claim(c) ==
    /\ KindOf[c] = "acquire" /\ pc[c] = "new"
    /\ IF owner[ProcOf[c]] = NoOne
       THEN owner' = [owner EXCEPT ![ProcOf[c]] = c] /\ Goto(c, "open")
       ELSE Goto(c, "refused") /\ UNCHANGED owner
    /\ UNCHANGED <<info, fileVars>>

\* TryReclaimCurrentProcessSessionLease: the info may be gone, or be this process's.
LookForOrphan(c) ==
    /\ KindOf[c] = "reclaim" /\ pc[c] = "new"
    /\ Goto(c, IF info \in {NoOne, ProcOf[c]} THEN "open" ELSE "refused")
    /\ UNCHANGED <<owner, info, fileVars>>

\* SessionLeaseHeldByOtherRuntime: the lock is tried only against a foreign info.
Probe(c) ==
    /\ KindOf[c] = "probe" /\ pc[c] = "new"
    /\ Goto(c, IF owner[ProcOf[c]] # NoOne \/ info \in {NoOne, ProcOf[c]}
               THEN "done" ELSE "open")
    /\ UNCHANGED <<owner, info, fileVars>>

\* removeStaleSessionLeaseInfoSidecar: without a lock file the info is removed unlocked.
SweepInfo(c) ==
    /\ KindOf[c] = "infoSweep" /\ pc[c] = "new"
    /\ Goto(c, CASE owner[ProcOf[c]] # NoOne -> "done"
                 [] name = NoInode -> "strip"
                 [] OTHER -> "open")
    /\ UNCHANGED <<owner, info, fileVars>>

\* sessionLeaseHeldLocally, before the lock file is opened to be deleted: at the start
\* of a sweep or of a removal, and at the end of Release.
LookLocally(c) ==
    /\ \/ KindOf[c] \in {"sweep", "remove"} /\ pc[c] = "new"
       \/ pc[c] = "retire"
    /\ Goto(c, IF owner[ProcOf[c]] # NoOne THEN "done" ELSE "openToDelete")
    /\ UNCHANGED <<owner, info, fileVars>>

-----------------------------------------------------------------------------
(* tryLockSessionLeaseFile *)

\* Where a call goes on with the lock, and where without.
Locked(c) ==
    CASE KindOf[c] = "acquire" -> "save"
      [] KindOf[c] = "reclaim" -> "own"
      [] OTHER -> "strip"

NotLocked(c) ==
    CASE KindOf[c] = "acquire" -> "giveup"
      [] KindOf[c] = "reclaim" -> "refused"
      [] OTHER -> "done"

OpenLock(c) ==
    /\ pc[c] = "open"
    /\ IF MayOpen(FALSE)
       THEN Open(c) /\ Goto(c, "lock")
       ELSE Goto(c, NotLocked(c)) /\ UNCHANGED <<name, fd>>
    /\ UNCHANGED <<owner, info, doomed, locker>>

Lock(c) ==
    /\ pc[c] = "lock"
    /\ IF locker[fd[c]] = NoOne
       THEN TryLock(c) /\ Goto(c, Locked(c))
       ELSE Close(c) /\ Goto(c, NotLocked(c))
    /\ UNCHANGED <<owner, info>>

-----------------------------------------------------------------------------
(* Holding and releasing a lease *)

\* A reclaimed lease overwrites the orphaned entry.
Own(c) ==
    /\ pc[c] = "own"
    /\ owner' = [owner EXCEPT ![ProcOf[c]] = c]
    /\ Goto(c, "save")
    /\ UNCHANGED <<info, fileVars>>

\* Mutant: the info names the lease.
SaveInfoOfLease(c) ==
    /\ pc[c] = "save"
    /\ \/ info' = c /\ Goto(c, "held")
       \/ UNCHANGED info /\ Goto(c, "release")
    /\ UNCHANGED <<owner, fileVars>>

\* SaveSessionLeaseInfo; when it fails the lease is released again.
SaveInfo(c) ==
    /\ pc[c] = "save"
    /\ \/ info' = ProcOf[c] /\ Goto(c, "held")
       \/ UNCHANGED info /\ Goto(c, "release")
    /\ UNCHANGED <<owner, fileVars>>

\* Release removes the info,
Release(c) ==
    /\ pc[c] \in {"held", "release"}
    /\ info' = NoOne
    /\ Goto(c, "unlock")
    /\ UNCHANGED <<owner, fileVars>>

\* ... unlocks and closes the lock file,
Unlock(c) ==
    /\ pc[c] = "unlock"
    /\ Close(c)
    /\ Goto(c, "disown")
    /\ UNCHANGED <<owner, info>>

\* Mutant: the entry is deleted whoever owns it.
ForgetOwnerBlindly(c) ==
    /\ pc[c] \in {"disown", "giveup"}
    /\ owner' = [owner EXCEPT ![ProcOf[c]] = NoOne]
    /\ Goto(c, IF pc[c] = "disown" THEN "retire" ELSE "refused")
    /\ UNCHANGED <<info, fileVars>>

\* Mutant: a failed acquire leaves its entry behind.
ForgetOwnerAfterReleaseOnly(c) ==
    /\ pc[c] \in {"disown", "giveup"}
    /\ IF pc[c] = "disown" THEN Disown(c) ELSE UNCHANGED owner
    /\ Goto(c, IF pc[c] = "disown" THEN "retire" ELSE "refused")
    /\ UNCHANGED <<info, fileVars>>

\* ... and gives up its owner entry, as a failed acquire does.
ForgetOwner(c) ==
    /\ pc[c] \in {"disown", "giveup"}
    /\ Disown(c)
    /\ Goto(c, IF pc[c] = "disown" THEN "retire" ELSE "refused")
    /\ UNCHANGED <<info, fileVars>>

\* A lease is dropped without Release; the runtime closes its file some time later.
DropLease(c) ==
    /\ pc[c] = "held"
    /\ Close(c)
    /\ Goto(c, "dropped")
    /\ UNCHANGED <<owner, info>>

-----------------------------------------------------------------------------
(* Deleting the lock file: tryTakeSessionLockFile, RemoveAndUnlock *)

OpenToDelete(c) ==
    /\ pc[c] = "openToDelete"
    /\ IF MayOpen(TRUE)
       THEN Open(c) /\ Goto(c, "lockToDelete")
       ELSE Goto(c, "done") /\ UNCHANGED <<name, fd>>
    /\ UNCHANGED <<owner, info, doomed, locker>>

LockToDelete(c) ==
    /\ pc[c] = "lockToDelete"
    /\ IF locker[fd[c]] = NoOne
       THEN TryLock(c) /\ Goto(c, IF KindOf[c] = "remove" THEN "guarding" ELSE "unlink")
       ELSE Close(c) /\ Goto(c, "done")
    /\ UNCHANGED <<owner, info>>

\* SessionRemovalGuard.Release, also when the save lock is taken
GuardReleased(c) ==
    /\ pc[c] = "guarding"
    /\ Goto(c, "closeDeleted")
    /\ UNCHANGED <<owner, info, fileVars>>

\* RemoveSidecarsAndRelease: the info goes first.
GuardRemovesInfo(c) ==
    /\ pc[c] = "guarding"
    /\ info' = NoOne
    /\ Goto(c, "unlink")
    /\ UNCHANGED <<owner, fileVars>>

\* Mutant: windows deletes by name as well.
UnlinkByName(c) ==
    /\ pc[c] = "unlink"
    /\ name' = NoInode
    /\ Goto(c, "closeDeleted")
    /\ UNCHANGED <<owner, info, doomed, fd, locker>>

\* Unix unlinks whatever the name points to; windows marks the file that is open.
Unlink(c) ==
    /\ pc[c] = "unlink"
    /\ IF Platform = "unix"
       THEN name' = NoInode /\ UNCHANGED doomed
       ELSE doomed' = doomed \cup {fd[c]} /\ UNCHANGED name
    /\ Goto(c, "closeDeleted")
    /\ UNCHANGED <<owner, info, fd, locker>>

CloseDeleted(c) ==
    /\ pc[c] = "closeDeleted"
    /\ Close(c)
    /\ Goto(c, "done")
    /\ UNCHANGED <<owner, info>>

-----------------------------------------------------------------------------
(* What a probe and an info sweep do under the lock, or a sweep without it *)

StripInfo(c) ==
    /\ pc[c] = "strip"
    /\ info' = NoOne
    /\ Goto(c, "close")
    /\ UNCHANGED <<owner, fileVars>>

CloseLock(c) ==
    /\ pc[c] = "close"
    /\ Close(c)
    /\ Goto(c, "done")
    /\ UNCHANGED <<owner, info>>

-----------------------------------------------------------------------------
Over == {"done", "refused", "dropped", "crashed"}

\* A process dies: its memory and its handles are gone, its files are not.
Crash(p) ==
    LET dead == {c \in Calls : ProcOf[c] = p} IN
    /\ \E c \in dead : pc[c] \notin {"new"} \cup Over
    /\ owner' = [owner EXCEPT ![p] = NoOne]
    /\ pc' = [c \in Calls |-> IF c \in dead THEN "crashed" ELSE pc[c]]
    /\ fd' = [c \in Calls |-> IF c \in dead THEN NoInode ELSE fd[c]]
    /\ locker' = [i \in Inodes |-> IF locker[i] \in dead THEN NoOne ELSE locker[i]]
    /\ LET gone == {i \in doomed : \A c \in Calls : fd'[c] # i}
       IN  doomed' = doomed \ gone /\ name' = IF name \in gone THEN NoInode ELSE name
    /\ UNCHANGED info

CallStep(c) ==
    \/ Claim(c) \/ LookForOrphan(c) \/ Probe(c) \/ SweepInfo(c) \/ LookLocally(c)
    \/ OpenLock(c) \/ Lock(c)
    \/ Own(c) \/ SaveInfo(c) \/ Release(c) \/ Unlock(c) \/ ForgetOwner(c) \/ DropLease(c)
    \/ OpenToDelete(c) \/ LockToDelete(c) \/ GuardReleased(c) \/ GuardRemovesInfo(c)
    \/ Unlink(c) \/ CloseDeleted(c)
    \/ StripInfo(c) \/ CloseLock(c)

Next ==
    \/ \E c \in Calls : CallStep(c)
    \/ \E p \in Processes : Crash(p)

Spec == Init /\ [][Next]_vars

-----------------------------------------------------------------------------
(* Properties *)

PCs == {"new", "open", "lock", "own", "save", "held", "release", "unlock", "disown", "giveup",
        "retire", "openToDelete", "lockToDelete", "guarding", "unlink", "closeDeleted",
        "strip", "close"} \cup Over

\* Every variable keeps its type.
TypeOK ==
    /\ owner \in [Processes -> Calls \cup {NoOne}]
    /\ info \in Processes \cup {NoOne}
    /\ name \in Inodes \cup {NoInode} /\ doomed \subseteq Inodes
    /\ fd \in [Calls -> Inodes \cup {NoInode}]
    /\ locker \in [Inodes -> Calls \cup {NoOne}]
    /\ pc \in [Calls -> PCs]

\* The calls that rely on having the session to themselves: a lease from the moment its
\* lock is taken until it is released, a removal guard while it guards.
Holding(c) == pc[c] \in {"own", "save", "held", "release", "unlock", "guarding"}

Holders == {c \in Calls : Holding(c)}

Mutex == INSTANCE Exclusive WITH Users <- Calls, holders <- Holders

\* The lease and the removal guard are one lock across all runtimes, whatever is swept,
\* re-created or left by a crash: "a concurrent saver can never acquire a lock file that
\* is being deleted under it".
LeaseIsExclusive == Mutex!Spec

\* A reclaim of process p has stored its entry.
Reclaimed(p) ==
    \E r \in Calls : /\ KindOf[r] = "reclaim" /\ ProcOf[r] = p
                     /\ pc[r] \notin {"new", "refused", "open", "lock", "own"}

\* While a lease is held its process's entry is its own: "a racing caller can never evict
\* an entry it does not own", nor can "a stale lease released after its entry was
\* reclaimed".  What a reclaim overwrites may be the entry of an acquire on its way.
EntryIsTheHolders ==
    \A c \in Leases : pc[c] \in {"save", "held", "release", "unlock"} =>
        owner[ProcOf[c]] = c \/ (KindOf[c] = "acquire" /\ Reclaimed(ProcOf[c]))

\* "No info file means no holder: live holders keep it present for their whole hold."
InfoNamesHolder ==
    \A c \in Leases : pc[c] = "held" => info = ProcOf[c]

\* Whatever way a call ends, it leaves no lock, no open file and, unless it was dropped,
\* no owner entry behind; so nobody is refused for a session nobody holds.
NothingLeftBehind ==
    \A c \in Calls : pc[c] \in Over =>
        /\ fd[c] = NoInode /\ \A i \in Inodes : locker[i] # c
        /\ pc[c] # "dropped" => owner[ProcOf[c]] # c

\* While a lease is held its entry names it, and once a call is over no entry, lock or open
\* file of it is left (TryAcquireSessionLease, Release).  The variables have their types.
LeasesLeaveNoTrace ==
  /\ TypeOK
  /\ EntryIsTheHolders
  /\ NothingLeftBehind
=============================================================================
