------------------------- MODULE CheckpointsProofs -------------------------
(***************************************************************************)
(* Proofs about Checkpoints.  Where a boundary points and which contents a *)
(* code rewind finds are facts about four copies of the conversation (the  *)
(* memory, the session file, the store and its directory) that a restart   *)
(* trades for each other; the invariant says how far each may lag.         *)
(***************************************************************************)
EXTENDS Checkpoints, TLAPS, WellFoundedInduction, SequenceTheorems

(***************************************************************************)
(* The inductive invariant.                                                *)
(***************************************************************************)
Kinds == {"rewinds", "folds", "summaries", "forks", "faults", "restarts"}
Scopes == {"code", "conversation", "both"}
Rounds == [start : 0..MaxMessages, keep : BOOLEAN]
Talks == {ms \in Seq(Messages) : Len(ms) <= MaxMessages}
IsFunction(f) == f = [x \in DOMAIN f |-> f[x]]

\* A checkpoint stored under turn t when n turns have begun: its turn was at
\* least the t+1st to begin.
IsCheckpoint(cp, t, n) ==
  /\ cp = [uid |-> cp.uid, index |-> cp.index, snaps |-> cp.snaps]
  /\ cp.uid \in 1..n /\ t < cp.uid /\ cp.index \in 0..MaxMessages
  /\ IsFunction(cp.snaps) /\ DOMAIN cp.snaps \subseteq Paths
  /\ \A p \in DOMAIN cp.snaps : cp.snaps[p] \in 0..MaxEdits
IsStore(cps, n) ==
  /\ IsFunction(cps) /\ DOMAIN cps \subseteq Turns
  /\ \A t \in DOMAIN cps : IsCheckpoint(cps[t], t, n)

InTurn == mode \in {"turn", "over", "saving"}

ControlOK ==
  /\ mode \in {"idle", "turn", "over", "saving", "restore", "remove", "down"}
  /\ job = [turn |-> job.turn, scope |-> job.scope, todo |-> job.todo, failed |-> job.failed]
  /\ marker \in Rounds \cup {NoRound} /\ round \in Rounds \cup {NoRound}
  /\ InTurn => round \in Rounds
  /\ used \in [Kinds -> Nat] /\ dirty \in BOOLEAN
DataOK ==
  /\ msgs \in Talks /\ transcript \in Talks
  /\ files \in Files /\ edits \in 0..MaxEdits
StoreOK ==
  /\ m = [turn |-> m.turn, bound |-> m.bound, cps |-> m.cps, cur |-> m.cur]
  /\ m.turn \in 0..Len(past) /\ m.cur \in DOMAIN m.cps \cup {NoTurn}
  /\ IsStore(m.cps, Len(past)) /\ IsStore(disk, Len(past))
HistoryOK ==
  /\ past \in Seq([msgs : Talks, files : Files]) /\ Len(past) <= MaxTurns
  /\ exact \subseteq 1..Len(past) /\ clean \subseteq 1..Len(past) /\ folded \subseteq 1..Len(past)
Shapes == ControlOK /\ DataOK /\ StoreOK /\ HistoryOK

\* A turn writes to the last checkpoint there is.
TurnIsLast ==
  InTurn => m.cur \in DOMAIN m.cps /\ \A t \in DOMAIN m.cps : t <= m.cur

\* The turns whose start is still where their checkpoint says.
Live == exact \ folded
StartsIn(ms, cp, ps) == cp.index <= Len(ms) /\ Prefix(ms, cp.index) = ps[cp.uid].msgs

\* A boundary is the index of its checkpoint, and is withdrawn by a summary.
BoundInv ==
  \A t \in DOMAIN m.bound :
    /\ t \in DOMAIN m.cps /\ m.bound[t] = m.cps[t].index
    /\ m.cps[t].uid \in exact => m.cps[t].uid \in Live

\* Memory against store: every live turn starts where its checkpoint says, and
\* before the running round.
MemoryInv ==
  \A t \in DOMAIN m.cps :
    m.cps[t].uid \in Live =>
      /\ StartsIn(msgs, m.cps[t], past)
      /\ InTurn => m.cps[t].index <= round.start

\* Directory against store: a live turn in the directory is in the store, too,
\* or waits for its removal.
DiskInv ==
  mode # "down" =>
    \A t \in DOMAIN disk :
      disk[t].uid \in exact =>
        \/ /\ t \in DOMAIN m.cps
           /\ m.cps[t].uid = disk[t].uid /\ m.cps[t].index = disk[t].index
        \/ mode = "remove" /\ t \in job.todo

\* The mark of the running round is that round.
MarkInv ==
  /\ mode \in {"turn", "over"} => marker = round
  /\ mode \in {"idle", "saving", "restore", "remove"} => marker = NoRound

\* Session file against store and directory: what a restart would load starts a
\* live turn where its checkpoint says, and does so when the marked round is
\* stripped.
Written(cp) == StartsIn(transcript, cp, past) /\ (marker # NoRound => cp.index <= marker.start)
FileInv ==
  ~dirty =>
    /\ \A t \in DOMAIN m.cps : m.cps[t].uid \in Live => Written(m.cps[t])
    /\ \A t \in DOMAIN disk : disk[t].uid \in Live => Written(disk[t])

\* Session file against memory.
SavedInv ==
  /\ mode = "down" => ~dirty
  /\ mode \in {"idle", "restore"} /\ ~dirty => transcript = msgs
  /\ InTurn /\ used["folds"] = 0 =>
       /\ round.start <= Len(msgs)
       /\ ~dirty => /\ round.start <= Len(transcript) /\ Len(transcript) <= Len(msgs)
                    /\ transcript = Prefix(msgs, Len(transcript))

\* The rewind in hand: what it has written, what it has left to write.
JobInv ==
  /\ mode \notin {"restore", "remove"} => job = NoJob
  /\ mode = "restore" =>
       /\ job.turn \in DOMAIN m.cps /\ job.todo \subseteq Touched(m.cps, job.turn)
       /\ job.scope = "conversation" => job.todo = {}
       /\ job.scope # "conversation" =>
            /\ \A t \in DOMAIN m.cps : t > job.turn => m.cps[t].uid \notin clean
            /\ \A p \in Touched(m.cps, job.turn) \ job.todo :
                 job.failed \/ files[p] = Earliest(m.cps, job.turn, p)

\* What a code rewind to turn t of cps leaves in p of the files fs, and that
\* this is what p held when the turn began, for the turns of S.
Restored(cps, fs, t, p) == IF p \in Touched(cps, t) THEN Earliest(cps, t, p) ELSE fs[p]
Restores(cps, fs, ps, S) ==
  \A t \in DOMAIN cps :
    cps[t].uid \in S => \A p \in Paths : ps[cps[t].uid].files[p] = Restored(cps, fs, t, p)
CodeInv ==
  Restores(m.cps, files, past, clean) /\ (mode = "down" => Restores(disk, files, past, clean))

\* Without a failed write the directory has the checkpoints of the store and
\* those a rewind is removing.
FollowInv ==
  used["faults"] = 0 /\ mode # "down" =>
    m.cps = IF mode = "remove" THEN Without(disk, job.todo) ELSE disk

IInv ==
  /\ Shapes /\ NumbersAreFresh /\ TurnIsLast
  /\ BoundInv /\ MemoryInv /\ DiskInv /\ MarkInv /\ FileInv /\ SavedInv
  /\ JobInv /\ CodeInv /\ FollowInv

(***************************************************************************)
(* Least and greatest elements, and what a filter keeps.                   *)
(***************************************************************************)
\* The naturals below a natural are those the library's order relates to it.
LEMMA Below == \A x, y \in Nat : y < x => <<y, x>> \in OpToRel(<, Nat)
  BY Zenon DEF OpToRel

\* A set of naturals that is not empty has a least element.
LEMMA Least ==
  ASSUME NEW S, S \subseteq Nat, S # {}
  PROVE  \E x \in S : \A y \in S : x <= y
<1>1. PICK x \in S : \A y \in S : ~(<<y, x>> \in OpToRel(<, Nat))
  BY NatLessThanWellFounded, WFMin
<1>2. \A y \in S : ~(y < x)
  BY <1>1, Below
<1>3. QED
  BY <1>2

\* Min of such a set is that element.
LEMMA MinIsLeast ==
  ASSUME NEW S, S \subseteq Nat, S # {}
  PROVE  Min(S) \in S /\ \A y \in S : Min(S) <= y
  BY Least DEF Min

\* A set of naturals that is not empty and bounded has a greatest element,
\* which is its Max.
LEMMA MaxIsGreatest ==
  ASSUME NEW n \in Nat, NEW S, S \subseteq 0..n, S # {}
  PROVE  Max(S) \in S /\ \A x \in S : x <= Max(S)
<1> DEFINE Above == {k \in Nat : \A x \in S : x <= k}
<1>1. Above \subseteq Nat /\ Above # {}
  <2>1. n \in Above
    OBVIOUS
  <2>2. QED
    BY <2>1
<1> HIDE DEF Above
<1>2. PICK k \in Above : \A y \in Above : k <= y
  BY <1>1, Least
<1>3. k \in S
  <2>1. CASE k = 0
    <3>1. \A x \in S : x \in 0..n /\ x <= 0
      BY <2>1, <1>2 DEF Above
    <3>2. \A x \in S : x = 0
      BY <3>1
    <3>3. QED
      BY <3>2, <2>1
  <2>2. CASE k # 0
    <3> SUFFICES ASSUME k \notin S PROVE FALSE
      OBVIOUS
    <3>1. k - 1 \in Above
      BY <2>2, <1>2 DEF Above
    <3>2. QED
      BY <3>1, <1>2, <1>1
  <2>3. QED
    BY <2>1, <2>2
<1>4. QED
  BY <1>2, <1>3 DEF Max, Above

\* What a compaction keeps of a transcript is a transcript: by induction on its
\* length the recursive function of Kept exists, and its values are sequences.
LEMMA KeptIsSeq ==
  ASSUME NEW S, NEW ms \in Seq(S)
  PROVE  Kept(ms) \in Seq(S)
<1> DEFINE N == Len(ms)
           Next1(f, i) == IF i = 0 THEN <<>> ELSE IF ms[i] >= 0 THEN Append(f[i - 1], ms[i]) ELSE f[i - 1]
           Solves(f, n) == \A i \in 0..n : f[i] = Next1(f, i)
           None == {n \in 0..N : ~\E f \in [0..n -> Seq(S)] : Solves(f, n)}
<1>1. N \in Nat /\ \A i \in 1..N : ms[i] \in S
  OBVIOUS
<1>2. None = {}
  <2> SUFFICES ASSUME None # {} PROVE FALSE
    OBVIOUS
  <2>1. None \subseteq Nat
    BY <1>1
  <2> HIDE DEF None
  <2>2. PICK n \in None : \A k \in None : n <= k
    BY <2>1, Least
  <2>3. n \in 0..N /\ n # 0
    <3>1. Solves([i \in 0..0 |-> <<>>], 0) /\ [i \in 0..0 |-> <<>>] \in [0..0 -> Seq(S)]
      OBVIOUS
    <3>2. 0 \notin None
      BY <3>1 DEF None
    <3>3. QED
      BY <3>2, <2>2 DEF None
  <2>4. PICK f \in [0..n - 1 -> Seq(S)] : Solves(f, n - 1)
    <3>1. n - 1 \in 0..N /\ n - 1 \notin None
      BY <2>2, <2>3, <1>1
    <3> HIDE DEF Solves
    <3>2. QED
      BY <3>1 DEF None
  <2> DEFINE g == [i \in 0..n |-> IF i = n THEN Next1(f, n) ELSE f[i]]
  <2>5. Next1(f, n) \in Seq(S)
    BY <2>3, <2>4, <1>1
  <2>6. g \in [0..n -> Seq(S)]
    BY <2>3, <2>4, <2>5
  <2>7. Solves(g, n)
    <3> SUFFICES ASSUME NEW i \in 0..n PROVE g[i] = Next1(g, i)
      OBVIOUS
    <3>1. CASE i = n
      BY <3>1, <2>3
    <3>2. CASE i # n
      <4>0. i \in 0..n - 1
        BY <3>2, <2>3, <1>1
      <4> HIDE DEF Next1
      <4>1. i \in 0..n - 1 /\ g[i] = f[i] /\ f[i] = Next1(f, i)
        BY <4>0, <3>2, <2>4
      <4> USE DEF Next1
      <4>2. i = 0 \/ (i - 1 \in 0..n - 1 /\ g[i - 1] = f[i - 1])
        BY <4>1, <2>3, <1>1
      <4>3. QED
        BY <4>1, <4>2
    <3>3. QED
      BY <3>1, <3>2
  <2>8. QED
    BY <2>2, <2>6, <2>7 DEF None
<1> DEFINE h == CHOOSE h : h = [i \in 0..N |-> Next1(h, i)]
<1>3. h = [i \in 0..N |-> Next1(h, i)]
  <2>1. PICK f \in [0..N -> Seq(S)] : Solves(f, N)
    <3> HIDE DEF Solves, N
    <3>1. N \in 0..N
      BY <1>1
    <3>2. QED
      BY <3>1, <1>2
  <2>2. f = [i \in 0..N |-> Next1(f, i)]
    BY <2>1
  <2> HIDE DEF Next1
  <2>3. QED
    BY <2>2
<1>4. Kept(ms) = h[N]
  BY DEF Kept
<1> HIDE DEF h
<1> DEFINE Bad == {i \in 0..N : h[i] \notin Seq(S)}
<1>5. Bad = {}
  <2> SUFFICES ASSUME Bad # {} PROVE FALSE
    OBVIOUS
  <2>1. Bad \subseteq Nat
    BY <1>1
  <2> HIDE DEF Bad
  <2>2. PICK n \in Bad : \A k \in Bad : n <= k
    BY <2>1, Least
  <2>3. n \in 0..N /\ h[n] \notin Seq(S)
    BY <2>2 DEF Bad
  <2>4. n = 0 \/ h[n - 1] \in Seq(S)
    BY <2>2, <2>3, <1>1 DEF Bad
  <2>5. QED
    <3>1. h[n] = Next1(h, n)
      <4> HIDE DEF Next1
      <4>1. QED
        BY <2>3, <1>3
    <3>2. n = 0 \/ ms[n] \in S
      BY <2>3, <1>1
    <3>3. QED
      BY <3>1, <3>2, <2>3, <2>4
<1>6. QED
  BY <1>1, <1>4, <1>5

(***************************************************************************)
(* Stores and transcripts.                                                 *)
(***************************************************************************)
\* The bounds are naturals.
LEMMA Bounds ==
  /\ MaxTurns \in Nat /\ MaxMessages \in Nat /\ MaxEdits \in Nat
  /\ Turns = 0..MaxTurns /\ Messages = -MaxTurns..MaxTurns
  BY CheckpointAssumption DEF CheckpointAssumption, Turns, Messages

\* A store stays one when an entry is set or dropped, or more turns have begun.
LEMMA StorePut ==
  ASSUME NEW n \in Nat, NEW cps, IsStore(cps, n), NEW t \in Turns, NEW cp, IsCheckpoint(cp, t, n)
  PROVE  IsStore(With(cps, t, cp), n)
<1> DEFINE g == With(cps, t, cp)
<1>1. /\ DOMAIN g = DOMAIN cps \cup {t} /\ g[t] = cp /\ IsFunction(g)
      /\ \A x \in DOMAIN cps : x # t => g[x] = cps[x]
  BY DEF With, IsFunction
<1> HIDE DEF g
<1>2. IsStore(g, n)
  BY <1>1 DEF IsStore
<1>3. QED
  BY <1>2 DEF g

LEMMA StoreDrop ==
  ASSUME NEW n \in Nat, NEW cps, IsStore(cps, n), NEW S
  PROVE  IsStore(Without(cps, S), n)
<1> DEFINE g == Without(cps, S)
<1>1. DOMAIN g = DOMAIN cps \ S /\ IsFunction(g) /\ \A x \in DOMAIN g : g[x] = cps[x]
  BY DEF Without, IsFunction
<1> HIDE DEF g
<1>2. IsStore(g, n)
  BY <1>1 DEF IsStore
<1>3. QED
  BY <1>2 DEF g

LEMMA StoreGrows ==
  ASSUME NEW n \in Nat, NEW cps, IsStore(cps, n)
  PROVE  IsStore(cps, n + 1)
  BY DEF IsStore, IsCheckpoint

LEMMA EmptyStore ==
  ASSUME NEW n \in Nat
  PROVE  IsStore(Empty, n) /\ DOMAIN Empty = {}
  BY DEF IsStore, Empty, IsFunction

\* The number of a checkpoint is below the turns begun.
LEMMA NumbersAreLow ==
  ASSUME NEW n \in Nat, NEW cps, IsStore(cps, n), NEW t \in DOMAIN cps
  PROVE  t \in 0..n - 1
  BY Bounds DEF IsStore, IsCheckpoint

\* A snapshot changes neither turn nor index, and keeps what is there.
LEMMA SnapOne ==
  ASSUME NEW n \in Nat, NEW t \in Nat, NEW cp, IsCheckpoint(cp, t, n), NEW p \in Paths,
         NEW v \in 0..MaxEdits
  PROVE  /\ IsCheckpoint(Snapped(cp, p, v), t, n)
         /\ Snapped(cp, p, v).uid = cp.uid /\ Snapped(cp, p, v).index = cp.index
         /\ DOMAIN Snapped(cp, p, v).snaps = DOMAIN cp.snaps \cup {p}
         /\ \A q \in DOMAIN cp.snaps : Snapped(cp, p, v).snaps[q] = cp.snaps[q]
         /\ p \notin DOMAIN cp.snaps => Snapped(cp, p, v).snaps[p] = v
<1>1. CASE p \in DOMAIN cp.snaps
  BY <1>1 DEF Snapped
<1>2. CASE p \notin DOMAIN cp.snaps
  <2> DEFINE s == With(cp.snaps, p, v)
  <2>1. Snapped(cp, p, v) = [uid |-> cp.uid, index |-> cp.index, snaps |-> s]
    BY <1>2 DEF Snapped, IsCheckpoint
  <2>2. /\ DOMAIN s = DOMAIN cp.snaps \cup {p} /\ s[p] = v /\ IsFunction(s)
        /\ \A q \in DOMAIN cp.snaps : s[q] = cp.snaps[q]
    <3>1. DOMAIN s = DOMAIN cp.snaps \cup {p} /\ s[p] = v /\ IsFunction(s)
      BY DEF With, IsFunction
    <3>2. \A q \in DOMAIN cp.snaps : q # p => s[q] = cp.snaps[q]
      BY DEF With, IsFunction
    <3>3. QED
      BY <3>1, <3>2, <1>2
  <2> HIDE DEF s
  <2>3. QED
    BY <2>1, <2>2, <1>2 DEF IsCheckpoint
<1>3. QED
  BY <1>1, <1>2

\* The first n messages.
LEMMA PrefixFacts ==
  ASSUME NEW ms \in Talks, NEW n \in 0..Len(ms)
  PROVE  /\ Prefix(ms, n) \in Talks /\ Len(Prefix(ms, n)) = n
         /\ \A i \in 1..n : Prefix(ms, n)[i] = ms[i]
         /\ \A k \in 0..n : Prefix(Prefix(ms, n), k) = Prefix(ms, k)
         /\ Prefix(ms, Len(ms)) = ms
  BY Bounds DEF Prefix, Talks

LEMMA AppendFacts ==
  ASSUME NEW ms \in Talks, Len(ms) < MaxMessages, NEW v \in Messages
  PROVE  /\ Append(ms, v) \in Talks /\ Len(Append(ms, v)) = Len(ms) + 1
         /\ \A n \in 0..Len(ms) : Prefix(Append(ms, v), n) = Prefix(ms, n)
  BY Bounds DEF Prefix, Talks

\* What a cancelled round leaves of a transcript keeps what came before it.
LEMMA StripFacts ==
  ASSUME NEW ms \in Talks, NEW r \in Rounds
  PROVE  /\ Stripped(ms, r) \in Talks
         /\ Len(ms) <= r.start => Stripped(ms, r) = ms
         /\ Len(ms) > r.start => Len(Stripped(ms, r)) >= r.start
         /\ \A n \in 0..Len(ms) :
              n <= r.start => n <= Len(Stripped(ms, r)) /\ Prefix(Stripped(ms, r), n) = Prefix(ms, n)
<1>1. CASE Len(ms) <= r.start
  <2>1. Stripped(ms, r) = ms
    BY <1>1 DEF Stripped
  <2>2. QED
    BY <1>1, <2>1 DEF Talks, Rounds
<1>2. CASE Len(ms) > r.start
  <2> DEFINE prompts == {i \in r.start + 1..Len(ms) : ms[i] > 0}
             cut == Prefix(ms, r.start)
  <2>1. r.start \in 0..Len(ms) /\ Len(ms) \in Nat /\ Len(ms) <= MaxMessages
    BY <1>2 DEF Rounds, Talks
  <2>2. /\ cut \in Talks /\ Len(cut) = r.start
        /\ \A n \in 0..r.start : Prefix(cut, n) = Prefix(ms, n)
    BY <2>1, PrefixFacts
  <2>3. ASSUME prompts # {}
        PROVE  ms[Min(prompts)] \in Messages
    <3>1. prompts \subseteq Nat
      BY <2>1
    <3> HIDE DEF prompts
    <3>2. Min(prompts) \in prompts
      BY <3>1, <2>3, MinIsLeast
    <3>3. QED
      BY <3>2, <2>1 DEF prompts, Talks
  <2>4. Stripped(ms, r) = IF r.keep /\ prompts # {} THEN Append(cut, ms[Min(prompts)]) ELSE cut
    BY <1>2, <2>1 DEF Stripped
  <2> HIDE DEF prompts, cut
  <2>5. CASE r.keep /\ prompts # {}
    <3>1. Len(cut) < MaxMessages
      BY <2>1, <2>2, <1>2, Bounds
    <3>2. /\ Stripped(ms, r) \in Talks /\ Len(Stripped(ms, r)) = r.start + 1
          /\ \A n \in 0..r.start : Prefix(Stripped(ms, r), n) = Prefix(cut, n)
      BY <3>1, <2>2, <2>3, <2>4, <2>5, AppendFacts
    <3>3. QED
      BY <3>2, <2>1, <2>2, <1>2
  <2>6. CASE ~(r.keep /\ prompts # {})
    BY <2>1, <2>2, <2>4, <2>6, <1>2
  <2>7. QED
    BY <2>5, <2>6
<1>3. QED
  BY <1>1, <1>2 DEF Rounds, Talks

(***************************************************************************)
(* The invariant holds initially, and the variables keep their shapes.     *)
(***************************************************************************)
LEMMA InitIInv == Init => IInv
<1> SUFFICES ASSUME Init PROVE IInv
  OBVIOUS
<1>1. Shapes
  <2>1. DataOK
    BY Bounds DEF Init, DataOK, Talks, Files
  <2>2. Len(past) = 0 /\ HistoryOK
    BY Bounds DEF Init, HistoryOK
  <2>3. StoreOK
    BY <2>2, EmptyStore DEF Init, Fresh, NoTurn, StoreOK
  <2>4. ControlOK
    BY DEF Init, NoJob, ControlOK, InTurn, Kinds
  <2>5. QED
    BY <2>1, <2>2, <2>3, <2>4 DEF Shapes
<1>2. NumbersAreFresh /\ TurnIsLast /\ BoundInv /\ MemoryInv /\ DiskInv /\ MarkInv /\ FileInv
  BY EmptyStore DEF Init, Fresh, MarkInv, NumbersAreFresh, TurnIsLast, InTurn, BoundInv, MemoryInv, DiskInv, FileInv
<1>3. SavedInv /\ JobInv /\ FollowInv
  BY EmptyStore DEF Init, Fresh, SavedInv, InTurn, JobInv, FollowInv
<1>4. CodeInv
  BY EmptyStore DEF Init, Fresh, CodeInv, Restores
<1>5. QED
  BY <1>1, <1>2, <1>3, <1>4 DEF IInv

\* A step counted against a bound moves its counter alone.
LEMMA Counted ==
  ASSUME NEW what \in Kinds, NEW max, used \in [Kinds -> Nat], May(what, max)
  PROVE  /\ used' = [used EXCEPT ![what] = @ + 1] /\ used' \in [Kinds -> Nat]
         /\ used'[what] # 0 /\ \A w \in Kinds : w # what => used'[w] = used[w]
<1>1. used' = [used EXCEPT ![what] = @ + 1]
  BY Zenon DEF May
<1>2. QED
  BY <1>1

LEMMA Faulted ==
  ASSUME used \in [Kinds -> Nat], Fails
  PROVE  /\ used' \in [Kinds -> Nat] /\ used'["faults"] # 0 /\ used'["folds"] = used["folds"]
  BY Counted DEF Fails, Kinds

\* A write of a checkpoint leaves a store in the directory, and without a new
\* fault it is written.
LEMMA Persisted ==
  ASSUME NEW n \in Nat, IsStore(disk, n), used \in [Kinds -> Nat], NEW t \in Turns, NEW cp,
         IsCheckpoint(cp, t, n), Persist(t, cp)
  PROVE  /\ IsStore(disk', n) /\ used' \in [Kinds -> Nat]
         /\ disk' = With(disk, t, cp) \/ (used'["faults"] # 0 /\ disk' \in {disk, Without(disk, {t})})
<1>1. CASE Succeeds /\ disk' = With(disk, t, cp)
  BY <1>1, StorePut DEF Succeeds
<1>2. CASE Fails /\ disk' \in {disk, Without(disk, {t})}
  BY <1>2, StoreDrop, Faulted
<1>3. QED
  BY <1>1, <1>2 DEF Persist

\* Every step counts what it must: one counter moves, by one, or none.
Moved == used' = used \/ \E what \in Kinds : used' = [used EXCEPT ![what] = @ + 1]

LEMMA UsedMoves ==
  ASSUME used \in [Kinds -> Nat], [Next]_vars
  PROVE  Moved
<1> USE Counted DEF Succeeds, Fails, Moved, Kinds
<1>1. CASE Begin
  BY <1>1 DEF Begin, Persist
<1>2. CASE \E p \in Paths : Edit(p)
  BY <1>2 DEF Edit, Persist
<1>3. CASE Say \/ ClearMark \/ RewindStops \/ Cut
  BY <1>3 DEF Say, ClearMark, RewindStops, Cut
<1>4. CASE Autosave \/ Flush
  BY <1>4 DEF Autosave, Flush, SaveMessages
<1>5. CASE Cancelled
  BY <1>5 DEF Cancelled, FlushStripped
<1>6. CASE EndTurn \/ NextRound
  BY <1>6 DEF EndTurn, NextRound, SaveRound, SaveMessages
<1>7. CASE Compact
  BY <1>7 DEF Compact
<1>8. CASE \E t \in DOMAIN m.cps : \E s \in Scopes : Rewind(t, s)
  BY <1>8 DEF Rewind
<1>9. CASE \E p \in Paths : RestoreOne(p)
  BY <1>9 DEF RestoreOne
<1>10. CASE \E k \in job.todo : RemoveOne(k)
  BY <1>10 DEF RemoveOne
<1>11. CASE \E t \in DOMAIN m.bound : Fork(t)
  BY <1>11 DEF Fork
<1>12. CASE \E t \in DOMAIN m.bound : \E u \in BOOLEAN : Summarize(t, u)
  BY <1>12 DEF Summarize
<1>13. CASE Crash
  BY <1>13 DEF Crash
<1>14. CASE Resume \/ UNCHANGED vars
  BY <1>14 DEF Resume, vars
<1>15. QED
  BY <1>1, <1>2, <1>3, <1>4, <1>5, <1>6, <1>7, <1>8, <1>9, <1>10, <1>11, <1>12, <1>13, <1>14
     DEF Next, Scopes

LEMMA UsedStep ==
  ASSUME used \in [Kinds -> Nat], [Next]_vars
  PROVE  used' \in [Kinds -> Nat]
  BY UsedMoves DEF Moved

LEMMA ControlStep ==
  ASSUME Shapes, [Next]_vars
  PROVE  ControlOK'
<1>1. used' \in [Kinds -> Nat]
  BY UsedStep DEF Shapes, ControlOK
<1>2. Len(msgs) \in 0..MaxMessages /\ NoRound \in Rounds \cup {NoRound}
  BY DEF Shapes, DataOK, Talks
<1>3. NoJob = [turn |-> NoJob.turn, scope |-> NoJob.scope, todo |-> NoJob.todo, failed |-> NoJob.failed]
  BY DEF NoJob
<1> USE <1>1, <1>2 DEF Shapes, ControlOK, InTurn
<1>4. CASE Begin \/ NextRound
  <2>1. CASE Begin
    <3>1. round' \in Rounds /\ dirty' = dirty
      BY <2>1 DEF Begin, Rounds
    <3>2. QED
      BY <3>1, <2>1 DEF Begin
  <2>2. CASE NextRound
    <3>1. round' \in Rounds
      BY <2>2 DEF NextRound, Rounds
    <3>2. dirty' \in BOOLEAN
      BY <2>2 DEF NextRound, SaveRound, SaveMessages
    <3>3. QED
      BY <3>1, <3>2, <2>2 DEF NextRound
  <2>3. QED
    BY <1>4, <2>1, <2>2
<1>5. CASE Say \/ (\E p \in Paths : Edit(p)) \/ ClearMark
  BY <1>5 DEF Say, Edit, ClearMark
<1>6. CASE Autosave
  BY <1>6 DEF Autosave, SaveMessages
<1>7. CASE Cancelled
  <2>1. dirty' \in BOOLEAN
    BY <1>7 DEF Cancelled, FlushStripped
  <2>2. QED
    BY <2>1, <1>7 DEF Cancelled
<1>8. CASE EndTurn
  <2>1. dirty' \in BOOLEAN
    BY <1>8 DEF EndTurn, SaveRound, SaveMessages
  <2>2. QED
    BY <2>1, <1>8 DEF EndTurn
<1>9. CASE Compact
  BY <1>9 DEF Compact
<1>10. CASE \E t \in DOMAIN m.cps : \E s \in Scopes : Rewind(t, s)
  BY <1>10 DEF Rewind
<1>11. CASE (\E p \in Paths : RestoreOne(p)) \/ (\E k \in job.todo : RemoveOne(k))
  BY <1>11 DEF RestoreOne, RemoveOne
<1>12. CASE RewindStops \/ Cut
  BY <1>12, <1>3 DEF RewindStops, Cut
<1>13. CASE Flush
  BY <1>13, <1>3 DEF Flush, SaveMessages
<1>14. CASE \E t \in DOMAIN m.bound : Fork(t) \/ \E u \in BOOLEAN : Summarize(t, u)
  BY <1>14 DEF Fork, Summarize
<1>15. CASE Crash \/ Resume
  BY <1>15, <1>3 DEF Crash, Resume
<1>16. CASE UNCHANGED vars
  BY <1>16 DEF vars
<1>17. QED
  BY <1>4, <1>5, <1>6, <1>7, <1>8, <1>9, <1>10, <1>11, <1>12, <1>13, <1>14, <1>15, <1>16 DEF Next, Scopes

\* The earliest snapshot of a file from turn t on is one, and no other turn
\* from t on has one before it.
LEMMA EarliestFacts ==
  ASSUME NEW n, NEW cps, IsStore(cps, n), NEW t, NEW p \in Touched(cps, t)
  PROVE  \E k \in From(cps, t) :
           /\ p \in DOMAIN cps[k].snaps /\ Earliest(cps, t, p) = cps[k].snaps[p]
           /\ \A j \in From(cps, t) : p \in DOMAIN cps[j].snaps => k <= j
<1> DEFINE S == {k \in From(cps, t) : p \in DOMAIN cps[k].snaps}
<1>1. S \subseteq Nat /\ S # {}
  BY Bounds DEF Touched, From, IsStore
<1>2. Earliest(cps, t, p) = cps[Min(S)].snaps[p]
  BY DEF Earliest
<1>3. \A k \in S : k \in From(cps, t) /\ p \in DOMAIN cps[k].snaps
  OBVIOUS
<1>4. \A k \in From(cps, t) : p \in DOMAIN cps[k].snaps => k \in S
  OBVIOUS
<1> HIDE DEF S
<1>5. Min(S) \in S /\ \A j \in S : Min(S) <= j
  BY <1>1, MinIsLeast
<1>6. QED
  BY <1>2, <1>3, <1>4, <1>5

LEMMA EarliestIs ==
  ASSUME NEW n, NEW cps, IsStore(cps, n), NEW t, NEW p, NEW k \in From(cps, t),
         p \in DOMAIN cps[k].snaps, \A j \in From(cps, t) : p \in DOMAIN cps[j].snaps => k <= j
  PROVE  p \in Touched(cps, t) /\ Earliest(cps, t, p) = cps[k].snaps[p]
<1>1. p \in Touched(cps, t)
  BY DEF Touched
<1>2. PICK l \in From(cps, t) :
           /\ p \in DOMAIN cps[l].snaps /\ Earliest(cps, t, p) = cps[l].snaps[p]
           /\ \A j \in From(cps, t) : p \in DOMAIN cps[j].snaps => l <= j
  BY <1>1, EarliestFacts
<1>3. k <= l /\ l <= k /\ k \in Int /\ l \in Int
  BY <1>2, Bounds DEF From, IsStore
<1>4. QED
  BY <1>1, <1>2, <1>3

LEMMA EarliestType ==
  ASSUME NEW n, NEW cps, IsStore(cps, n), NEW t, NEW p \in Touched(cps, t)
  PROVE  p \in Paths /\ Earliest(cps, t, p) \in 0..MaxEdits
<1>1. PICK k \in From(cps, t) :
           p \in DOMAIN cps[k].snaps /\ Earliest(cps, t, p) = cps[k].snaps[p]
  BY EarliestFacts
<1>2. IsCheckpoint(cps[k], k, n)
  BY <1>1 DEF IsStore, From
<1>3. QED
  BY <1>1, <1>2 DEF IsCheckpoint

\* A compaction leaves a transcript that is no longer.
LEMMA CompactFacts ==
  ASSUME NEW ms \in Talks, NEW h \in 0..1, NEW k \in 1..Len(ms),
         Len(Kept(SubSeq(ms, h + 1, k))) < Len(SubSeq(ms, h + 1, k))
  PROVE  Prefix(ms, h) \o Kept(SubSeq(ms, h + 1, k)) \o <<0>> \o SubSeq(ms, k + 1, Len(ms)) \in Talks
<1> DEFINE region == SubSeq(ms, h + 1, k)
           kept == Kept(region)
<1>1. ms \in Seq(Messages) /\ Len(ms) <= MaxMessages /\ 0 \in Messages
  BY Bounds DEF Talks
<1>2. region \in Seq(Messages) /\ Len(region) = IF h + 1 <= k THEN k - h ELSE 0
  BY <1>1
<1>3. kept \in Seq(Messages) /\ Len(kept) < Len(region)
  BY <1>2, KeptIsSeq
<1> HIDE DEF region, kept
<1>4. Prefix(ms, h) \in Seq(Messages) /\ Len(Prefix(ms, h)) = h
  BY <1>1 DEF Prefix
<1>5. /\ SubSeq(ms, k + 1, Len(ms)) \in Seq(Messages)
      /\ Len(SubSeq(ms, k + 1, Len(ms))) = Len(ms) - k
  BY <1>1
<1>6. <<0>> \in Seq(Messages) /\ Len(<<0>>) = 1
  BY <1>1
<1>7. Len(kept) \in Nat /\ Len(region) \in Nat /\ MaxMessages \in Nat
  BY <1>2, <1>3, Bounds
<1>8. Len(kept) + 1 <= k - h
  BY <1>2, <1>3, <1>7
<1> DEFINE first == Prefix(ms, h) \o kept
           all == Prefix(ms, h) \o kept \o <<0>> \o SubSeq(ms, k + 1, Len(ms))
<1>9. first \in Seq(Messages) /\ Len(first) = h + Len(kept)
  BY <1>3, <1>4
<1>10. first \o <<0>> \in Seq(Messages) /\ Len(first \o <<0>>) = h + Len(kept) + 1
  <2> HIDE DEF first
  <2>1. QED
    BY <1>6, <1>9, <1>7
<1>11. all \in Seq(Messages) /\ Len(all) = h + Len(kept) + 1 + (Len(ms) - k)
  <2> DEFINE next == first \o <<0>>
             rest == SubSeq(ms, k + 1, Len(ms))
  <2> HIDE DEF next, rest
  <2>1. all = next \o rest
    BY DEF next, rest
  <2>2. next \in Seq(Messages) /\ Len(next) = h + Len(kept) + 1
    BY <1>10 DEF next
  <2>3. rest \in Seq(Messages) /\ Len(rest) = Len(ms) - k
    BY <1>5 DEF rest
  <2> HIDE DEF all
  <2>4. QED
    BY <2>1, <2>2, <2>3
<1> HIDE DEF all
<1>12. all \in Talks
  BY <1>1, <1>7, <1>8, <1>11 DEF Talks
<1>13. QED
  BY <1>12 DEF all, kept, region

\* A save leaves the conversation of the memory, or the old one and a mark.
LEMMA Saved ==
  ASSUME SaveMessages
  PROVE  (transcript' = msgs /\ ~dirty' /\ used' = used) \/ (transcript' = transcript /\ dirty')
  BY DEF SaveMessages, Succeeds

\* A checkpoint of the store or the directory, and a boundary, have their types.
LEMMA StoreFacts ==
  ASSUME StoreOK
  PROVE  /\ \A t \in DOMAIN m.cps : IsCheckpoint(m.cps[t], t, Len(past)) /\ t \in Turns
         /\ \A t \in DOMAIN disk : IsCheckpoint(disk[t], t, Len(past)) /\ t \in Turns
         /\ BoundInv => \A t \in DOMAIN m.bound : m.bound[t] \in 0..MaxMessages
  BY DEF StoreOK, IsStore, BoundInv, IsCheckpoint

LEMMA UidFacts ==
  ASSUME StoreOK, HistoryOK
  PROVE  /\ Len(past) \in Nat /\ Len(past) + 1 \notin 1..Len(past)
         /\ \A t \in DOMAIN m.cps : /\ m.cps[t].uid \in 1..Len(past) /\ m.cps[t].uid # Len(past) + 1
                                   /\ m.cps[t].index \in 0..MaxMessages
         /\ \A t \in DOMAIN disk : /\ disk[t].uid \in 1..Len(past) /\ disk[t].uid # Len(past) + 1
                                  /\ disk[t].index \in 0..MaxMessages
<1>1. Len(past) \in Nat /\ Len(past) + 1 \notin 1..Len(past)
  BY DEF HistoryOK
<1>2. \A t \in DOMAIN m.cps : m.cps[t].uid \in 1..Len(past) /\ m.cps[t].index \in 0..MaxMessages
  BY StoreFacts DEF IsCheckpoint
<1>3. \A t \in DOMAIN disk : disk[t].uid \in 1..Len(past) /\ disk[t].index \in 0..MaxMessages
  BY StoreFacts DEF IsCheckpoint
<1>4. QED
  BY <1>1, <1>2, <1>3

\* What a summary from the boundary b, or up to it, leaves.
LEMMA SummaryFacts ==
  ASSUME NEW ms \in Talks, NEW b \in Nat, b <= Len(ms)
  PROVE  /\ b # 0 => <<0>> \o SubSeq(ms, b + 1, Len(ms)) \in Talks
         /\ b # Len(ms) => Append(Prefix(ms, b), 0) \in Talks
<1>1. 0 \in Messages /\ ms \in Seq(Messages) /\ Len(ms) <= MaxMessages
  BY Bounds DEF Talks
<1>2. ASSUME b # 0
      PROVE  <<0>> \o SubSeq(ms, b + 1, Len(ms)) \in Talks
  <2> DEFINE rest == SubSeq(ms, b + 1, Len(ms))
  <2>1. rest \in Seq(Messages) /\ Len(rest) = Len(ms) - b
    BY <1>1
  <2> HIDE DEF rest
  <2>2. <<0>> \o rest \in Seq(Messages) /\ Len(<<0>> \o rest) = 1 + (Len(ms) - b)
    BY <1>1, <2>1
  <2>3. 1 + (Len(ms) - b) <= MaxMessages
    BY <1>1, <1>2, Bounds
  <2>4. QED
    BY <2>2, <2>3 DEF Talks, rest
<1>3. ASSUME b # Len(ms)
      PROVE  Append(Prefix(ms, b), 0) \in Talks
  <2>1. Prefix(ms, b) \in Talks /\ Len(Prefix(ms, b)) = b
    BY PrefixFacts
  <2>2. QED
    BY <2>1, <1>1, <1>3, AppendFacts, Bounds
<1>4. QED
  BY <1>2, <1>3

\* The files an edit may leave, and the transcript a restart does.
LEMMA RecoveredFacts ==
  ASSUME Shapes
  PROVE  /\ Recovered \in Talks
         /\ \A n \in 0..Len(transcript) :
              (marker # NoRound => n <= marker.start) =>
                n <= Len(Recovered) /\ Prefix(Recovered, n) = Prefix(transcript, n)
<1>1. CASE marker = NoRound
  BY <1>1 DEF Recovered, Shapes, DataOK
<1>2. CASE marker # NoRound
  <2>1. transcript \in Talks /\ marker \in Rounds /\ Recovered = Stripped(transcript, marker)
    BY <1>2 DEF Recovered, Shapes, DataOK, ControlOK
  <2>2. QED
    BY <2>1, <1>2, StripFacts
<1>3. QED
  BY <1>1, <1>2

LEMMA DataStep ==
  ASSUME IInv, [Next]_vars
  PROVE  DataOK'
<1> USE DEF IInv, Shapes, DataOK
<1>1. CASE Begin \/ ClearMark \/ RewindStops \/ UNCHANGED vars
  BY <1>1 DEF Begin, ClearMark, RewindStops, vars
<1>2. CASE Say
  <2>1. PICK v \in {Len(past), -Len(past)} : msgs' = Append(msgs, v)
    BY <1>2 DEF Say
  <2>2. v \in Messages
    BY <2>1, Bounds DEF HistoryOK
  <2>3. msgs' \in Talks
    BY <2>1, <2>2, <1>2, AppendFacts DEF Say
  <2>4. QED
    BY <2>3, <1>2 DEF Say
<1>3. CASE \E p \in Paths : Edit(p)
  <2>1. PICK p \in Paths : Edit(p)
    BY <1>3
  <2>2. edits' \in 0..MaxEdits /\ edits' = edits + 1
    BY <2>1, Bounds DEF Edit
  <2>3. PICK v \in {edits + 1, 0} : files' = [files EXCEPT ![p] = v]
    BY <2>1 DEF Edit
  <2>4. files' \in Files
    BY <2>2, <2>3, Bounds DEF Files
  <2>5. QED
    BY <2>1, <2>2, <2>4 DEF Edit
<1>4. CASE Autosave \/ Flush
  BY <1>4, Saved DEF Autosave, Flush
<1>5. CASE Cancelled
  <2>1. Stripped(msgs, round) \in Talks
    BY <1>5, StripFacts DEF Cancelled, ControlOK, InTurn
  <2>2. msgs' \in Talks /\ transcript' \in Talks
    BY <2>1, <1>5 DEF Cancelled, FlushStripped
  <2>3. QED
    BY <2>2, <1>5 DEF Cancelled
<1>6. CASE EndTurn \/ NextRound
  <2>1. transcript' \in {transcript, msgs}
    BY <1>6, Saved DEF EndTurn, NextRound, SaveRound
  <2>2. QED
    BY <2>1, <1>6 DEF EndTurn, NextRound
<1>7. CASE Compact
  <2>1. PICK h \in 0..1, k \in 1..Len(msgs) :
             /\ Len(Kept(SubSeq(msgs, h + 1, k))) < Len(SubSeq(msgs, h + 1, k))
             /\ msgs' = Prefix(msgs, h) \o Kept(SubSeq(msgs, h + 1, k)) \o <<0>>
                          \o SubSeq(msgs, k + 1, Len(msgs))
    BY <1>7 DEF Compact
  <2>2. msgs' \in Talks
    BY <2>1, CompactFacts
  <2>3. QED
    BY <2>2, <1>7 DEF Compact
<1>8. CASE \E t \in DOMAIN m.cps : \E s \in Scopes : Rewind(t, s)
  BY <1>8 DEF Rewind
<1>9. CASE \E p \in Paths : RestoreOne(p)
  <2>1. PICK p \in Paths : RestoreOne(p)
    BY <1>9
  <2>2. p \in Touched(m.cps, job.turn) /\ IsStore(m.cps, Len(past))
    BY <2>1 DEF RestoreOne, JobInv, StoreOK
  <2>3. Earliest(m.cps, job.turn, p) \in 0..MaxEdits
    BY <2>2, EarliestType
  <2>4. files' \in Files
    BY <2>1, <2>3 DEF RestoreOne, Files
  <2>5. QED
    BY <2>1, <2>4 DEF RestoreOne
<1>10. CASE Cut
  <2>1. m.bound[job.turn] \in 0..Len(msgs)
    BY <1>10, StoreFacts DEF Cut, CanCut, Talks
  <2>2. msgs' \in Talks
    BY <2>1, <1>10, PrefixFacts DEF Cut
  <2>3. QED
    BY <2>2, <1>10 DEF Cut
<1>11. CASE \E k \in job.todo : RemoveOne(k)
  BY <1>11 DEF RemoveOne
<1>12. CASE \E t \in DOMAIN m.bound : Fork(t)
  <2>1. PICK t \in DOMAIN m.bound : Fork(t)
    BY <1>12
  <2>2. m.bound[t] \in Nat /\ Len(msgs) \in Nat
    BY StoreFacts DEF Talks
  <2>3. msgs' \in Talks
    BY <2>1, <2>2, PrefixFacts DEF Fork
  <2>4. QED
    BY <2>1, <2>3 DEF Fork
<1>13. CASE \E t \in DOMAIN m.bound : \E u \in BOOLEAN : Summarize(t, u)
  <2>1. PICK t \in DOMAIN m.bound, u \in BOOLEAN : Summarize(t, u)
    BY <1>13
  <2>2. m.bound[t] \in Nat /\ Len(msgs) \in Nat
    BY StoreFacts DEF Talks
  <2>3. msgs' \in Talks
    BY <2>1, <2>2, SummaryFacts DEF Summarize
  <2>4. QED
    BY <2>1, <2>3 DEF Summarize
<1>14. CASE Crash
  <2>1. <<>> \in Talks
    BY Bounds DEF Talks
  <2>2. QED
    BY <2>1, <1>14 DEF Crash
<1>15. CASE Resume
  BY <1>15, RecoveredFacts DEF Resume
<1>16. QED
  BY <1>1, <1>2, <1>3, <1>4, <1>5, <1>6, <1>7, <1>8, <1>9, <1>10, <1>11, <1>12, <1>13, <1>14, <1>15
     DEF Next, Scopes

\* Histories only grow; a turn adds its own entry.
LEMMA BeginPast ==
  ASSUME Shapes, Begin
  PROVE  /\ Len(past') = Len(past) + 1 /\ Len(past) \in Nat /\ Len(past') <= MaxTurns
         /\ past' \in Seq([msgs : Talks, files : Files])
         /\ past'[Len(past) + 1] = [msgs |-> msgs, files |-> files]
         /\ \A u \in 1..Len(past) : past'[u] = past[u]
<1>1. past' = Append(past, [msgs |-> msgs, files |-> files]) /\ Len(past) < MaxTurns
  BY DEF Begin
<1>2. [msgs |-> msgs, files |-> files] \in [msgs : Talks, files : Files]
  BY DEF Shapes, DataOK
<1>3. past \in Seq([msgs : Talks, files : Files])
  BY DEF Shapes, HistoryOK
<1>4. QED
  BY <1>1, <1>2, <1>3, Bounds

LEMMA OtherPast ==
  ASSUME [Next]_vars, ~Begin
  PROVE  /\ past' = past /\ exact' \subseteq exact /\ clean' \subseteq clean
         /\ folded' = folded \/ folded' = 1..Len(past)
<1>1. past' = past
  BY DEF Next, vars, history, Say, Edit, Autosave, Cancelled, ClearMark, EndTurn, NextRound,
     Compact, Rewind, RestoreOne, RewindStops, Cut, RemoveOne, Flush, Fork, Summarize, Crash, Resume
<1>2. exact' \subseteq exact
  BY DEF Next, vars, history, Say, Edit, Autosave, Cancelled, ClearMark, EndTurn, NextRound,
     Compact, Rewind, RestoreOne, RewindStops, Cut, RemoveOne, Flush, Fork, Summarize, Crash, Resume
<1>3. clean' \subseteq clean
  BY DEF Next, vars, history, Say, Edit, Autosave, Cancelled, ClearMark, EndTurn, NextRound,
     Compact, Rewind, RestoreOne, RewindStops, Cut, RemoveOne, Flush, Fork, Summarize, Crash, Resume
<1>4. folded' = folded \/ folded' = 1..Len(past)
  BY DEF Next, vars, history, Say, Edit, Autosave, Cancelled, ClearMark, EndTurn, NextRound,
     Compact, Rewind, RestoreOne, RewindStops, Cut, RemoveOne, Flush, Fork, Summarize, Crash, Resume
<1>5. QED
  BY <1>1, <1>2, <1>3, <1>4

LEMMA HistoryStep ==
  ASSUME Shapes, [Next]_vars
  PROVE  HistoryOK'
<1> USE DEF HistoryOK
<1>1. CASE Begin
  <2>1. exact' = exact \cup {Len(past) + 1} /\ clean' = clean \cup {Len(past) + 1} /\ folded' = folded
    BY <1>1 DEF Begin
  <2>2. QED
    <3>1. /\ Len(past') = Len(past) + 1 /\ Len(past) \in Nat /\ Len(past') <= MaxTurns
          /\ past' \in Seq([msgs : Talks, files : Files])
      BY <1>1, BeginPast
    <3>2. \A u \in 1..Len(past) \cup {Len(past) + 1} : u \in 1..Len(past')
      BY <3>1
    <3>3. QED
      BY <3>1, <3>2, <2>1 DEF Shapes
<1>2. CASE ~Begin
  BY <1>2, OtherPast DEF Shapes
<1>3. QED
  BY <1>1, <1>2

\* The checkpoint a turn opens.
LEMMA BeginFacts ==
  ASSUME IInv, Begin
  PROVE  LET cp == [uid |-> Len(past) + 1, index |-> Len(msgs), snaps |-> Empty]
         IN  /\ m.turn \in Turns /\ m.turn \notin DOMAIN m.cps
             /\ IsCheckpoint(cp, m.turn, Len(past) + 1) /\ DOMAIN cp.snaps = {}
             /\ m' = [turn |-> m.turn + 1, bound |-> With(m.bound, m.turn, Len(msgs)),
                      cur |-> m.turn, cps |-> With(m.cps, m.turn, cp)]
             /\ IsStore(m'.cps, Len(past)') /\ IsStore(disk', Len(past)')
             /\ \/ disk' = With(disk, m.turn, cp)
                \/ used'["faults"] # 0 /\ disk' \in {disk, Without(disk, {m.turn})}
<1> DEFINE cp == [uid |-> Len(past) + 1, index |-> Len(msgs), snaps |-> Empty]
<1> USE DEF IInv, Shapes
<1>1. /\ Len(past) \in Nat /\ Len(past)' = Len(past) + 1 /\ Len(past) + 1 <= MaxTurns
      /\ m.turn \in 0..Len(past) /\ Len(msgs) \in 0..MaxMessages
  BY BeginPast DEF StoreOK, DataOK, Talks
<1>2. m.turn \in Turns /\ m.turn \notin DOMAIN m.cps
  BY <1>1, Bounds DEF NumbersAreFresh
<1>3. IsCheckpoint(cp, m.turn, Len(past) + 1) /\ DOMAIN cp.snaps = {}
  BY <1>1 DEF IsCheckpoint, IsFunction, Empty
<1>4. m' = [turn |-> m.turn + 1, bound |-> With(m.bound, m.turn, Len(msgs)),
            cur |-> m.turn, cps |-> With(m.cps, m.turn, cp)]
  BY DEF Begin, Opened
<1> HIDE DEF cp
<1>5. m'.cps = With(m.cps, m.turn, cp) /\ m'.cps[m.turn] = cp
  BY <1>4 DEF With
<1>6. IsStore(m.cps, Len(past) + 1) /\ IsStore(disk, Len(past) + 1)
  BY <1>1, StoreGrows DEF StoreOK
<1>7. IsStore(m'.cps, Len(past) + 1)
  BY <1>1, <1>2, <1>3, <1>5, <1>6, StorePut
<1>8. Persist(m.turn, cp)
  BY <1>5 DEF Begin
<1>9. /\ IsStore(disk', Len(past) + 1)
      /\ \/ disk' = With(disk, m.turn, cp)
         \/ used'["faults"] # 0 /\ disk' \in {disk, Without(disk, {m.turn})}
  <2>1. Len(past) + 1 \in Nat /\ used \in [Kinds -> Nat]
    BY <1>1 DEF ControlOK
  <2>2. QED
    BY <2>1, <1>2, <1>3, <1>6, <1>8, Persisted
<1>10. QED
  BY <1>1, <1>2, <1>3, <1>4, <1>7, <1>9 DEF cp

\* The checkpoint an edit leaves.
LEMMA EditFacts ==
  ASSUME IInv, NEW p \in Paths, Edit(p)
  PROVE  LET cp == Snapped(m.cps[m.cur], p, files[p])
         IN  /\ m.cur \in DOMAIN m.cps /\ files[p] \in 0..MaxEdits
             /\ IsCheckpoint(m.cps[m.cur], m.cur, Len(past)) /\ m.cur \in Nat
             /\ IsCheckpoint(cp, m.cur, Len(past))
             /\ m' = [m EXCEPT !.cps = [@ EXCEPT ![m.cur] = cp]]
             /\ IsStore(m'.cps, Len(past)) /\ IsStore(disk', Len(past))
             /\ \/ m' = m /\ disk' = disk /\ used' = used
                \/ disk' = With(disk, m.cur, cp)
                \/ used'["faults"] # 0 /\ disk' \in {disk, Without(disk, {m.cur})}
<1> DEFINE cp == Snapped(m.cps[m.cur], p, files[p])
<1> USE DEF IInv, Shapes
<1>1. /\ m.cur \in DOMAIN m.cps /\ files[p] \in 0..MaxEdits /\ Len(past) \in Nat
      /\ IsStore(m.cps, Len(past)) /\ IsStore(disk, Len(past))
  BY DEF Edit, TurnIsLast, InTurn, DataOK, Files, StoreOK, HistoryOK
<1>2. IsCheckpoint(m.cps[m.cur], m.cur, Len(past)) /\ m.cur \in Turns /\ m.cur \in Nat
  BY <1>1, Bounds DEF IsStore
<1>3. IsCheckpoint(cp, m.cur, Len(past))
  BY <1>1, <1>2, SnapOne
<1>4. m' = [m EXCEPT !.cps = [@ EXCEPT ![m.cur] = cp]]
  BY DEF Edit
<1> HIDE DEF cp
<1>5. m'.cps = [m.cps EXCEPT ![m.cur] = cp] /\ m'.cps[m.cur] = cp
  BY <1>1, <1>4 DEF StoreOK
<1>6. IsStore(m'.cps, Len(past))
  BY <1>1, <1>3, <1>5 DEF IsStore, IsFunction
<1>7. CASE m' = m
  BY <1>1, <1>2, <1>3, <1>4, <1>6, <1>7 DEF Edit, Succeeds, cp
<1>8. CASE m' # m
  <2>1. Persist(m.cur, cp)
    BY <1>5, <1>8 DEF Edit
  <2>2. /\ IsStore(disk', Len(past))
        /\ \/ disk' = With(disk, m.cur, cp)
           \/ used'["faults"] # 0 /\ disk' \in {disk, Without(disk, {m.cur})}
    BY <1>1, <1>2, <1>3, <2>1, Persisted DEF ControlOK
  <2>3. QED
    BY <1>1, <1>2, <1>3, <1>4, <1>6, <2>2 DEF cp
<1>9. QED
  BY <1>7, <1>8

\* What a restart finds: a number above those of the directory.
LEMMA LoadedFacts ==
  ASSUME NEW n \in Nat, NEW cps, IsStore(cps, n)
  PROVE  /\ Loaded(cps) = [turn |-> NextTurn(cps), bound |-> [t \in DOMAIN cps |-> cps[t].index],
                           cps |-> cps, cur |-> NoTurn]
         /\ NextTurn(cps) \in 0..n /\ \A t \in DOMAIN cps : t < NextTurn(cps)
<1>1. DOMAIN cps \subseteq 0..n - 1
  BY NumbersAreLow
<1>2. CASE DOMAIN cps = {}
  BY <1>2 DEF Loaded, NextTurn
<1>3. CASE DOMAIN cps # {}
  <2>1. n - 1 \in Nat
    BY <1>1, <1>3
  <2>2. Max(DOMAIN cps) \in DOMAIN cps /\ \A t \in DOMAIN cps : t <= Max(DOMAIN cps)
    BY <1>1, <1>3, <2>1, MaxIsGreatest
  <2>3. Max(DOMAIN cps) \in 0..n - 1 /\ \A t \in DOMAIN cps : t \in Int
    BY <2>2, <1>1
  <2>4. NextTurn(cps) = Max(DOMAIN cps) + 1
    BY <1>3 DEF NextTurn
  <2>5. QED
    BY <2>2, <2>3, <2>4 DEF Loaded
<1>4. QED
  BY <1>2, <1>3

\* What a cut leaves of the store.
LEMMA CutFacts ==
  ASSUME IInv, Cut
  PROVE  /\ job.turn \in DOMAIN m.cps /\ job.turn \in DOMAIN m.bound /\ job.turn \in Nat
         /\ m.bound[job.turn] \in 0..Len(msgs)
         /\ m' = [turn |-> job.turn, bound |-> Without(m.bound, From(m.bound, job.turn)),
                  cps |-> Without(m.cps, From(m.cps, job.turn)),
                  cur |-> IF m.cur >= job.turn THEN NoTurn ELSE m.cur]
         /\ IsStore(m'.cps, Len(past)) /\ m'.cur \in DOMAIN m'.cps \cup {NoTurn}
         /\ DOMAIN m'.cps = {t \in DOMAIN m.cps : t < job.turn}
         /\ DOMAIN m'.bound = {t \in DOMAIN m.bound : t < job.turn}
         /\ \A t \in DOMAIN m'.cps : m'.cps[t] = m.cps[t]
         /\ \A t \in DOMAIN m'.bound : m'.bound[t] = m.bound[t]
<1> USE DEF IInv, Shapes
<1>1. job.turn \in DOMAIN m.cps /\ job.turn \in DOMAIN m.bound
  BY DEF Cut, CanCut, JobInv
<1>2. job.turn \in Nat /\ DOMAIN m.cps \subseteq Nat /\ DOMAIN m.bound \subseteq Nat
  BY <1>1, Bounds DEF StoreOK, IsStore, BoundInv
<1>3. m.bound[job.turn] \in 0..Len(msgs)
  BY <1>1, StoreFacts DEF Cut, CanCut, DataOK, Talks
<1>4. m' = [turn |-> job.turn, bound |-> Without(m.bound, From(m.bound, job.turn)),
            cps |-> Without(m.cps, From(m.cps, job.turn)),
            cur |-> IF m.cur >= job.turn THEN NoTurn ELSE m.cur]
  BY DEF Cut, Truncated
<1>5. IsStore(m'.cps, Len(past))
  BY <1>4, StoreDrop DEF StoreOK, HistoryOK
<1>6. /\ DOMAIN m'.cps = {t \in DOMAIN m.cps : t < job.turn}
      /\ \A t \in DOMAIN m'.cps : m'.cps[t] = m.cps[t]
  BY <1>2, <1>4 DEF Without, From
<1>7. /\ DOMAIN m'.bound = {t \in DOMAIN m.bound : t < job.turn}
      /\ \A t \in DOMAIN m'.bound : m'.bound[t] = m.bound[t]
  BY <1>2, <1>4 DEF Without, From
<1>8. m'.cur \in DOMAIN m'.cps \cup {NoTurn}
  <2>1. m.cur \in DOMAIN m.cps \cup {NoTurn} /\ m'.cur = IF m.cur >= job.turn THEN NoTurn ELSE m.cur
    BY <1>4 DEF StoreOK
  <2>2. QED
    BY <2>1, <1>2, <1>6 DEF NoTurn
<1>9. QED
  BY <1>1, <1>2, <1>3, <1>4, <1>5, <1>6, <1>7, <1>8

\* A removal takes its entry from the directory or leaves it and a mark.
LEMMA RemoveFacts ==
  ASSUME Shapes, NEW k, RemoveOne(k)
  PROVE  /\ IsStore(disk', Len(past)) /\ m' = m /\ mode = "remove" /\ mode' = mode /\ k \in job.todo
         /\ job' = [job EXCEPT !.todo = @ \ {k}]
         /\ \/ disk' = Without(disk, {k}) /\ used' = used /\ exact' = exact /\ clean' = clean
            \/ /\ disk' = disk /\ used'["faults"] # 0 /\ clean' = {} /\ used'["folds"] = used["folds"]
               /\ exact' = exact \ Uids(disk, {k} \cap DOMAIN disk)
<1>1. IsStore(disk, Len(past)) /\ Len(past) \in Nat /\ used \in [Kinds -> Nat]
  BY DEF Shapes, StoreOK, ControlOK, HistoryOK
<1>2. CASE Succeeds /\ disk' = Without(disk, {k}) /\ UNCHANGED <<exact, clean>>
  BY <1>1, <1>2, StoreDrop DEF RemoveOne, Succeeds
<1>3. CASE Fails /\ disk' = disk /\ clean' = {} /\ exact' = exact \ Uids(disk, {k} \cap DOMAIN disk)
  BY <1>1, <1>3, Faulted DEF RemoveOne
<1>4. QED
  BY <1>2, <1>3 DEF RemoveOne

\* Steps that touch neither the store nor its directory.
Plain ==
  \/ Say \/ Autosave \/ Cancelled \/ ClearMark \/ EndTurn \/ NextRound \/ Compact
  \/ (\E t \in DOMAIN m.cps : \E s \in Scopes : Rewind(t, s))
  \/ (\E p \in Paths : RestoreOne(p)) \/ RewindStops \/ Flush \/ UNCHANGED vars

LEMMA PlainFacts ==
  ASSUME Plain
  PROVE  m' = m /\ disk' = disk /\ past' = past /\ folded' = folded
  BY DEF Plain, vars, history, Say, Autosave, Cancelled, ClearMark, EndTurn, NextRound, Compact,
     Rewind, RestoreOne, RewindStops, Flush

LEMMA Steps ==
  ASSUME [Next]_vars
  PROVE  \/ Plain \/ Begin \/ (\E p \in Paths : Edit(p)) \/ Cut
         \/ (\E k \in job.todo : RemoveOne(k)) \/ (\E t \in DOMAIN m.bound : Fork(t))
         \/ (\E t \in DOMAIN m.bound : \E u \in BOOLEAN : Summarize(t, u)) \/ Crash \/ Resume
  BY DEF Next, Plain, Scopes

LEMMA StoreStep ==
  ASSUME IInv, [Next]_vars
  PROVE  StoreOK'
<1> USE DEF IInv, Shapes
<1>0. /\ Len(past) \in Nat /\ m.turn \in 0..Len(past) /\ StoreOK
      /\ IsStore(Empty, Len(past)) /\ DOMAIN Empty = {}
  BY EmptyStore DEF HistoryOK, StoreOK
<1>1. CASE Plain
  BY <1>0, <1>1, PlainFacts DEF StoreOK
<1>2. CASE Begin
  <2> DEFINE cp == [uid |-> Len(past) + 1, index |-> Len(msgs), snaps |-> Empty]
  <2>1. /\ m' = [turn |-> m.turn + 1, bound |-> With(m.bound, m.turn, Len(msgs)),
                 cur |-> m.turn, cps |-> With(m.cps, m.turn, cp)]
        /\ IsStore(m'.cps, Len(past)') /\ IsStore(disk', Len(past)')
    BY <1>2, BeginFacts
  <2>2. Len(past)' = Len(past) + 1
    BY <1>2, BeginPast
  <2>3. m.turn \in DOMAIN With(m.cps, m.turn, cp)
    BY DEF With
  <2> HIDE DEF cp
  <2>4. m'.turn \in 0..Len(past)' /\ m'.cur \in DOMAIN m'.cps \cup {NoTurn}
    BY <2>1, <2>2, <2>3, <1>0
  <2>5. m' = [turn |-> m'.turn, bound |-> m'.bound, cps |-> m'.cps, cur |-> m'.cur]
    BY <2>1
  <2>6. QED
    BY <2>1, <2>4, <2>5 DEF StoreOK
<1>3. CASE \E p \in Paths : Edit(p)
  <2>1. PICK p \in Paths : Edit(p)
    BY <1>3
  <2> DEFINE cp == Snapped(m.cps[m.cur], p, files[p])
  <2>2. m' = [m EXCEPT !.cps = [@ EXCEPT ![m.cur] = cp]] /\ IsStore(m'.cps, Len(past)) /\ IsStore(disk', Len(past))
    BY <2>1, EditFacts
  <2>3. past' = past
    BY <2>1 DEF Edit, history
  <2> HIDE DEF cp
  <2>4. QED
    BY <2>2, <2>3, <1>0 DEF StoreOK
<1>4. CASE Cut
  <2>1. past' = past /\ disk' = disk /\ m'.turn = job.turn /\ job.turn \in DOMAIN m.cps
    BY <1>4, CutFacts DEF Cut
  <2>2. job.turn \in 0..Len(past)
    BY <1>0, <2>1, NumbersAreLow DEF StoreOK
  <2>3. /\ m' = [turn |-> m'.turn, bound |-> m'.bound, cps |-> m'.cps, cur |-> m'.cur]
        /\ IsStore(m'.cps, Len(past)) /\ m'.cur \in DOMAIN m'.cps \cup {NoTurn}
    BY <1>4, CutFacts
  <2>4. QED
    BY <2>1, <2>2, <2>3 DEF StoreOK
<1>5. CASE \E k \in job.todo : RemoveOne(k)
  <2>1. PICK k \in job.todo : RemoveOne(k)
    BY <1>5
  <2>2. IsStore(disk', Len(past)) /\ m' = m /\ past' = past
    BY <2>1, RemoveFacts DEF RemoveOne
  <2>3. QED
    BY <2>2 DEF StoreOK
<1>6. CASE \E t \in DOMAIN m.bound : Fork(t)
  <2>1. past' = past /\ m' = Fresh /\ disk' = Empty
    BY <1>6 DEF Fork, history
  <2>2. QED
    BY <2>1, <1>0 DEF StoreOK, Fresh
<1>7. CASE \E t \in DOMAIN m.bound : \E u \in BOOLEAN : Summarize(t, u)
  <2>1. past' = past /\ m' = [m EXCEPT !.bound = Empty] /\ disk' = disk
    BY <1>7 DEF Summarize, Cleared
  <2>2. QED
    BY <2>1, <1>0 DEF StoreOK
<1>8. CASE Crash
  <2>1. past' = past /\ m' = Fresh /\ disk' = disk
    BY <1>8 DEF Crash
  <2>2. QED
    BY <2>1, <1>0 DEF StoreOK, Fresh
<1>9. CASE Resume
  <2>1. past' = past /\ m' = Loaded(disk) /\ disk' = disk /\ IsStore(disk, Len(past))
    BY <1>9 DEF Resume, StoreOK
  <2>2. /\ Loaded(disk) = [turn |-> NextTurn(disk), bound |-> [t \in DOMAIN disk |-> disk[t].index],
                           cps |-> disk, cur |-> NoTurn]
        /\ NextTurn(disk) \in 0..Len(past)
    BY <2>1, <1>0, LoadedFacts
  <2>3. QED
    BY <2>1, <2>2 DEF StoreOK
<1>10. QED
  BY <1>1, <1>2, <1>3, <1>4, <1>5, <1>6, <1>7, <1>8, <1>9, Steps

\* No turn takes a number that is in use, and a turn writes to the last.
LEMMA NumbersStep ==
  ASSUME IInv, [Next]_vars
  PROVE  NumbersAreFresh' /\ TurnIsLast'
<1> USE DEF IInv, Shapes, NumbersAreFresh, TurnIsLast, InTurn
<1>0. m.turn \in Nat /\ DOMAIN m.cps \subseteq Nat
  BY Bounds DEF StoreOK, HistoryOK, IsStore
<1>1. CASE Plain
  <2>1. m' = m
    BY <1>1, PlainFacts
  <2>2. InTurn' => InTurn
    BY <1>1 DEF Plain, InTurn, vars, NextRound, Say, Autosave, Cancelled, ClearMark, EndTurn, Compact,
       Rewind, RestoreOne, RewindStops, Flush
  <2>3. QED
    BY <2>1, <2>2
<1>2. CASE Begin
  <2>1. /\ m'.turn = m.turn + 1 /\ m'.cur = m.turn /\ DOMAIN m'.cps = DOMAIN m.cps \cup {m.turn}
    BY <1>2, BeginFacts DEF With
  <2>2. QED
    BY <2>1, <1>0
<1>3. CASE \E p \in Paths : Edit(p)
  <2>1. m'.turn = m.turn /\ m'.cur = m.cur /\ DOMAIN m'.cps = DOMAIN m.cps /\ mode = "turn"
    BY <1>3, EditFacts DEF StoreOK, Edit
  <2>2. QED
    BY <2>1
<1>4. CASE Cut
  <2>1. m'.turn = job.turn /\ DOMAIN m'.cps = {t \in DOMAIN m.cps : t < job.turn} /\ mode' = "remove"
    BY <1>4, CutFacts DEF Cut
  <2>2. QED
    BY <2>1
<1>5. CASE \E k \in job.todo : RemoveOne(k)
  BY <1>5, RemoveFacts
<1>6. CASE \E t \in DOMAIN m.bound : Fork(t)
  BY <1>6, EmptyStore DEF Fork, Fresh
<1>7. CASE \E t \in DOMAIN m.bound : \E u \in BOOLEAN : Summarize(t, u)
  BY <1>7 DEF Summarize, Cleared, StoreOK
<1>8. CASE Crash
  BY <1>8, EmptyStore DEF Crash, Fresh
<1>9. CASE Resume
  <2>1. m'.turn = NextTurn(disk) /\ m'.cps = disk /\ mode' = "idle"
    BY <1>9 DEF Resume, Loaded
  <2>2. \A t \in DOMAIN disk : t < NextTurn(disk)
    <3>1. IsStore(disk, Len(past)) /\ Len(past) \in Nat
      BY DEF StoreOK, HistoryOK
    <3>2. QED
      BY <3>1, LoadedFacts
  <2>3. QED
    BY <2>1, <2>2
<1>10. QED
  BY <1>1, <1>2, <1>3, <1>4, <1>5, <1>6, <1>7, <1>8, <1>9, Steps

\* An edit moves no turn and no boundary, and adds at most its own snapshot.
LEMMA EditKeeps ==
  ASSUME IInv, NEW p \in Paths, Edit(p)
  PROVE  /\ m'.bound = m.bound /\ m'.cur = m.cur /\ DOMAIN m'.cps = DOMAIN m.cps
         /\ \A t \in DOMAIN m.cps : m'.cps[t].uid = m.cps[t].uid /\ m'.cps[t].index = m.cps[t].index
         /\ \A t \in DOMAIN m.cps : t # m.cur => m'.cps[t] = m.cps[t]
         /\ m'.cps[m.cur] = Snapped(m.cps[m.cur], p, files[p])
<1> DEFINE cp == Snapped(m.cps[m.cur], p, files[p])
<1>1. /\ m.cur \in DOMAIN m.cps /\ m' = [m EXCEPT !.cps = [@ EXCEPT ![m.cur] = cp]]
      /\ IsCheckpoint(m.cps[m.cur], m.cur, Len(past)) /\ files[p] \in 0..MaxEdits
      /\ m.cur \in Nat /\ Len(past) \in Nat
  BY EditFacts DEF IInv, Shapes, HistoryOK
<1>2. cp.uid = m.cps[m.cur].uid /\ cp.index = m.cps[m.cur].index
  BY <1>1, SnapOne
<1> HIDE DEF cp
<1>3. m'.bound = m.bound /\ m'.cur = m.cur /\ m'.cps = [m.cps EXCEPT ![m.cur] = cp]
  BY <1>1 DEF IInv, Shapes, StoreOK
<1>4. QED
  BY <1>1, <1>2, <1>3 DEF cp

(***************************************************************************)
(* Boundaries, memory and directory.                                       *)
(***************************************************************************)
LEMMA BoundStep ==
  ASSUME IInv, [Next]_vars
  PROVE  BoundInv'
<1> USE DEF IInv, Shapes, BoundInv, Live
<1>1. CASE Plain
  <2>1. m' = m /\ folded' = folded /\ exact' \subseteq exact
    BY <1>1, PlainFacts DEF Plain, vars, history, Say, Autosave, Cancelled, ClearMark, EndTurn,
       NextRound, Compact, Rewind, RestoreOne, RewindStops, Flush
  <2>2. QED
    BY <2>1
<1>2. CASE Begin
  <2> DEFINE cp == [uid |-> Len(past) + 1, index |-> Len(msgs), snaps |-> Empty]
  <2>1. /\ m' = [turn |-> m.turn + 1, bound |-> With(m.bound, m.turn, Len(msgs)),
                 cur |-> m.turn, cps |-> With(m.cps, m.turn, cp)]
        /\ m.turn \notin DOMAIN m.cps
    BY <1>2, BeginFacts
  <2>2. /\ DOMAIN m'.bound = DOMAIN m.bound \cup {m.turn} /\ DOMAIN m'.cps = DOMAIN m.cps \cup {m.turn}
        /\ m'.bound[m.turn] = Len(msgs) /\ m'.cps[m.turn].index = Len(msgs)
        /\ m'.cps[m.turn].uid = Len(past) + 1
        /\ \A t \in DOMAIN m.cps : m'.cps[t] = m.cps[t]
        /\ \A t \in DOMAIN m.bound : m'.bound[t] = m.bound[t]
    BY <2>1 DEF With
  <2>3. exact' = exact \cup {Len(past) + 1} /\ folded' = folded /\ Len(past) + 1 \notin folded
    BY <1>2 DEF Begin, HistoryOK
  <2>4. \A t \in DOMAIN m.cps : m.cps[t].uid # Len(past) + 1
    BY UidFacts
  <2> HIDE DEF cp
  <2>5. QED
    BY <2>2, <2>3, <2>4
<1>3. CASE \E p \in Paths : Edit(p)
  <2>1. PICK p \in Paths : Edit(p)
    BY <1>3
  <2>2. /\ m'.bound = m.bound /\ DOMAIN m'.cps = DOMAIN m.cps
        /\ \A t \in DOMAIN m.cps : m'.cps[t].uid = m.cps[t].uid /\ m'.cps[t].index = m.cps[t].index
    BY <2>1, EditKeeps
  <2>3. exact' = exact /\ folded' = folded
    BY <2>1 DEF Edit, history
  <2>4. QED
    BY <2>2, <2>3
<1>4. CASE Cut
  <2>1. exact' \subseteq exact /\ folded' = folded
    BY <1>4 DEF Cut
  <2>2. QED
    BY <2>1, <1>4, CutFacts
<1>5. CASE \E k \in job.todo : RemoveOne(k)
  <2>1. m' = m /\ exact' \subseteq exact /\ folded' = folded
    BY <1>5, RemoveFacts DEF RemoveOne
  <2>2. QED
    BY <2>1
<1>6. CASE \E t \in DOMAIN m.bound : Fork(t)
  BY <1>6, EmptyStore DEF Fork, Fresh
<1>7. CASE \E t \in DOMAIN m.bound : \E u \in BOOLEAN : Summarize(t, u)
  BY <1>7, EmptyStore DEF Summarize, Cleared, StoreOK
<1>8. CASE Crash
  BY <1>8, EmptyStore DEF Crash, Fresh
<1>9. CASE Resume
  <2>1. /\ m'.bound = [t \in DOMAIN disk |-> disk[t].index] /\ m'.cps = disk
        /\ exact' = exact \ folded /\ folded' = folded
    BY <1>9 DEF Resume, Loaded
  <2>2. QED
    BY <2>1
<1>10. QED
  BY <1>1, <1>2, <1>3, <1>4, <1>5, <1>6, <1>7, <1>8, <1>9, Steps

\* A start that lies in the first n messages survives what keeps those.
LEMMA StartKept ==
  ASSUME NEW ms \in Talks, NEW ms2 \in Talks, NEW cp, cp.index \in Nat, NEW ps, StartsIn(ms, cp, ps),
         cp.index <= Len(ms2), Prefix(ms2, cp.index) = Prefix(ms, cp.index)
  PROVE  StartsIn(ms2, cp, ps)
  BY DEF StartsIn

LEMMA MemoryStep ==
  ASSUME IInv, [Next]_vars
  PROVE  MemoryInv'
<1> USE DEF IInv, Shapes
<1>0. /\ msgs \in Talks /\ Len(msgs) \in Nat
      /\ \A t \in DOMAIN m.cps : m.cps[t].index \in Nat /\ m.cps[t].index \in 0..MaxMessages
  BY UidFacts DEF DataOK, Talks
<1>1. CASE Say \/ Cancelled \/ NextRound \/ EndTurn
  <2>1. m' = m /\ past' = past /\ exact' = exact /\ folded' = folded
    BY <1>1 DEF Say, Cancelled, NextRound, EndTurn, history
  <2> SUFFICES ASSUME NEW t \in DOMAIN m.cps, m.cps[t].uid \in Live
               PROVE  StartsIn(msgs', m.cps[t], past) /\ (InTurn' => m.cps[t].index <= round'.start)
    BY <2>1 DEF MemoryInv, Live
  <2>2. /\ StartsIn(msgs, m.cps[t], past) /\ m.cps[t].index \in 0..Len(msgs)
        /\ InTurn => m.cps[t].index <= round.start
    BY <1>0 DEF MemoryInv, StartsIn
  <2>3. CASE Say
    <3>1. PICK v \in {Len(past), -Len(past)} : msgs' = Append(msgs, v)
      BY <2>3 DEF Say
    <3>2. v \in Messages /\ Len(msgs) < MaxMessages
      BY <2>3, <3>1, Bounds DEF Say, HistoryOK
    <3>3. msgs' \in Talks /\ m.cps[t].index <= Len(msgs') /\ Prefix(msgs', m.cps[t].index) = Prefix(msgs, m.cps[t].index)
      BY <1>0, <2>2, <3>1, <3>2, AppendFacts
    <3>4. InTurn /\ round' = round
      BY <2>3 DEF Say, InTurn
    <3>5. QED
      BY <1>0, <2>2, <3>3, <3>4, StartKept
  <2>4. CASE Cancelled
    <3>1. InTurn /\ round' = round /\ msgs' = Stripped(msgs, round) /\ round \in Rounds
      BY <2>4 DEF Cancelled, InTurn, ControlOK
    <3>2. msgs' \in Talks /\ m.cps[t].index <= Len(msgs') /\ Prefix(msgs', m.cps[t].index) = Prefix(msgs, m.cps[t].index)
      BY <1>0, <2>2, <3>1, StripFacts
    <3>3. QED
      BY <1>0, <2>2, <3>1, <3>2, StartKept
  <2>5. CASE NextRound
    BY <1>0, <2>2, <2>5 DEF NextRound
  <2>6. CASE EndTurn
    BY <2>2, <2>6 DEF EndTurn, InTurn
  <2>7. QED
    BY <1>1, <2>3, <2>4, <2>5, <2>6
<1>2. CASE Compact
  BY <1>2 DEF Compact, MemoryInv, Live
<1>3. CASE Plain /\ ~(Say \/ Cancelled \/ NextRound \/ EndTurn \/ Compact)
  <2>1. m' = m /\ past' = past /\ exact' = exact /\ folded' = folded /\ msgs' = msgs
    BY <1>3 DEF Plain, vars, history, Autosave, ClearMark, Rewind, RestoreOne, RewindStops, Flush
  <2>2. InTurn' => InTurn /\ round' = round
    BY <1>3 DEF Plain, InTurn, vars, Autosave, ClearMark, Rewind, RestoreOne, RewindStops, Flush
  <2>3. QED
    BY <2>1, <2>2 DEF MemoryInv, Live
<1>4. CASE Begin
  <2> DEFINE cp == [uid |-> Len(past) + 1, index |-> Len(msgs), snaps |-> Empty]
  <2>1. m'.cps = With(m.cps, m.turn, cp) /\ m.turn \notin DOMAIN m.cps
    BY <1>4, BeginFacts
  <2>2. /\ DOMAIN m'.cps = DOMAIN m.cps \cup {m.turn} /\ m'.cps[m.turn] = cp
        /\ \A t \in DOMAIN m.cps : m'.cps[t] = m.cps[t]
    BY <2>1 DEF With
  <2>3. /\ exact' = exact \cup {Len(past) + 1} /\ folded' = folded /\ msgs' = msgs
        /\ round'.start = Len(msgs)
    BY <1>4 DEF Begin
  <2>4. past'[Len(past) + 1].msgs = msgs /\ \A u \in 1..Len(past) : past'[u] = past[u]
    BY <1>4, BeginPast
  <2>5. StartsIn(msgs', cp, past') /\ cp.index <= round'.start
    BY <2>3, <2>4, <1>0, PrefixFacts DEF StartsIn
  <2>6. ASSUME NEW t \in DOMAIN m.cps, m.cps[t].uid \in Live'
        PROVE  StartsIn(msgs', m.cps[t], past') /\ m.cps[t].index <= round'.start
    <3>1. m.cps[t].uid \in Live /\ m.cps[t].uid \in 1..Len(past)
      BY <2>3, <2>6, UidFacts DEF Live
    <3>2. StartsIn(msgs, m.cps[t], past)
      BY <3>1 DEF MemoryInv
    <3>3. QED
      BY <3>1, <3>2, <2>3, <2>4 DEF StartsIn
  <2> HIDE DEF cp
  <2>7. QED
    BY <2>2, <2>5, <2>6 DEF MemoryInv
<1>5. CASE \E p \in Paths : Edit(p)
  <2>1. PICK p \in Paths : Edit(p)
    BY <1>5
  <2>2. /\ DOMAIN m'.cps = DOMAIN m.cps
        /\ \A t \in DOMAIN m.cps : m'.cps[t].uid = m.cps[t].uid /\ m'.cps[t].index = m.cps[t].index
    BY <2>1, EditKeeps
  <2>3. /\ exact' = exact /\ folded' = folded /\ past' = past /\ msgs' = msgs /\ round' = round
        /\ mode' = mode
    BY <2>1 DEF Edit, history
  <2>4. QED
    BY <2>2, <2>3 DEF MemoryInv, Live, StartsIn, InTurn
<1>6. CASE Cut
  <2> DEFINE b == m.bound[job.turn]
  <2>1. /\ b \in 0..Len(msgs) /\ \A t \in DOMAIN m'.cps : t \in DOMAIN m.cps /\ m'.cps[t] = m.cps[t]
    BY <1>6, CutFacts
  <2>2. /\ exact' = exact \ Uids(m.cps, {t \in DOMAIN m.cps : m.cps[t].index > b}) /\ folded' = folded
        /\ past' = past /\ msgs' = Prefix(msgs, b) /\ mode' = "remove"
    BY <1>6 DEF Cut
  <2> SUFFICES ASSUME NEW t \in DOMAIN m'.cps, m'.cps[t].uid \in Live'
               PROVE  StartsIn(msgs', m.cps[t], past)
    BY <2>1, <2>2 DEF MemoryInv, InTurn
  <2>3. m.cps[t].uid \in Live /\ ~(m.cps[t].index > b)
    BY <2>1, <2>2 DEF Live, Uids
  <2>4. StartsIn(msgs, m.cps[t], past) /\ m.cps[t].index \in 0..b
    BY <1>0, <2>1, <2>3 DEF MemoryInv
  <2>5. msgs' \in Talks /\ m.cps[t].index <= Len(msgs') /\ Prefix(msgs', m.cps[t].index) = Prefix(msgs, m.cps[t].index)
    BY <1>0, <2>1, <2>2, <2>4, PrefixFacts
  <2>6. QED
    BY <1>0, <2>1, <2>4, <2>5, StartKept
<1>7. CASE \E k \in job.todo : RemoveOne(k)
  <2>1. /\ m' = m /\ exact' \subseteq exact /\ folded' = folded /\ msgs' = msgs /\ past' = past
        /\ mode' = "remove"
    BY <1>7, RemoveFacts DEF RemoveOne
  <2>2. QED
    BY <2>1 DEF MemoryInv, Live, InTurn
<1>8. CASE \E t \in DOMAIN m.bound : Fork(t)
  BY <1>8, EmptyStore DEF Fork, Fresh, MemoryInv
<1>9. CASE \E t \in DOMAIN m.bound : \E u \in BOOLEAN : Summarize(t, u)
  <2>1. m'.cps = m.cps /\ folded' = 1..Len(past) /\ exact' = exact
    BY <1>9 DEF Summarize, Cleared, StoreOK
  <2>2. QED
    BY <2>1, UidFacts DEF MemoryInv, Live
<1>10. CASE Crash
  BY <1>10, EmptyStore DEF Crash, Fresh, MemoryInv
<1>11. CASE Resume
  <2>1. /\ m'.cps = disk /\ exact' = exact \ folded /\ folded' = folded /\ past' = past
        /\ msgs' = Recovered /\ mode' = "idle" /\ mode = "down"
    BY <1>11 DEF Resume, Loaded
  <2> SUFFICES ASSUME NEW t \in DOMAIN disk, disk[t].uid \in Live
               PROVE  StartsIn(Recovered, disk[t], past)
    BY <2>1 DEF MemoryInv, InTurn, Live
  <2>2. Written(disk[t]) /\ disk[t].index \in Nat
    BY <2>1, UidFacts DEF FileInv, SavedInv
  <2>3. QED
    BY <2>2, RecoveredFacts DEF Written, StartsIn, DataOK, Talks
<1>12. QED
  BY <1>1, <1>2, <1>3, <1>4, <1>5, <1>6, <1>7, <1>8, <1>9, <1>10, <1>11, Steps

LEMMA MarkStep ==
  ASSUME IInv, [Next]_vars
  PROVE  MarkInv'
<1> USE DEF IInv, MarkInv
<1>1. CASE Plain
  BY <1>1 DEF Plain, vars, Say, Autosave, Cancelled, ClearMark, EndTurn, NextRound, Compact,
     Rewind, RestoreOne, RewindStops, Flush
<1>2. CASE Begin \/ (\E p \in Paths : Edit(p)) \/ Cut \/ (\E k \in job.todo : RemoveOne(k))
  BY <1>2 DEF Begin, Edit, Cut, RemoveOne
<1>3. CASE (\E t \in DOMAIN m.bound : Fork(t))
           \/ (\E t \in DOMAIN m.bound : \E u \in BOOLEAN : Summarize(t, u)) \/ Crash \/ Resume
  BY <1>3 DEF Fork, Summarize, Crash, Resume
<1>4. QED
  BY <1>1, <1>2, <1>3, Steps

LEMMA DiskStep ==
  ASSUME IInv, [Next]_vars
  PROVE  DiskInv'
<1> USE DEF IInv, Shapes
<1>1. CASE Plain
  <2>1. m' = m /\ disk' = disk
    BY <1>1, PlainFacts
  <2>2. exact' \subseteq exact /\ (mode' # "down" => mode # "down")
    BY <1>1 DEF Plain, vars, history, Say, Autosave, Cancelled, ClearMark, EndTurn, NextRound, Compact,
       Rewind, RestoreOne, RewindStops, Flush
  <2>3. mode = "remove" => (mode' = "remove" /\ job' = job) \/ job.todo = {}
    BY <1>1 DEF Plain, vars, Say, Autosave, Cancelled, ClearMark, EndTurn, NextRound, Compact,
       Rewind, RestoreOne, RewindStops, Flush
  <2>4. QED
    BY <2>1, <2>2, <2>3 DEF DiskInv
<1>2. CASE Begin
  <2> DEFINE cp == [uid |-> Len(past) + 1, index |-> Len(msgs), snaps |-> Empty]
  <2>1. /\ m'.cps = With(m.cps, m.turn, cp) /\ m.turn \notin DOMAIN m.cps
        /\ disk' \in {With(disk, m.turn, cp), disk, Without(disk, {m.turn})}
    BY <1>2, BeginFacts
  <2>2. /\ DOMAIN m'.cps = DOMAIN m.cps \cup {m.turn} /\ m'.cps[m.turn] = cp
        /\ \A t \in DOMAIN m.cps : m'.cps[t] = m.cps[t]
    BY <2>1 DEF With
  <2>3. \A t \in DOMAIN disk' : (t \in DOMAIN disk /\ disk'[t] = disk[t]) \/ (t = m.turn /\ disk'[t] = cp)
    BY <2>1 DEF With, Without
  <2>4. exact' = exact \cup {Len(past) + 1} /\ mode = "idle"
    BY <1>2 DEF Begin
  <2> SUFFICES ASSUME NEW t \in DOMAIN disk', disk'[t].uid \in exact'
               PROVE  t \in DOMAIN m'.cps /\ m'.cps[t].uid = disk'[t].uid /\ m'.cps[t].index = disk'[t].index
    BY DEF DiskInv
  <2>5. CASE t = m.turn /\ disk'[t] = cp
    BY <2>2, <2>5
  <2>6. CASE t \in DOMAIN disk /\ disk'[t] = disk[t]
    <3>1. disk[t].uid \in exact
      BY <2>4, <2>6, UidFacts
    <3>2. t \in DOMAIN m.cps /\ m.cps[t].uid = disk[t].uid /\ m.cps[t].index = disk[t].index
      BY <3>1, <2>4, <2>6 DEF DiskInv
    <3>3. QED
      BY <3>2, <2>2, <2>6
  <2>7. QED
    BY <2>3, <2>5, <2>6
<1>3. CASE \E p \in Paths : Edit(p)
  <2>1. PICK p \in Paths : Edit(p)
    BY <1>3
  <2> DEFINE cp == Snapped(m.cps[m.cur], p, files[p])
  <2>2. /\ DOMAIN m'.cps = DOMAIN m.cps /\ m'.cps[m.cur] = cp /\ m.cur \in DOMAIN m.cps
        /\ \A t \in DOMAIN m.cps : m'.cps[t].uid = m.cps[t].uid /\ m'.cps[t].index = m.cps[t].index
    BY <2>1, EditKeeps, EditFacts
  <2>3. disk' \in {With(disk, m.cur, cp), disk, Without(disk, {m.cur})}
    BY <2>1, EditFacts
  <2>4. \A t \in DOMAIN disk' : (t \in DOMAIN disk /\ disk'[t] = disk[t]) \/ (t = m.cur /\ disk'[t] = m'.cps[t])
    BY <2>2, <2>3 DEF With, Without
  <2>5. exact' = exact /\ mode = "turn"
    BY <2>1 DEF Edit, history
  <2> HIDE DEF cp
  <2>6. QED
    BY <2>2, <2>4, <2>5 DEF DiskInv
<1>4. CASE Cut
  <2>1. /\ DOMAIN m'.cps = {t \in DOMAIN m.cps : t < job.turn}
        /\ \A t \in DOMAIN m'.cps : m'.cps[t] = m.cps[t]
    BY <1>4, CutFacts
  <2>2. /\ exact' \subseteq exact /\ mode = "restore" /\ mode' = "remove" /\ disk' = disk
        /\ job' = [job EXCEPT !.todo = From(m.cps, job.turn)]
    BY <1>4 DEF Cut, Removals
  <2>3. job'.todo = From(m.cps, job.turn)
    BY <2>2 DEF ControlOK
  <2>4. \A t \in DOMAIN m.cps : t \in DOMAIN m'.cps \/ t \in job'.todo
    BY <2>1, <2>3, <1>4, CutFacts, Bounds DEF From, StoreOK, IsStore
  <2>5. QED
    BY <2>1, <2>2, <2>4 DEF DiskInv
<1>5. CASE \E k \in job.todo : RemoveOne(k)
  <2>1. PICK k \in job.todo : RemoveOne(k)
    BY <1>5
  <2>2. m' = m /\ mode = "remove" /\ mode' = mode /\ job' = [job EXCEPT !.todo = @ \ {k}]
    BY <2>1, RemoveFacts
  <2>3. job'.todo = job.todo \ {k}
    BY <2>2 DEF ControlOK
  <2>4. /\ exact' \subseteq exact /\ \A t \in DOMAIN disk' : t \in DOMAIN disk /\ disk'[t] = disk[t]
        /\ k \in DOMAIN disk' => disk'[k].uid \notin exact'
    <3>1. CASE disk' = Without(disk, {k}) /\ exact' = exact
      BY <3>1 DEF Without
    <3>2. CASE disk' = disk /\ exact' = exact \ Uids(disk, {k} \cap DOMAIN disk)
      BY <3>2 DEF Uids
    <3>3. QED
      BY <2>1, <3>1, <3>2, RemoveFacts
  <2>5. QED
    BY <2>2, <2>3, <2>4 DEF DiskInv
<1>6. CASE \E t \in DOMAIN m.bound : Fork(t)
  BY <1>6, EmptyStore DEF Fork, DiskInv
<1>7. CASE \E t \in DOMAIN m.bound : \E u \in BOOLEAN : Summarize(t, u)
  <2>1. m'.cps = m.cps /\ exact' = exact /\ disk' = disk /\ mode = "idle"
    BY <1>7 DEF Summarize, Cleared, StoreOK
  <2>2. QED
    BY <2>1 DEF DiskInv
<1>8. CASE Crash
  BY <1>8 DEF Crash, DiskInv
<1>9. CASE Resume
  BY <1>9 DEF Resume, Loaded, DiskInv
<1>10. QED
  BY <1>1, <1>2, <1>3, <1>4, <1>5, <1>6, <1>7, <1>8, <1>9, Steps


(***************************************************************************)
(* The session file.                                                       *)
(***************************************************************************)
\* A checkpoint of the store or of its directory.
Entry(cp) == (\E t \in DOMAIN m.cps : cp = m.cps[t]) \/ (\E t \in DOMAIN disk : cp = disk[t])

\* While no removal is left to do, what the memory keeps of the live turns of
\* the store it keeps of those of the directory.
LEMMA EntryFacts ==
  ASSUME IInv, NEW cp, Entry(cp), cp.uid \in Live
  PROVE  /\ cp.index \in Nat /\ cp.index \in 0..MaxMessages /\ cp.uid \in 1..Len(past)
         /\ mode # "down" /\ (mode = "remove" => job.todo = {}) =>
              StartsIn(msgs, cp, past) /\ (InTurn => cp.index <= round.start)
         /\ ~dirty => Written(cp)
<1> USE DEF IInv, Shapes, Entry
<1>1. cp.index \in 0..MaxMessages /\ cp.uid \in 1..Len(past)
  BY UidFacts
<1>2. ~dirty => Written(cp)
  BY DEF FileInv
<1>3. ASSUME mode # "down", mode = "remove" => job.todo = {}
      PROVE  StartsIn(msgs, cp, past) /\ (InTurn => cp.index <= round.start)
  <2>1. PICK t \in DOMAIN m.cps : m.cps[t].uid = cp.uid /\ m.cps[t].index = cp.index
    BY <1>3 DEF DiskInv, Live
  <2>2. StartsIn(msgs, m.cps[t], past) /\ (InTurn => m.cps[t].index <= round.start)
    BY <2>1 DEF MemoryInv
  <2>3. QED
    BY <2>1, <2>2 DEF StartsIn
<1>4. QED
  BY <1>1, <1>2, <1>3, Bounds

LEMMA FilePlain ==
  ASSUME IInv, Plain
  PROVE  FileInv'
<1> USE DEF IInv, Shapes
<1>1. m' = m /\ disk' = disk /\ past' = past /\ folded' = folded /\ exact' \subseteq exact
  BY PlainFacts DEF Plain, vars, history, Say, Autosave, Cancelled, ClearMark, EndTurn,
     NextRound, Compact, Rewind, RestoreOne, RewindStops, Flush
<1> SUFFICES ASSUME NEW cp, Entry(cp), cp.uid \in Live, ~dirty'
             PROVE  StartsIn(transcript', cp, past) /\ (marker' # NoRound => cp.index <= marker'.start)
  BY <1>1 DEF FileInv, Live, Written, Entry
<1>2. /\ cp.index \in Nat
      /\ mode # "down" /\ (mode = "remove" => job.todo = {}) =>
           StartsIn(msgs, cp, past) /\ (InTurn => cp.index <= round.start)
      /\ ~dirty => StartsIn(transcript, cp, past) /\ (marker # NoRound => cp.index <= marker.start)
  BY EntryFacts DEF Written
<1>3. CASE Say \/ ClearMark \/ RewindStops \/ (\E t \in DOMAIN m.cps : \E s \in Scopes : Rewind(t, s))
           \/ (\E p \in Paths : RestoreOne(p)) \/ UNCHANGED vars
  BY <1>2, <1>3 DEF Say, ClearMark, RewindStops, Rewind, RestoreOne, vars
<1>4. CASE Autosave
  BY <1>2, <1>4, Saved DEF Autosave, MarkInv, InTurn
<1>5. CASE Flush
  BY <1>2, <1>5, Saved DEF Flush, MarkInv, InTurn
<1>6. CASE Cancelled
  <2>1. round \in Rounds /\ msgs \in Talks /\ marker' = marker /\ marker = round /\ InTurn /\ mode = "turn"
    BY <1>6 DEF Cancelled, ControlOK, DataOK, MarkInv, InTurn
  <2>2. CASE transcript' = Stripped(msgs, round)
    <3>1. StartsIn(msgs, cp, past) /\ cp.index <= round.start /\ cp.index \in 0..Len(msgs)
      BY <1>2, <2>1 DEF StartsIn, Talks
    <3>2. /\ Stripped(msgs, round) \in Talks /\ cp.index <= Len(Stripped(msgs, round))
          /\ Prefix(Stripped(msgs, round), cp.index) = Prefix(msgs, cp.index)
      BY <2>1, <3>1, StripFacts
    <3>3. StartsIn(transcript', cp, past)
      BY <1>2, <2>1, <2>2, <3>1, <3>2, StartKept
    <3>4. QED
      BY <2>1, <3>1, <3>3
  <2>3. CASE transcript' = transcript /\ dirty' = dirty
    BY <1>2, <2>1, <2>3
  <2>4. QED
    BY <1>6, <2>2, <2>3 DEF Cancelled, FlushStripped
<1>7. CASE EndTurn \/ NextRound
  <2>1. StartsIn(transcript', cp, past)
    <3>1. (transcript' = transcript /\ ~dirty) \/ transcript' = msgs
      BY <1>7, Saved DEF EndTurn, NextRound, SaveRound
    <3>2. StartsIn(msgs, cp, past)
      BY <1>2, <1>7 DEF EndTurn, NextRound
    <3>3. QED
      BY <3>1, <3>2, <1>2
  <2>2. marker' # NoRound => cp.index <= marker'.start
    BY <1>2, <1>7 DEF EndTurn, NextRound, MarkInv, StartsIn
  <2>3. QED
    BY <2>1, <2>2
<1>8. CASE Compact
  BY <1>8 DEF Compact
<1>9. QED
  BY <1>3, <1>4, <1>5, <1>6, <1>7, <1>8 DEF Plain

LEMMA FileStep ==
  ASSUME IInv, [Next]_vars
  PROVE  FileInv'
<1> USE DEF IInv, Shapes
<1>1. CASE Plain
  BY <1>1, FilePlain
<1>2. CASE Begin
  <2> DEFINE new == [uid |-> Len(past) + 1, index |-> Len(msgs), snaps |-> Empty]
  <2>1. /\ m'.cps = With(m.cps, m.turn, new)
        /\ disk' \in {With(disk, m.turn, new), disk, Without(disk, {m.turn})}
    BY <1>2, BeginFacts
  <2>2. /\ \A t \in DOMAIN m'.cps : m'.cps[t] = new \/ Entry(m'.cps[t])
        /\ \A t \in DOMAIN disk' : disk'[t] = new \/ Entry(disk'[t])
    BY <2>1 DEF With, Without, Entry
  <2>3. /\ exact' = exact \cup {Len(past) + 1} /\ folded' = folded /\ dirty' = dirty
        /\ transcript' = transcript /\ marker'.start = Len(msgs) /\ mode = "idle"
    BY <1>2 DEF Begin
  <2>4. past'[Len(past) + 1].msgs = msgs /\ \A u \in 1..Len(past) : past'[u] = past[u]
    BY <1>2, BeginPast
  <2> SUFFICES ASSUME NEW cp, cp = new \/ Entry(cp), cp.uid \in Live', ~dirty
               PROVE  StartsIn(transcript, cp, past') /\ cp.index <= Len(msgs)
    BY <2>2, <2>3 DEF FileInv, Written
  <2>5. transcript = msgs /\ msgs \in Talks /\ Len(msgs) \in Nat
    BY <2>3 DEF SavedInv, DataOK, Talks
  <2>6. CASE cp = new
    BY <2>4, <2>5, <2>6, PrefixFacts DEF StartsIn
  <2>7. CASE cp # new
    <3> HIDE DEF new
    <3>0. Entry(cp)
      BY <2>7
    <3>1. cp.uid \in 1..Len(past)
      BY <3>0, UidFacts DEF Entry
    <3>2. cp.uid \in Live
      BY <3>1, <2>3, UidFacts DEF Live
    <3>3. StartsIn(msgs, cp, past)
      BY <3>0, <3>2, <2>3, EntryFacts
    <3>4. QED
      BY <3>1, <3>3, <2>4, <2>5 DEF StartsIn
  <2>8. QED
    BY <2>6, <2>7
<1>3. CASE \E p \in Paths : Edit(p)
  <2>1. PICK p \in Paths : Edit(p)
    BY <1>3
  <2> DEFINE new == Snapped(m.cps[m.cur], p, files[p])
  <2>2. /\ DOMAIN m'.cps = DOMAIN m.cps /\ m'.cps[m.cur] = new /\ m.cur \in DOMAIN m.cps
        /\ \A t \in DOMAIN m.cps : m'.cps[t].uid = m.cps[t].uid /\ m'.cps[t].index = m.cps[t].index
    BY <2>1, EditKeeps, EditFacts
  <2>3. disk' \in {With(disk, m.cur, new), disk, Without(disk, {m.cur})}
    BY <2>1, EditFacts
  <2> HIDE DEF new
  <2>4. \A t \in DOMAIN disk' : (t \in DOMAIN disk /\ disk'[t] = disk[t]) \/ (t = m.cur /\ disk'[t] = m'.cps[t])
    BY <2>2, <2>3 DEF With, Without
  <2>5. /\ exact' = exact /\ folded' = folded /\ past' = past /\ dirty' = dirty
        /\ transcript' = transcript /\ marker' = marker
    BY <2>1 DEF Edit, history
  <2>6. ASSUME NEW t \in DOMAIN m.cps, m'.cps[t].uid \in Live, ~dirty
        PROVE  StartsIn(transcript, m'.cps[t], past) /\ (marker # NoRound => m'.cps[t].index <= marker.start)
    <3>1. m.cps[t].uid \in Live
      BY <2>2, <2>6
    <3>2. Written(m.cps[t])
      BY <3>1, <2>6 DEF FileInv
    <3>3. QED
      BY <3>2, <2>2 DEF Written, StartsIn
  <2>7. ASSUME NEW t \in DOMAIN disk', disk'[t].uid \in Live, ~dirty
        PROVE  StartsIn(transcript, disk'[t], past) /\ (marker # NoRound => disk'[t].index <= marker.start)
    <3>1. CASE t \in DOMAIN disk /\ disk'[t] = disk[t]
      BY <3>1, <2>7 DEF FileInv, Written
    <3>2. CASE t = m.cur /\ disk'[t] = m'.cps[t]
      BY <3>2, <2>2, <2>6, <2>7
    <3>3. QED
      BY <2>4, <3>1, <3>2
  <2>8. QED
    BY <2>2, <2>5, <2>6, <2>7 DEF FileInv, Written, Live
<1>4. CASE Cut
  <2>1. \A t \in DOMAIN m'.cps : t \in DOMAIN m.cps /\ m'.cps[t] = m.cps[t]
    BY <1>4, CutFacts
  <2>2. /\ exact' \subseteq exact /\ folded' = folded /\ past' = past /\ dirty' = dirty
        /\ transcript' = transcript /\ marker' = marker /\ disk' = disk
    BY <1>4 DEF Cut
  <2>3. QED
    BY <2>1, <2>2 DEF FileInv, Live, Written, StartsIn
<1>5. CASE \E k \in job.todo : RemoveOne(k)
  <2>1. /\ m' = m /\ exact' \subseteq exact /\ folded' = folded /\ past' = past /\ dirty' = dirty
        /\ transcript' = transcript /\ marker' = marker
    BY <1>5, RemoveFacts DEF RemoveOne
  <2>2. \A t \in DOMAIN disk' : t \in DOMAIN disk /\ disk'[t] = disk[t]
    BY <1>5 DEF RemoveOne, Without
  <2>3. QED
    BY <2>1, <2>2 DEF FileInv, Live, Written, StartsIn
<1>6. CASE \E t \in DOMAIN m.bound : Fork(t)
  BY <1>6, EmptyStore DEF Fork, Fresh, FileInv
<1>7. CASE \E t \in DOMAIN m.bound : \E u \in BOOLEAN : Summarize(t, u)
  <2>1. m'.cps = m.cps /\ folded' = 1..Len(past) /\ exact' = exact /\ disk' = disk
    BY <1>7 DEF Summarize, Cleared, StoreOK
  <2>2. QED
    BY <2>1, UidFacts DEF FileInv, Live
<1>8. CASE Crash
  <2>1. /\ m'.cps = Empty /\ folded' = folded /\ past' = past /\ disk' = disk
        /\ transcript' = transcript /\ marker' = marker /\ exact' = IF dirty THEN {} ELSE exact
    BY <1>8 DEF Crash, Fresh
  <2>2. QED
    BY <2>1, EmptyStore DEF FileInv, Live, Written, StartsIn
<1>9. CASE Resume
  <2>1. /\ m'.cps = disk /\ disk' = disk /\ exact' \subseteq exact /\ folded' = folded /\ past' = past
        /\ transcript' = Recovered /\ marker' = NoRound /\ mode = "down"
    BY <1>9 DEF Resume, Loaded
  <2> SUFFICES ASSUME NEW t \in DOMAIN disk, disk[t].uid \in Live
               PROVE  StartsIn(Recovered, disk[t], past)
    BY <2>1 DEF FileInv, Live, Written
  <2>2. Written(disk[t]) /\ disk[t].index \in Nat
    BY <2>1, UidFacts DEF FileInv, SavedInv
  <2>3. QED
    BY <2>2, RecoveredFacts DEF Written, StartsIn, DataOK, Talks
<1>10. QED
  BY <1>1, <1>2, <1>3, <1>4, <1>5, <1>6, <1>7, <1>8, <1>9, Steps


\* Only a compaction counts one.
LEMMA FoldsKept ==
  ASSUME Shapes, Say \/ ClearMark \/ Autosave \/ Cancelled \/ EndTurn \/ NextRound \/ \E p \in Paths : Edit(p)
  PROVE  used'["folds"] = used["folds"]
<1> USE Faulted DEF Shapes, ControlOK, Succeeds
<1>1. CASE Say \/ ClearMark
  BY <1>1 DEF Say, ClearMark
<1>2. CASE Autosave
  BY <1>2 DEF Autosave, SaveMessages
<1>3. CASE Cancelled
  BY <1>3 DEF Cancelled, FlushStripped
<1>4. CASE EndTurn \/ NextRound
  BY <1>4 DEF EndTurn, NextRound, SaveRound, SaveMessages
<1>5. CASE \E p \in Paths : Edit(p)
  BY <1>5 DEF Edit, Persist
<1>6. QED
  BY <1>1, <1>2, <1>3, <1>4, <1>5

\* Within a turn without a compaction the file holds a prefix of the memory
\* that reaches to the start of the round.
Trails(ms, tr, start) ==
  start <= Len(tr) /\ Len(tr) <= Len(ms) /\ tr = Prefix(ms, Len(tr))

LEMMA SavedStep ==
  ASSUME IInv, [Next]_vars
  PROVE  SavedInv'
<1> USE DEF IInv, Shapes
<1>0. /\ msgs \in Talks /\ transcript \in Talks /\ Len(msgs) \in Nat /\ Len(transcript) \in Nat
      /\ Prefix(msgs, Len(msgs)) = msgs
  <2>1. msgs \in Talks /\ transcript \in Talks /\ Len(msgs) \in Nat /\ Len(transcript) \in Nat
    BY DEF DataOK, Talks
  <2>2. QED
    BY <2>1, PrefixFacts
<1>1. ASSUME InTurn, used["folds"] = 0
      PROVE  /\ round.start <= Len(msgs) /\ round.start \in Nat /\ round \in Rounds
             /\ ~dirty => Trails(msgs, transcript, round.start)
  BY <1>1 DEF SavedInv, Trails, ControlOK, Rounds
<1>2. CASE Begin
  <2>1. /\ InTurn' /\ mode' = "turn" /\ round'.start = Len(msgs) /\ msgs' = msgs /\ transcript' = transcript
        /\ dirty' = dirty /\ (~dirty => transcript = msgs)
    BY <1>2 DEF Begin, InTurn, SavedInv
  <2>2. QED
    BY <2>1, <1>0 DEF SavedInv
<1>3. CASE Say
  <2>1. PICK v \in {Len(past), -Len(past)} : msgs' = Append(msgs, v)
    BY <1>3 DEF Say
  <2>2. v \in Messages /\ Len(msgs) < MaxMessages
    BY <1>3, <2>1, Bounds DEF Say, HistoryOK
  <2>3. Len(msgs') = Len(msgs) + 1 /\ \A n \in 0..Len(msgs) : Prefix(msgs', n) = Prefix(msgs, n)
    BY <1>0, <2>1, <2>2, AppendFacts
  <2>4. /\ InTurn /\ mode' = "turn" /\ round' = round /\ transcript' = transcript /\ dirty' = dirty
        /\ used' = used
    BY <1>3 DEF Say, InTurn
  <2>5. QED
    BY <1>0, <1>1, <2>3, <2>4 DEF SavedInv, Trails
<1>4. CASE (\E p \in Paths : Edit(p)) \/ ClearMark
  <2>1. /\ InTurn /\ mode' \in {"turn", "saving"} /\ round' = round /\ transcript' = transcript
        /\ dirty' = dirty /\ msgs' = msgs /\ used'["folds"] = used["folds"]
    BY <1>4, FoldsKept DEF Edit, ClearMark, InTurn
  <2>2. QED
    BY <1>1, <2>1 DEF SavedInv, Trails
<1>5. CASE Autosave
  <2>1. /\ InTurn /\ mode' = "turn" /\ round' = round /\ msgs' = msgs /\ used'["folds"] = used["folds"]
        /\ transcript' = msgs \/ dirty'
    BY <1>5, FoldsKept, Saved DEF Autosave, InTurn
  <2>2. QED
    BY <1>0, <1>1, <2>1 DEF SavedInv
<1>6. CASE Cancelled
  <2>1. /\ InTurn /\ mode' = "over" /\ round' = round /\ used'["folds"] = used["folds"]
        /\ msgs' = Stripped(msgs, round)
    BY <1>6, FoldsKept DEF Cancelled, InTurn
  <2> SUFFICES ASSUME used["folds"] = 0
               PROVE  /\ round.start <= Len(msgs')
                      /\ ~dirty' => Trails(msgs', transcript', round.start)
    BY <2>1 DEF SavedInv, Trails
  <2>2. /\ msgs' \in Talks
        /\ Len(msgs) <= round.start => msgs' = msgs
        /\ Len(msgs) > round.start => Len(msgs') >= round.start
    BY <1>0, <1>1, <2>1, StripFacts
  <2>3. Len(msgs') \in Nat /\ Prefix(msgs', Len(msgs')) = msgs'
    <3>1. Len(msgs') \in Nat
      BY <2>2 DEF Talks
    <3>2. QED
      BY <2>2, <3>1, PrefixFacts
  <2>4. round.start <= Len(msgs')
    BY <1>0, <1>1, <2>1, <2>2
  <2>5. CASE Len(msgs) <= round.start /\ transcript' = transcript /\ dirty' = dirty
    BY <1>1, <2>1, <2>2, <2>4, <2>5
  <2>6. CASE transcript' = msgs' \/ dirty'
    BY <2>3, <2>4, <2>6 DEF Trails
  <2>7. QED
    BY <1>6, <2>1, <2>5, <2>6 DEF Cancelled, FlushStripped
<1>7. CASE EndTurn \/ NextRound
  <2>1. InTurn /\ mode = "saving" /\ msgs' = msgs /\ SaveRound
    BY <1>7 DEF EndTurn, NextRound, InTurn
  <2>2. ~dirty' => transcript' = msgs
    <3>1. CASE Len(msgs) > round.start
      <4>1. Len(msgs) <= round.start \/ SaveMessages
        BY <2>1 DEF SaveRound
      <4>2. round.start \in Int
        BY <2>1 DEF ControlOK, Rounds
      <4>3. QED
        BY <3>1, <4>1, <4>2, <1>0, Saved
    <3>2. CASE ~(Len(msgs) > round.start)
      <4>1. Len(msgs) <= round.start
        BY <3>2, <2>1, <1>0 DEF ControlOK, Rounds
      <4>2. transcript' = transcript /\ dirty' = (dirty \/ used["folds"] > 0) /\ used["folds"] \in Nat
        BY <2>1, <4>1 DEF SaveRound, ControlOK, Kinds
      <4> SUFFICES ASSUME ~dirty' PROVE transcript = msgs
        BY <4>2
      <4>3. ~dirty /\ used["folds"] = 0
        <5>1. ~dirty /\ ~(used["folds"] > 0)
          BY Zenon, <4>2
        <5>2. QED
          BY <5>1, <4>2
      <4>4. Trails(msgs, transcript, round.start)
        BY <1>1, <2>1, <4>3
      <4>5. Len(transcript) = Len(msgs)
        BY <4>1, <4>4, <1>0, <1>1, <2>1, <4>3 DEF Trails
      <4>6. QED
        BY <4>4, <4>5, <1>0 DEF Trails
    <3>3. QED
      BY <3>1, <3>2
  <2>3. \/ mode' = "idle"
        \/ mode' = "turn" /\ round'.start = Len(msgs)
    BY <1>7 DEF EndTurn, NextRound
  <2>4. QED
    BY <1>0, <2>1, <2>2, <2>3 DEF SavedInv, InTurn
<1>8. CASE Compact
  <2>1. used'["folds"] # 0 /\ dirty' /\ mode' = mode /\ mode # "down"
    BY <1>8, Counted DEF Compact, ControlOK, Kinds
  <2>2. QED
    BY <2>1 DEF SavedInv, InTurn
<1>9. CASE (\E t \in DOMAIN m.cps : \E s \in Scopes : Rewind(t, s)) \/ (\E p \in Paths : RestoreOne(p))
           \/ RewindStops
  <2>1. /\ mode \in {"idle", "restore"} /\ mode' \in {"idle", "restore"} /\ msgs' = msgs
        /\ transcript' = transcript /\ dirty' = dirty
    BY <1>9 DEF Rewind, RestoreOne, RewindStops
  <2>2. QED
    BY <2>1 DEF SavedInv, InTurn
<1>10. CASE Cut \/ (\E k \in job.todo : RemoveOne(k))
            \/ (\E t \in DOMAIN m.bound : \E u \in BOOLEAN : Summarize(t, u))
  <2>1. mode' = "remove"
    BY <1>10 DEF Cut, RemoveOne, Summarize
  <2>2. QED
    BY <2>1 DEF SavedInv, InTurn
<1>11. CASE Flush
  BY <1>11, Saved DEF Flush, SavedInv, InTurn
<1>12. CASE \E t \in DOMAIN m.bound : Fork(t)
  BY <1>12 DEF Fork, SavedInv, InTurn
<1>13. CASE Crash \/ Resume
  BY <1>13 DEF Crash, Resume, SavedInv, InTurn
<1>14. CASE UNCHANGED vars
  BY <1>14 DEF vars, SavedInv, InTurn
<1>15. QED
  BY <1>2, <1>3, <1>4, <1>5, <1>6, <1>7, <1>8, <1>9, <1>10, <1>11, <1>12, <1>13, <1>14 DEF Next, Scopes


(***************************************************************************)
(* Rewinds, and the contents they bring back.                              *)
(***************************************************************************)
LEMMA JobStep ==
  ASSUME IInv, [Next]_vars
  PROVE  JobInv'
<1> USE DEF IInv, Shapes
<1>1. CASE \E t \in DOMAIN m.cps : \E s \in Scopes : Rewind(t, s)
  <2>1. PICK t \in DOMAIN m.cps, s \in Scopes : Rewind(t, s)
    BY <1>1
  <2>2. /\ mode' = "restore" /\ m' = m /\ files' = files
        /\ job'.turn = t /\ job'.scope = s /\ job'.todo \subseteq Touched(m.cps, t)
        /\ s # "conversation" =>
             /\ job'.todo = Touched(m.cps, t)
             /\ clean' = clean \ Uids(m.cps, From(m.cps, t + 1))
        /\ s = "conversation" => job'.todo = {}
    BY <2>1 DEF Rewind
  <2>3. ASSUME s # "conversation", NEW k \in DOMAIN m.cps, k > t
        PROVE  m.cps[k].uid \notin clean'
    <3>1. k \in From(m.cps, t + 1)
      BY <2>3, Bounds DEF From, StoreOK, IsStore
    <3>2. QED
      BY <2>2, <2>3, <3>1 DEF Uids
  <2>4. QED
    BY <2>2, <2>3 DEF JobInv
<1>2. CASE \E p \in Paths : RestoreOne(p)
  <2>1. PICK p \in Paths : RestoreOne(p)
    BY <1>2
  <2>2. /\ mode = "restore" /\ mode' = "restore" /\ m' = m /\ clean' = clean /\ p \in job.todo
        /\ \/ /\ files' = [files EXCEPT ![p] = Earliest(m.cps, job.turn, p)]
              /\ job' = [job EXCEPT !.todo = @ \ {p}]
           \/ files' = files /\ job' = [job EXCEPT !.todo = @ \ {p}, !.failed = TRUE]
    BY <2>1 DEF RestoreOne, history
  <2>3. /\ job'.turn = job.turn /\ job'.scope = job.scope /\ job'.todo = job.todo \ {p}
        /\ (files' = [files EXCEPT ![p] = Earliest(m.cps, job.turn, p)] /\ job'.failed = job.failed)
           \/ job'.failed
    BY <2>2 DEF ControlOK
  <2>4. ASSUME NEW q \in Touched(m.cps, job.turn) \ job'.todo, job.scope # "conversation"
        PROVE  job'.failed \/ files'[q] = Earliest(m.cps, job.turn, q)
    <3>0. CASE job'.failed
      BY <3>0
    <3>1. CASE /\ job'.failed = job.failed /\ q = p
               /\ files' = [files EXCEPT ![p] = Earliest(m.cps, job.turn, p)]
      BY <3>1, <2>1 DEF DataOK, Files
    <3>2. CASE /\ job'.failed = job.failed /\ q # p
               /\ files' = [files EXCEPT ![p] = Earliest(m.cps, job.turn, p)]
      <4>1. q \in Touched(m.cps, job.turn) \ job.todo
        BY <2>3, <3>2
      <4>2. job.failed \/ files[q] = Earliest(m.cps, job.turn, q)
        BY <4>1, <2>2, <2>4 DEF JobInv
      <4>3. files'[q] = files[q]
        BY <3>2 DEF DataOK, Files
      <4>4. QED
        BY <4>2, <4>3, <3>2
    <3>3. QED
      BY <2>3, <3>0, <3>1, <3>2
  <2>5. QED
    BY <2>2, <2>3, <2>4 DEF JobInv
<1>3. CASE RewindStops \/ Flush \/ Crash
  BY <1>3 DEF RewindStops, Flush, Crash, JobInv
<1>4. CASE Cut \/ (\E k \in job.todo : RemoveOne(k))
  BY <1>4 DEF Cut, RemoveOne, JobInv
<1>5. CASE (\E t \in DOMAIN m.bound : Fork(t)) \/ Begin \/ Say \/ (\E p \in Paths : Edit(p)) \/ Autosave
           \/ Cancelled \/ ClearMark \/ EndTurn \/ NextRound \/ Compact \/ Resume
           \/ (\E t \in DOMAIN m.bound : \E u \in BOOLEAN : Summarize(t, u))
  <2>1. mode \notin {"restore", "remove"} /\ mode' # "restore" /\ job' = job
    BY <1>5 DEF Fork, Begin, Say, Edit, Autosave, Cancelled, ClearMark, EndTurn, NextRound, Compact, Resume,
       Summarize
  <2>2. QED
    BY <2>1 DEF JobInv
<1>6. CASE UNCHANGED vars
  BY <1>6 DEF vars, history, JobInv
<1>7. QED
  BY <1>1, <1>2, <1>3, <1>4, <1>5, <1>6 DEF Next, Scopes

LEMMA FollowStep ==
  ASSUME IInv, [Next]_vars
  PROVE  FollowInv'
<1> USE DEF IInv, Shapes
<1>0. /\ used \in [Kinds -> Nat] /\ IsFunction(disk) /\ IsFunction(m.cps)
      /\ \A S : (S \cap DOMAIN disk = {}) => Without(disk, S) = disk
  BY DEF ControlOK, StoreOK, IsStore, IsFunction, Without
<1>1. ASSUME used["faults"] # 0 PROVE used'["faults"] # 0
  <2>1. Moved
    BY UsedMoves DEF ControlOK
  <2>2. QED
    BY <1>0, <1>1, <2>1 DEF Kinds, Moved
<1> SUFFICES ASSUME used'["faults"] = 0, mode' # "down"
             PROVE  m'.cps = IF mode' = "remove" THEN Without(disk', job'.todo) ELSE disk'
  BY DEF FollowInv
<1>2. used["faults"] = 0 /\ (mode # "down" => m.cps = IF mode = "remove" THEN Without(disk, job.todo) ELSE disk)
  BY <1>1 DEF FollowInv
<1>3. CASE Plain
  <2>1. m' = m /\ disk' = disk
    BY <1>3, PlainFacts
  <2>2. CASE mode' = "remove"
    BY <2>1, <2>2, <1>2, <1>3 DEF Plain, vars, Say, Autosave, Cancelled, ClearMark, EndTurn, NextRound,
       Compact, Rewind, RestoreOne, RewindStops, Flush
  <2>3. CASE mode' # "remove"
    <3>1. mode # "down" /\ (mode = "remove" => job.todo = {})
      BY <2>3, <1>3 DEF Plain, vars, Say, Autosave, Cancelled, ClearMark, EndTurn, NextRound, Compact,
         Rewind, RestoreOne, RewindStops, Flush
    <3>2. QED
      BY <3>1, <2>1, <2>3, <1>0, <1>2
  <2>4. QED
    BY <2>2, <2>3
<1>4. CASE Begin
  <2>1. mode = "idle" /\ mode' = "turn"
    BY <1>4 DEF Begin
  <2> DEFINE new == [uid |-> Len(past) + 1, index |-> Len(msgs), snaps |-> Empty]
  <2>2. m'.cps = With(m.cps, m.turn, new) /\ disk' = With(disk, m.turn, new)
    BY <1>4, BeginFacts
  <2>3. QED
    BY <2>1, <2>2, <1>2
<1>5. CASE \E p \in Paths : Edit(p)
  <2>1. PICK p \in Paths : Edit(p)
    BY <1>5
  <2>2. mode = "turn" /\ mode' = mode
    BY <2>1 DEF Edit
  <2> DEFINE new == Snapped(m.cps[m.cur], p, files[p])
  <2>3. /\ m.cur \in DOMAIN m.cps /\ m' = [m EXCEPT !.cps = [@ EXCEPT ![m.cur] = new]]
        /\ (m' = m /\ disk' = disk) \/ disk' = With(disk, m.cur, new)
    BY <2>1, EditFacts
  <2> HIDE DEF new
  <2>4. m'.cps = [m.cps EXCEPT ![m.cur] = new]
    BY <2>3 DEF StoreOK
  <2>5. [m.cps EXCEPT ![m.cur] = new] = With(m.cps, m.cur, new)
    BY <2>3 DEF With
  <2>6. QED
    BY <2>2, <2>3, <2>4, <2>5, <1>2
<1>6. CASE Cut
  <2>1. /\ mode = "restore" /\ mode' = "remove" /\ disk' = disk /\ job' = [job EXCEPT !.todo = Removals(m, job.turn)]
    BY <1>6 DEF Cut
  <2>2. job'.todo = From(m.cps, job.turn) /\ m'.cps = Without(m.cps, From(m.cps, job.turn))
    BY <2>1, <1>6, CutFacts DEF ControlOK, Removals
  <2>3. QED
    BY <2>1, <2>2, <1>2
<1>7. CASE \E k \in job.todo : RemoveOne(k)
  <2>1. PICK k \in job.todo : RemoveOne(k)
    BY <1>7
  <2>2. /\ m' = m /\ mode = "remove" /\ mode' = mode /\ job' = [job EXCEPT !.todo = @ \ {k}]
        /\ disk' = Without(disk, {k}) /\ k \in job.todo
    BY <2>1, RemoveFacts
  <2>3. job'.todo = job.todo \ {k}
    BY <2>2 DEF ControlOK
  <2>4. Without(Without(disk, {k}), job.todo \ {k}) = Without(disk, job.todo)
    BY <2>2 DEF Without
  <2>5. QED
    BY <2>2, <2>3, <2>4, <1>2
<1>8. CASE \E t \in DOMAIN m.bound : Fork(t)
  BY <1>8 DEF Fork, Fresh
<1>9. CASE \E t \in DOMAIN m.bound : \E u \in BOOLEAN : Summarize(t, u)
  <2>1. /\ m'.cps = m.cps /\ disk' = disk /\ mode = "idle" /\ job' = job /\ job = NoJob
    BY <1>9 DEF Summarize, Cleared, StoreOK, JobInv
  <2>2. QED
    BY <2>1, <1>0, <1>2 DEF NoJob
<1>10. CASE Crash
  BY <1>10 DEF Crash
<1>11. CASE Resume
  BY <1>11 DEF Resume, Loaded
<1>12. QED
  BY <1>3, <1>4, <1>5, <1>6, <1>7, <1>8, <1>9, <1>10, <1>11, Steps


\* Snapshots of equal stores from a turn on are restored alike.
LEMMA SameSnaps ==
  ASSUME NEW n, NEW cps, IsStore(cps, n), NEW n2, NEW cps2, IsStore(cps2, n2), NEW t, NEW fs, NEW p,
         \A k \in From(cps, t) : k \in From(cps2, t) /\ cps2[k].snaps = cps[k].snaps,
         \A k \in From(cps2, t) : k \in From(cps, t) \/ DOMAIN cps2[k].snaps = {}
  PROVE  Restored(cps2, fs, t, p) = Restored(cps, fs, t, p)
<1>1. p \in Touched(cps2, t) <=> p \in Touched(cps, t)
  BY DEF Touched
<1>2. CASE p \notin Touched(cps, t)
  BY <1>1, <1>2 DEF Restored
<1>3. CASE p \in Touched(cps, t)
  <2>1. PICK k \in From(cps, t) :
             /\ p \in DOMAIN cps[k].snaps /\ Earliest(cps, t, p) = cps[k].snaps[p]
             /\ \A j \in From(cps, t) : p \in DOMAIN cps[j].snaps => k <= j
    BY <1>3, EarliestFacts
  <2>2. /\ k \in From(cps2, t) /\ p \in DOMAIN cps2[k].snaps
        /\ \A j \in From(cps2, t) : p \in DOMAIN cps2[j].snaps => k <= j
    BY <2>1
  <2>3. Earliest(cps2, t, p) = cps2[k].snaps[p]
    BY <2>2, EarliestIs
  <2>4. QED
    BY <1>1, <1>3, <2>1, <2>3 DEF Restored
<1>4. QED
  BY <1>2, <1>3

\* A turn's first touch of a file keeps what every clean turn needs of it.
LEMMA EditRestores ==
  ASSUME IInv, NEW p \in Paths, Edit(p), NEW t \in DOMAIN m.cps, NEW q \in Paths
  PROVE  Restored(m'.cps, files', t, q) = Restored(m.cps, files, t, q)
<1> DEFINE new == Snapped(m.cps[m.cur], p, files[p])
<1> USE DEF IInv, Shapes
<1>1. /\ IsStore(m.cps, Len(past)) /\ IsStore(m'.cps, Len(past)) /\ m.cur \in DOMAIN m.cps /\ m.cur \in Nat
      /\ IsCheckpoint(m.cps[m.cur], m.cur, Len(past)) /\ files[p] \in 0..MaxEdits /\ Len(past) \in Nat
  BY EditFacts DEF StoreOK, HistoryOK
<1>2. /\ DOMAIN m'.cps = DOMAIN m.cps /\ m'.cps[m.cur] = new
      /\ \A k \in DOMAIN m.cps : k # m.cur => m'.cps[k] = m.cps[k]
  BY EditKeeps
<1>3. /\ DOMAIN new.snaps = DOMAIN m.cps[m.cur].snaps \cup {p}
      /\ \A x \in DOMAIN m.cps[m.cur].snaps : new.snaps[x] = m.cps[m.cur].snaps[x]
      /\ p \notin DOMAIN m.cps[m.cur].snaps => new.snaps[p] = files[p]
  BY <1>1, SnapOne
<1> HIDE DEF new
<1>4. /\ From(m'.cps, t) = From(m.cps, t) /\ m.cur \in From(m.cps, t)
      /\ \A k \in From(m.cps, t) : k \in DOMAIN m.cps /\ k <= m.cur
  <2>1. mode = "turn"
    BY DEF Edit
  <2>2. \A k \in DOMAIN m.cps : k <= m.cur
    BY <2>1 DEF TurnIsLast, InTurn
  <2>3. \A k \in DOMAIN m.cps : k \in Int
    BY <1>1, Bounds DEF IsStore
  <2>4. QED
    BY <1>1, <1>2, <2>2, <2>3 DEF From
<1>5. CASE q \in Touched(m.cps, t)
  <2>1. PICK k \in From(m.cps, t) :
             /\ q \in DOMAIN m.cps[k].snaps /\ Earliest(m.cps, t, q) = m.cps[k].snaps[q]
             /\ \A j \in From(m.cps, t) : q \in DOMAIN m.cps[j].snaps => k <= j
    BY <1>1, <1>5, EarliestFacts
  <2>2. q \in DOMAIN m'.cps[k].snaps /\ m'.cps[k].snaps[q] = m.cps[k].snaps[q]
    BY <2>1, <1>2, <1>3, <1>4
  <2>3. \A j \in From(m'.cps, t) : q \in DOMAIN m'.cps[j].snaps => k <= j
    BY <2>1, <1>2, <1>3, <1>4
  <2>4. q \in Touched(m'.cps, t) /\ Earliest(m'.cps, t, q) = m'.cps[k].snaps[q]
    <3> DEFINE cps2 == m'.cps
    <3>1. IsStore(cps2, Len(past)) /\ k \in From(cps2, t) /\ q \in DOMAIN cps2[k].snaps
      BY <1>1, <1>4, <2>1, <2>2
    <3>2. \A j \in From(cps2, t) : q \in DOMAIN cps2[j].snaps => k <= j
      BY <2>3
    <3> HIDE DEF cps2
    <3>3. q \in Touched(cps2, t) /\ Earliest(cps2, t, q) = cps2[k].snaps[q]
      BY <3>1, <3>2, EarliestIs
    <3>4. QED
      BY <3>3 DEF cps2
  <2>5. QED
    BY <2>1, <2>2, <2>4, <1>5 DEF Restored
<1>6. CASE q \notin Touched(m.cps, t) /\ q = p
  <2>1. \A k \in From(m.cps, t) : p \notin DOMAIN m.cps[k].snaps
    BY <1>6 DEF Touched
  <2>2. p \in DOMAIN m'.cps[m.cur].snaps /\ m'.cps[m.cur].snaps[p] = files[p]
    BY <2>1, <1>2, <1>3, <1>4
  <2>3. \A j \in From(m'.cps, t) : p \in DOMAIN m'.cps[j].snaps => j = m.cur
    BY <2>1, <1>2, <1>4
  <2>4. p \in Touched(m'.cps, t) /\ Earliest(m'.cps, t, p) = m'.cps[m.cur].snaps[p]
    <3> DEFINE cps2 == m'.cps
               last == m.cur
    <3>1. /\ IsStore(cps2, Len(past)) /\ last \in From(cps2, t) /\ p \in DOMAIN cps2[last].snaps
          /\ last \in Nat
      BY <1>1, <1>4, <2>2
    <3>2. \A j \in From(cps2, t) : p \in DOMAIN cps2[j].snaps => j = last
      BY <2>3
    <3> HIDE DEF cps2, last
    <3>3. p \in Touched(cps2, t) /\ Earliest(cps2, t, p) = cps2[last].snaps[p]
      BY <3>1, <3>2, EarliestIs
    <3>4. QED
      BY <3>3 DEF cps2, last
  <2>5. QED
    BY <2>2, <2>4, <1>6 DEF Restored
<1>7. CASE q \notin Touched(m.cps, t) /\ q # p
  <2>1. q \notin Touched(m'.cps, t)
    BY <1>7, <1>2, <1>3, <1>4 DEF Touched
  <2>2. files'[q] = files[q]
    BY <1>7 DEF Edit, DataOK, Files
  <2>3. QED
    BY <2>1, <2>2, <1>7 DEF Restored
<1>8. QED
  BY <1>5, <1>6, <1>7

\* Code and conversation rewound together: what the cut drops of the snapshots
\* the files already hold.
LEMMA CutRestores ==
  ASSUME IInv, Cut, job.scope = "both", NEW t \in DOMAIN m'.cps, NEW q \in Paths
  PROVE  Restored(m'.cps, files, t, q) = Restored(m.cps, files, t, q)
<1> USE DEF IInv, Shapes
<1>1. /\ job.turn \in Nat /\ IsStore(m.cps, Len(past)) /\ IsStore(m'.cps, Len(past))
      /\ DOMAIN m'.cps = {k \in DOMAIN m.cps : k < job.turn}
      /\ \A k \in DOMAIN m'.cps : m'.cps[k] = m.cps[k]
  BY CutFacts DEF StoreOK
<1>2. t < job.turn /\ t \in Nat /\ \A k \in DOMAIN m.cps : k \in Nat
  BY <1>1, Bounds DEF IsStore
<1>3. \A k \in From(m'.cps, t) : k \in From(m.cps, t) /\ m'.cps[k] = m.cps[k] /\ k < job.turn
  BY <1>1 DEF From
<1>4. \A k \in From(m.cps, t) : k \in From(m'.cps, t) \/ (k \in From(m.cps, job.turn) /\ k >= job.turn)
  BY <1>1, <1>2 DEF From
<1>5. \A k \in From(m.cps, job.turn) : k \in From(m.cps, t) /\ k \in Nat
  BY <1>1, <1>2 DEF From
<1>6. \A p \in Touched(m.cps, job.turn) : files[p] = Earliest(m.cps, job.turn, p)
  BY DEF Cut, CanCut, JobInv
<1>7. CASE q \in Touched(m'.cps, t)
  <2>1. PICK k \in From(m'.cps, t) :
             /\ q \in DOMAIN m'.cps[k].snaps /\ Earliest(m'.cps, t, q) = m'.cps[k].snaps[q]
             /\ \A j \in From(m'.cps, t) : q \in DOMAIN m'.cps[j].snaps => k <= j
    BY <1>1, <1>7, EarliestFacts
  <2>2. k \in From(m.cps, t) /\ k \in Nat /\ k < job.turn /\ m'.cps[k] = m.cps[k]
    BY <2>1, <1>2, <1>3 DEF From
  <2>3. ASSUME NEW j \in From(m.cps, t), q \in DOMAIN m.cps[j].snaps
        PROVE  k <= j
    <3>1. CASE j \in From(m'.cps, t)
      BY <3>1, <2>1, <2>3, <1>3
    <3>2. CASE j \in From(m.cps, job.turn) /\ j >= job.turn
      BY <3>2, <2>2, <1>1, <1>5
    <3>3. QED
      BY <3>1, <3>2, <1>4
  <2>4. q \in Touched(m.cps, t) /\ Earliest(m.cps, t, q) = m.cps[k].snaps[q]
    BY <2>1, <2>2, <2>3, <1>1, EarliestIs
  <2>5. QED
    BY <2>1, <2>2, <2>4, <1>7 DEF Restored
<1>8. CASE q \notin Touched(m'.cps, t) /\ q \in Touched(m.cps, t)
  <2>1. PICK k \in From(m.cps, t) :
             /\ q \in DOMAIN m.cps[k].snaps /\ Earliest(m.cps, t, q) = m.cps[k].snaps[q]
             /\ \A j \in From(m.cps, t) : q \in DOMAIN m.cps[j].snaps => k <= j
    BY <1>1, <1>8, EarliestFacts
  <2>2. k \notin From(m'.cps, t)
    <3>1. ASSUME k \in From(m'.cps, t) PROVE FALSE
      <4>1. q \in DOMAIN m'.cps[k].snaps
        BY <2>1, <3>1, <1>3
      <4>2. QED
        BY <4>1, <3>1, <1>8 DEF Touched
    <3>2. QED
      BY <3>1
  <2>3. k \in From(m.cps, job.turn)
    BY <2>2, <1>4
  <2>4. \A j \in From(m.cps, job.turn) : q \in DOMAIN m.cps[j].snaps => k <= j
    BY <2>1, <1>5
  <2>5. q \in Touched(m.cps, job.turn) /\ Earliest(m.cps, job.turn, q) = m.cps[k].snaps[q]
    BY <2>1, <2>3, <2>4, <1>1, EarliestIs
  <2>6. QED
    BY <2>1, <2>5, <1>6, <1>8 DEF Restored
<1>9. CASE q \notin Touched(m.cps, t) /\ q \notin Touched(m'.cps, t)
  BY <1>9 DEF Restored
<1>10. QED
  BY <1>7, <1>8, <1>9

LEMMA CodeStep ==
  ASSUME IInv, [Next]_vars
  PROVE  CodeInv'
<1> USE DEF IInv, Shapes, CodeInv
<1>0. IsStore(m.cps, Len(past)) /\ IsStore(disk, Len(past)) /\ Len(past) \in Nat
  BY DEF StoreOK, HistoryOK
<1>1. CASE Plain /\ ~\E p \in Paths : RestoreOne(p)
  <2>1. /\ m' = m /\ disk' = disk /\ past' = past /\ files' = files /\ clean' \subseteq clean
        /\ mode' = "down" => mode = "down"
    BY <1>1 DEF Plain, vars, history, Say, Autosave, Cancelled, ClearMark, EndTurn,
       NextRound, Compact, Rewind, RestoreOne, RewindStops, Flush
  <2>2. QED
    BY <2>1 DEF Restores
<1>2. CASE Begin
  <2> DEFINE new == [uid |-> Len(past) + 1, index |-> Len(msgs), snaps |-> Empty]
  <2>1. /\ m'.cps = With(m.cps, m.turn, new) /\ m.turn \notin DOMAIN m.cps /\ DOMAIN new.snaps = {}
        /\ IsStore(m'.cps, Len(past)')
    BY <1>2, BeginFacts
  <2>2. /\ DOMAIN m'.cps = DOMAIN m.cps \cup {m.turn} /\ m'.cps[m.turn] = new /\ new.uid = Len(past) + 1
        /\ \A t \in DOMAIN m.cps : m'.cps[t] = m.cps[t]
    BY <2>1 DEF With
  <2>3. /\ clean' = clean \cup {Len(past) + 1} /\ files' = files /\ mode' = "turn"
    BY <1>2 DEF Begin
  <2>4. past'[Len(past) + 1].files = files /\ \A u \in 1..Len(past) : past'[u] = past[u]
    BY <1>2, BeginPast
  <2> HIDE DEF new
  <2>5. \A t \in DOMAIN m.cps : t < m.turn /\ t \in Nat
    BY <1>0, Bounds DEF NumbersAreFresh, IsStore
  <2>6. m.turn \in Nat
    BY <1>0 DEF StoreOK
  <2>7. ASSUME NEW t \in DOMAIN m.cps, m.cps[t].uid \in clean', NEW p \in Paths
        PROVE  past'[m.cps[t].uid].files[p] = Restored(m'.cps, files, t, p)
    <3>1. m.cps[t].uid \in clean /\ m.cps[t].uid \in 1..Len(past)
      BY <2>3, <2>7, UidFacts
    <3>2. past[m.cps[t].uid].files[p] = Restored(m.cps, files, t, p)
      BY <3>1 DEF Restores
    <3>3. /\ \A k \in From(m.cps, t) : k \in From(m'.cps, t) /\ m'.cps[k].snaps = m.cps[k].snaps
          /\ \A k \in From(m'.cps, t) : k \in From(m.cps, t) \/ DOMAIN m'.cps[k].snaps = {}
      BY <2>1, <2>2 DEF From
    <3>4. Restored(m'.cps, files, t, p) = Restored(m.cps, files, t, p)
      BY <3>3, <2>1, <1>0, SameSnaps
    <3>5. QED
      BY <3>1, <3>2, <3>4, <2>4
  <2>8. ASSUME NEW p \in Paths
        PROVE  past'[Len(past) + 1].files[p] = Restored(m'.cps, files, m.turn, p)
    <3>1. From(m'.cps, m.turn) \subseteq {m.turn}
      BY <2>2, <2>5, <2>6 DEF From
    <3>2. p \notin Touched(m'.cps, m.turn)
      BY <3>1, <2>1, <2>2 DEF Touched
    <3>3. QED
      BY <3>2, <2>4 DEF Restored
  <2>9. QED
    BY <2>2, <2>3, <2>7, <2>8 DEF Restores
<1>3. CASE \E p \in Paths : Edit(p)
  <2>1. PICK p \in Paths : Edit(p)
    BY <1>3
  <2>2. /\ DOMAIN m'.cps = DOMAIN m.cps
        /\ \A t \in DOMAIN m.cps : m'.cps[t].uid = m.cps[t].uid
    BY <2>1, EditKeeps
  <2>3. clean' = clean /\ past' = past /\ mode' = "turn"
    BY <2>1 DEF Edit, history
  <2>4. ASSUME NEW t \in DOMAIN m.cps, m.cps[t].uid \in clean, NEW q \in Paths
        PROVE  past[m.cps[t].uid].files[q] = Restored(m'.cps, files', t, q)
    <3>1. Restored(m'.cps, files', t, q) = Restored(m.cps, files, t, q)
      BY <2>1, EditRestores
    <3>2. QED
      BY <2>4, <3>1 DEF Restores
  <2>5. QED
    BY <2>2, <2>3, <2>4 DEF Restores
<1>4. CASE \E p \in Paths : RestoreOne(p)
  <2>1. PICK p \in Paths : RestoreOne(p)
    BY <1>4
  <2>2. /\ mode = "restore" /\ mode' = "restore" /\ m' = m /\ clean' = clean /\ past' = past
        /\ p \in job.todo /\ (files' = files \/ files' = [files EXCEPT ![p] = Earliest(m.cps, job.turn, p)])
    BY <2>1 DEF RestoreOne, history
  <2>3. /\ job.turn \in DOMAIN m.cps /\ p \in Touched(m.cps, job.turn)
        /\ \A t \in DOMAIN m.cps : m.cps[t].uid \in clean => ~(t > job.turn)
    BY <2>2 DEF JobInv
  <2>4. ASSUME NEW t \in DOMAIN m.cps, m.cps[t].uid \in clean, NEW q \in Paths
        PROVE  Restored(m.cps, files', t, q) = Restored(m.cps, files, t, q)
    <3>1. CASE q = p
      <4>1. \A k \in From(m.cps, job.turn) : k \in From(m.cps, t)
        BY <2>3, <2>4, <1>0, Bounds DEF From, IsStore
      <4>2. p \in Touched(m.cps, t)
        BY <4>1, <2>3 DEF Touched
      <4>3. QED
        BY <3>1, <4>2 DEF Restored
    <3>2. CASE q # p
      <4>1. files'[q] = files[q]
        BY <3>2, <2>2 DEF DataOK, Files
      <4>2. QED
        BY <4>1 DEF Restored
    <3>3. QED
      BY <3>1, <3>2
  <2>5. QED
    BY <2>2, <2>4 DEF Restores
<1>5. CASE Cut
  <2>1. /\ past' = past /\ files' = files /\ mode' = "remove"
        /\ clean' = IF job.scope = "both" THEN clean ELSE {}
    BY <1>5 DEF Cut
  <2>2. \A t \in DOMAIN m'.cps : t \in DOMAIN m.cps /\ m'.cps[t] = m.cps[t]
    BY <1>5, CutFacts
  <2>3. CASE job.scope = "both"
    <3>1. \A t \in DOMAIN m'.cps : \A q \in Paths :
            Restored(m'.cps, files, t, q) = Restored(m.cps, files, t, q)
      BY <1>5, <2>3, CutRestores
    <3>2. QED
      BY <3>1, <2>1, <2>2, <2>3 DEF Restores
  <2>4. CASE job.scope # "both"
    BY <2>1, <2>4 DEF Restores
  <2>5. QED
    BY <2>3, <2>4
<1>6. CASE \E k \in job.todo : RemoveOne(k)
  <2>1. m' = m /\ past' = past /\ files' = files /\ clean' \subseteq clean /\ mode' = "remove"
    BY <1>6, RemoveFacts DEF RemoveOne
  <2>2. QED
    BY <2>1 DEF Restores
<1>7. CASE \E t \in DOMAIN m.bound : Fork(t)
  BY <1>7, EmptyStore DEF Fork, Fresh, Restores
<1>8. CASE \E t \in DOMAIN m.bound : \E u \in BOOLEAN : Summarize(t, u)
  <2>1. m'.cps = m.cps /\ past' = past /\ files' = files /\ clean' = clean /\ mode' = "remove"
    BY <1>8 DEF Summarize, Cleared, StoreOK
  <2>2. QED
    BY <2>1
<1>9. CASE Crash
  <2>1. /\ m'.cps = Empty /\ past' = past /\ files' = files /\ disk' = disk /\ mode # "down"
        /\ clean' = IF used["faults"] > 0 \/ mode = "remove" THEN {} ELSE clean
    BY <1>9 DEF Crash, Fresh
  <2>2. Restores(disk, files, past, clean')
    <3>1. CASE used["faults"] > 0 \/ mode = "remove"
      BY <3>1, <2>1 DEF Restores
    <3>2. CASE ~(used["faults"] > 0 \/ mode = "remove")
      <4>1. used["faults"] = 0
        BY <3>2 DEF ControlOK, Kinds
      <4>2. disk = m.cps
        BY <4>1, <3>2, <2>1 DEF FollowInv
      <4>3. QED
        BY <4>2, <3>2, <2>1
    <3>3. QED
      BY <3>1, <3>2
  <2>3. QED
    BY <2>1, <2>2, EmptyStore DEF Restores
<1>10. CASE Resume
  <2>1. /\ m'.cps = disk /\ past' = past /\ files' = files /\ clean' = clean /\ mode = "down"
        /\ mode' = "idle"
    BY <1>10 DEF Resume, Loaded
  <2>2. QED
    BY <2>1
<1>11. QED
  BY <1>1, <1>2, <1>3, <1>4, <1>5, <1>6, <1>7, <1>8, <1>9, <1>10, Steps


(***************************************************************************)
(* The theorems.                                                           *)
(***************************************************************************)
\* Every step keeps the invariant, which therefore always holds.
THEOREM InvariantHolds == Spec => []IInv
<1>1. ASSUME IInv, [Next]_vars
      PROVE  IInv'
  <2>1. ControlOK' /\ DataOK' /\ StoreOK' /\ HistoryOK'
    <3>1. Shapes
      BY <1>1 DEF IInv
    <3>2. QED
      BY <1>1, <3>1, ControlStep, DataStep, StoreStep, HistoryStep
  <2>2. NumbersAreFresh' /\ TurnIsLast' /\ BoundInv' /\ MemoryInv' /\ DiskInv' /\ MarkInv'
    BY <1>1, NumbersStep, BoundStep, MemoryStep, DiskStep, MarkStep
  <2>3. FileInv' /\ SavedInv' /\ JobInv' /\ CodeInv' /\ FollowInv'
    BY <1>1, FileStep, SavedStep, JobStep, CodeStep, FollowStep
  <2>4. QED
    BY <2>1, <2>2, <2>3 DEF IInv, Shapes
<1>2. QED
  BY <1>1, InitIInv, PTL DEF Spec

\* The store, its directory and the manager's counter agree on which checkpoints
\* there are, no turn takes the number of one that is still there, and without a
\* failed write the directory holds no other (checkpoint.Store, checkpointManager).
THEOREM StoreStaysSound == Spec => []StoreIsSound
<1>1. ASSUME IInv PROVE StoreIsSound
  <2> USE <1>1 DEF IInv, Shapes
  <2>1. \A i \in 1..Len(msgs) : msgs[i] \in Messages
    BY DEF DataOK, Talks
  <2>2. IsCheckpoints(m.cps) /\ IsCheckpoints(disk)
    BY DEF IsCheckpoints, StoreOK, IsStore, IsCheckpoint
  <2>3. DOMAIN m.bound \subseteq DOMAIN m.cps
    BY DEF BoundInv
  <2>4. TypeOK
    BY <2>1, <2>2, <2>3 DEF TypeOK, ControlOK, DataOK, StoreOK, HistoryOK
  <2>5. DirectoryFollowsTheStore
    BY DEF FollowInv, DirectoryFollowsTheStore
  <2>6. QED
    BY <2>4, <2>5 DEF StoreIsSound
<1>2. QED
  BY <1>1, InvariantHolds, PTL

\* A boundary on offer is the start of its turn: what Rewind and Fork keep is the
\* transcript the turn started from, through cancelled rounds, saves, earlier
\* rewinds and restarts (control/checkpoint.go, Controller.Rewind).
THEOREM BoundariesStayTurnStarts == Spec => []BoundariesAreTurnStarts
<1>1. ASSUME IInv PROVE BoundariesAreTurnStarts
  BY <1>1 DEF IInv, BoundInv, MemoryInv, StartsIn, BoundariesAreTurnStarts
<1>2. QED
  BY <1>1, InvariantHolds, PTL

\* Restoring the code of a turn brings back every file the editing tools changed
\* since, as it was when the turn began (Store.RestoreCode).
THEOREM CodeAlwaysComesBack == Spec => []CodeComesBack
<1>1. ASSUME IInv PROVE CodeComesBack
  BY <1>1 DEF IInv, CodeInv, Restores, Restored, CodeComesBack
<1>2. QED
  BY <1>1, InvariantHolds, PTL

\* Between turns the session file holds the conversation unless a save failed or a
\* compaction is not saved yet (snapshotActivityIfChanged).
THEOREM IdleStaysSaved == Spec => []IdleIsSaved
<1>1. ASSUME IInv PROVE IdleIsSaved
  BY <1>1 DEF IInv, SavedInv, IdleIsSaved
<1>2. QED
  BY <1>1, InvariantHolds, PTL
=============================================================================
