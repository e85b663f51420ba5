-------------------------- MODULE PluginHostProofs --------------------------
(***************************************************************************)
(* For every set of sessions: the claim on a server's name is a lock, the  *)
(* server runs once, and whoever waits for a start waits for one that is   *)
(* under way.                                                              *)
(***************************************************************************)
EXTENDS PluginHost, TLAPS

\* The claim is held by the one caller between beginSpawn and endSpawn.
Ownership == claim = Owners /\ \A a, b \in Owners : a = b

\* A caller with a process, or with a client of its own to go on with, has it.
Carries ==
  \A a \in Callers :
    add[a].pc \in {"handshake", "publish"} \/ add[a].res = "ok" => add[a].client \in Clients

\* Nobody waits for a name that is not claimed.
WaitsForAClaim == \A a \in Callers : add[a].pc = "join" => claim # {}

\* A session starts the server in the background once, when it boots.
StartsOnce ==
  \A t \in Tabs :
    /\ add[<<t, "lazy">>].pc # "idle" => spawn[t] = "inFlight"
    /\ t \notin booted => spawn[t] = "idle" /\ add[<<t, "eager">>].pc = "idle"

\* The inductive invariant.
IInv == TypeOK /\ Carries /\ StartsOnce /\ Ownership /\ WaitsForAClaim /\ OneServer /\ SuspendedStaysOut

\* A session and a way to ask make a caller.
LEMMA CallersOf == \A t \in Tabs, k \in Kinds : <<t, k>> \in Callers
  BY DEF Callers

\* The initial state satisfies the inductive invariant.
LEMMA InitIInv == Init => IInv
<1> SUFFICES ASSUME Init PROVE IInv
    OBVIOUS
<1> USE HostAssumption DEF Init, Idle, Owners, Starting, HostAssumption
<1>1. TypeOK
  <2> USE DEF Clients, Handles, Places, Results
  <2>1. /\ started \in 0..MaxClients /\ list \subseteq Clients /\ alive \subseteq Clients
        /\ children \in [Callers -> SUBSET Clients] /\ dropping \subseteq Tabs \X Clients
    OBVIOUS
  <2>2. closed \in BOOLEAN /\ closing \in {"no", "waiting", "done"} /\ claim \subseteq Callers
    OBVIOUS
  <2>3. add \in [Callers -> [pc : Places, res : Results, client : Handles]]
    OBVIOUS
  <2>4. /\ spawn \in [Tabs -> {"idle", "inFlight", "ready", "failed"}] /\ real \in [Tabs -> Handles]
        /\ \A t \in Tabs : spawn[t] = "ready" <=> real[t] # 0
    OBVIOUS
  <2>5. /\ reg \in [Tabs -> Handles \cup {Placeholder}]
        /\ stubbed \subseteq Tabs /\ suspended \in [Tabs -> BOOLEAN]
    OBVIOUS
  <2> QED BY <2>1, <2>2, <2>3, <2>4, <2>5 DEF TypeOK
<1>2. Carries /\ StartsOnce /\ WaitsForAClaim
  BY CallersOf DEF Carries, StartsOnce, WaitsForAClaim, Kinds
<1>3. Ownership /\ OneServer /\ SuspendedStaysOut
  BY DEF Ownership, OneServer, SuspendedStaysOut
<1> QED BY <1>1, <1>2, <1>3 DEF IInv

AddOK == add \in [Callers -> [pc : Places, res : Results, client : Handles]]
ServerOK ==
  /\ started \in 0..MaxClients /\ list \subseteq Clients /\ alive \subseteq Clients
  /\ children \in [Callers -> SUBSET Clients] /\ dropping \subseteq Tabs \X Clients
HostOK == closed \in BOOLEAN /\ closing \in {"no", "waiting", "done"} /\ claim \subseteq Callers
SpawnOK ==
  /\ spawn \in [Tabs -> {"idle", "inFlight", "ready", "failed"}] /\ real \in [Tabs -> Handles]
  /\ \A t \in Tabs : spawn[t] = "ready" <=> real[t] # 0
RegOK ==
  /\ reg \in [Tabs -> Handles \cup {Placeholder}]
  /\ stubbed \subseteq Tabs /\ suspended \in [Tabs -> BOOLEAN]

\* What a caller goes on with is a client on the list or its own.
LEMMA GotIsAClient ==
  ASSUME TypeOK, Carries, NEW a \in Callers
  PROVE  Got(a) \subseteq Clients /\ ToolsFor \subseteq Clients
<1>1. ToolsFor \subseteq Clients
  BY DEF TypeOK, ToolsFor
<1> QED BY <1>1 DEF Carries, Got

\* Every step keeps the callers' records.
LEMMA AddStep == TypeOK /\ [Next]_vars => AddOK'
<1> SUFFICES ASSUME TypeOK, [Next]_vars PROVE AddOK'
    OBVIOUS
<1>0. add \in [Callers -> [pc : Places, res : Results, client : Handles]]
  BY DEF TypeOK
<1> USE CallersOf DEF AddOK, Idle, Handles, Places, Results, Kinds, Moves, Ends, Done
<1>1. ASSUME NEW a \in Callers, Step(a) PROVE AddOK'
  <2>1. CASE Check(a) \/ Claim(a) \/ GivesUp(a) \/ Greeted(a) \/ Refused(a)
    BY <2>1, <1>0 DEF Check, Claim, GivesUp, Greeted, Refused
  <2>2. CASE Launch(a)
    <3>1. CASE add' = [add EXCEPT ![a] = [pc |-> "end", res |-> "already", client |-> 0]]
      BY <3>1, <1>0
    <3>2. CASE add' = [add EXCEPT ![a] = [pc |-> "end", res |-> "error", client |-> 0]]
      BY <3>2, <1>0
    <3>3. CASE /\ started < MaxClients /\ started' = started + 1
               /\ add' = [add EXCEPT ![a] = [pc |-> "handshake", res |-> "none", client |-> started']]
      <4>1. started' \in Clients
        BY <3>3, HostAssumption DEF Clients, TypeOK, HostAssumption
      <4> QED BY <4>1, <3>3, <1>0
    <3> QED BY <3>1, <3>2, <3>3, <2>2 DEF Launch
  <2>3. CASE Publish(a)
    BY <2>3, <1>0 DEF Publish
  <2>4. CASE EndSpawn(a)
    BY <2>4, <1>0 DEF EndSpawn
  <2> QED BY <1>1, <2>1, <2>2, <2>3, <2>4 DEF Step
<1>2. ASSUME NEW t \in Tabs, Finish(t) PROVE AddOK'
  <2>1. PICK k \in Kinds : Done(<<t, k>>)
    BY <1>2 DEF Finish, FinishLazy, FinishEager, FinishUser
  <2> QED BY <2>1, <1>0
<1>3. ASSUME NEW t \in Tabs, Reuses(t) \/ BootLazy(t) \/ BootEager(t) \/ Connect(t) PROVE AddOK'
  <2>1. UNCHANGED add \/ \E k \in Kinds : Moves(<<t, k>>, "check")
    BY <1>3 DEF Reuses, BootLazy, BootEager, Connect
  <2> QED BY <2>1, <1>0
<1>4. CASE UNCHANGED add
  BY <1>4, <1>0
<1>5. ASSUME NEW t \in Tabs, Disconnect(t) \/ Suspend(t) PROVE UNCHANGED add
  BY <1>5 DEF Disconnect, Suspend
<1>6. Close \/ Reap \/ Drops \/ UNCHANGED vars => UNCHANGED add
  BY DEF Close, Reap, Drops, Dropped, vars
<1> QED BY <1>1, <1>2, <1>3, <1>4, <1>5, <1>6 DEF Next

\* Every step keeps the server's processes typed.
LEMMA ServerStep == TypeOK /\ Carries /\ [Next]_vars => ServerOK'
<1> SUFFICES ASSUME TypeOK, Carries, [Next]_vars PROVE ServerOK'
    OBVIOUS
<1>0. ServerOK
  BY DEF TypeOK, ServerOK
<1> USE DEF ServerOK, server, processes
<1>1. ASSUME NEW a \in Callers, Step(a) PROVE ServerOK'
  <2>1. CASE Check(a) \/ Claim(a) \/ GivesUp(a) \/ Greeted(a) \/ EndSpawn(a)
    BY <2>1, <1>0 DEF Check, Claim, GivesUp, Greeted, EndSpawn
  <2>2. CASE Launch(a)
    <3>1. CASE UNCHANGED server
      BY <3>1, <1>0
    <3>2. CASE /\ started < MaxClients /\ started' = started + 1 /\ alive' = alive \cup {started'}
               /\ children' = [children EXCEPT ![a] = @ \cup {started'}]
               /\ UNCHANGED <<list, dropping>>
      <4>1. started' \in Clients /\ started' \in 0..MaxClients
        BY <3>2, <1>0, HostAssumption DEF Clients, HostAssumption
      <4> QED BY <4>1, <3>2, <1>0
    <3> QED BY <3>1, <3>2, <2>2 DEF Launch
  <2>3. CASE Refused(a)
    BY <2>3, <1>0 DEF Refused
  <2>4. CASE Publish(a)
    <3>1. add[a].client \in Clients
      BY <2>4 DEF Publish, Carries
    <3> QED BY <3>1, <2>4, <1>0 DEF Publish
  <2> QED BY <1>1, <2>1, <2>2, <2>3, <2>4 DEF Step
<1>2. ASSUME NEW t \in Tabs, Finish(t) PROVE ServerOK'
  BY <1>2, <1>0 DEF Finish, FinishLazy, FinishEager, FinishUser
<1>3. ASSUME NEW t \in Tabs, Reuses(t) \/ BootLazy(t) \/ BootEager(t) \/ Connect(t) \/ Suspend(t) PROVE ServerOK'
  BY <1>3, <1>0 DEF Reuses, BootLazy, BootEager, Connect, Suspend
<1>4. ASSUME NEW t \in Tabs, Disconnect(t) PROVE ServerOK'
  BY <1>4, <1>0 DEF Disconnect
<1>5. CASE Close \/ Reap \/ Drops
  BY <1>5, <1>0 DEF Close, Reap, Drops, Dropped
<1>6. CASE UNCHANGED vars
  BY <1>6, <1>0 DEF vars
<1> QED BY <1>1, <1>2, <1>3, <1>4, <1>5, <1>6 DEF Next

\* Every step keeps the host's state and the claim typed.
LEMMA HostStep == TypeOK /\ [Next]_vars => HostOK'
<1> SUFFICES ASSUME TypeOK, [Next]_vars PROVE HostOK'
    OBVIOUS
<1>0. HostOK
  BY DEF TypeOK, HostOK
<1> USE DEF HostOK, host
<1>1. ASSUME NEW a \in Callers, Step(a) PROVE HostOK'
  BY <1>1, <1>0 DEF Step, Check, Claim, GivesUp, Launch, Greeted, Refused, Publish, EndSpawn
<1>2. ASSUME NEW t \in Tabs, Finish(t) PROVE HostOK'
  BY <1>2, <1>0 DEF Finish, FinishLazy, FinishEager, FinishUser
<1>3. ASSUME NEW t \in Tabs, Reuses(t) \/ BootLazy(t) \/ BootEager(t) \/ Connect(t) PROVE HostOK'
  BY <1>3, <1>0 DEF Reuses, BootLazy, BootEager, Connect
<1>4. ASSUME NEW t \in Tabs, Disconnect(t) \/ Suspend(t) PROVE HostOK'
  BY <1>4, <1>0 DEF Disconnect, Suspend
<1>5. CASE Close \/ Reap \/ Drops \/ UNCHANGED vars
  BY <1>5, <1>0 DEF Close, Reap, Drops, Dropped, vars
<1> QED BY <1>1, <1>2, <1>3, <1>4, <1>5 DEF Next

\* Every step keeps the background starts typed.
LEMMA SpawnStep == TypeOK /\ Carries /\ StartsOnce /\ [Next]_vars => SpawnOK'
<1> SUFFICES ASSUME TypeOK, Carries, StartsOnce, [Next]_vars PROVE SpawnOK'
    OBVIOUS
<1>0. SpawnOK
  BY DEF TypeOK, SpawnOK
<1> USE DEF SpawnOK, Handles, session
<1>1. ASSUME NEW a \in Callers, Step(a) PROVE UNCHANGED <<spawn, real>>
  BY <1>1 DEF Step, Check, Claim, GivesUp, Launch, Greeted, Refused, Publish, EndSpawn
<1>2. ASSUME NEW t \in Tabs, BootLazy(t) PROVE SpawnOK'
  <2>1. spawn[t] = "idle" /\ UNCHANGED real
    BY <1>2 DEF BootLazy, StartsOnce
  <2>2. PICK st \in {"inFlight", "failed"} : spawn' = [spawn EXCEPT ![t] = st]
    BY <1>2 DEF BootLazy
  <2> QED BY <2>1, <2>2, <1>0
<1>3. ASSUME NEW t \in Tabs, FinishLazy(t) PROVE SpawnOK'
  <2>1. <<t, "lazy">> \in Callers
    BY CallersOf DEF Kinds
  <2>2. spawn[t] = "inFlight"
    BY <1>3 DEF FinishLazy, StartsOnce
  <2>3. Got(<<t, "lazy">>) \subseteq Clients
    BY <2>1, GotIsAClient
  <2>4. CASE spawn' = [spawn EXCEPT ![t] = "failed"] /\ UNCHANGED real
    BY <2>4, <2>2, <1>0
  <2>5. ASSUME NEW c \in Clients, spawn' = [spawn EXCEPT ![t] = "ready"], real' = [real EXCEPT ![t] = c]
        PROVE  SpawnOK'
    BY <2>5, <1>0 DEF Clients
  <2> QED BY <1>3, <2>3, <2>4, <2>5 DEF FinishLazy
<1>4. ASSUME NEW t \in Tabs, FinishEager(t) \/ FinishUser(t) PROVE UNCHANGED <<spawn, real>>
  BY <1>4 DEF FinishEager, FinishUser
<1>5. ASSUME NEW t \in Tabs, Reuses(t) \/ BootEager(t) \/ Connect(t) \/ Disconnect(t) \/ Suspend(t)
      PROVE  UNCHANGED <<spawn, real>>
  BY <1>5 DEF Reuses, BootEager, Connect, Disconnect, Suspend
<1>6. CASE Close \/ Reap \/ Drops \/ UNCHANGED vars
  BY <1>6, <1>0 DEF Close, Reap, Drops, Dropped, vars
<1> QED BY <1>0, <1>1, <1>2, <1>3, <1>4, <1>5, <1>6 DEF Next, Finish

\* What a session does to its registry.
LEMMA RegAdded ==
  ASSUME RegOK, NEW t \in Tabs, NEW x \in Clients \cup {Placeholder}
  PROVE  /\ RegAdd(t, x) \in [Tabs -> Handles \cup {Placeholder}]
         /\ SuspendedStaysOut => \A u \in Tabs : suspended[u] => RegAdd(t, x)[u] = 0
  BY DEF RegOK, RegAdd, Handles, SuspendedStaysOut

\* Every step keeps the registries typed, and a suspended one without the server.
LEMMA RegStep ==
  TypeOK /\ Carries /\ SuspendedStaysOut /\ [Next]_vars => RegOK' /\ SuspendedStaysOut'
<1> SUFFICES ASSUME TypeOK, Carries, SuspendedStaysOut, [Next]_vars
             PROVE  RegOK' /\ SuspendedStaysOut'
    OBVIOUS
<1> DEFINE Kept == RegOK' /\ SuspendedStaysOut'
<1>0. RegOK /\ SuspendedStaysOut
  BY DEF TypeOK, RegOK
<1>u. CASE UNCHANGED <<reg, stubbed, suspended>>
  BY <1>u, <1>0 DEF RegOK, SuspendedStaysOut
<1>n. ASSUME NEW t \in Tabs, reg' = [reg EXCEPT ![t] = 0], UNCHANGED <<stubbed, suspended>>
      PROVE  Kept
  BY <1>n, <1>0 DEF RegOK, SuspendedStaysOut, Handles
<1>a. ASSUME NEW t \in Tabs, NEW x \in Clients \cup {Placeholder}, reg' = RegAdd(t, x),
             stubbed' \subseteq Tabs, UNCHANGED suspended
      PROVE  Kept
  BY <1>a, <1>0, RegAdded DEF RegOK, SuspendedStaysOut
<1> USE DEF session
<1>1. ASSUME NEW a \in Callers, Step(a) PROVE UNCHANGED <<reg, stubbed, suspended>>
  BY <1>1 DEF Step, Check, Claim, GivesUp, Launch, Greeted, Refused, Publish, EndSpawn
<1>g. ASSUME NEW t \in Tabs, NEW k \in Kinds PROVE Got(<<t, k>>) \subseteq Clients
  BY CallersOf, GotIsAClient
<1>2. ASSUME NEW t \in Tabs, FinishLazy(t) \/ FinishEager(t) PROVE Kept
  <2>1. Got(<<t, "lazy">>) \subseteq Clients /\ Got(<<t, "eager">>) \subseteq Clients
    BY <1>g DEF Kinds
  <2>2. UNCHANGED <<stubbed, suspended>>
    BY <1>2 DEF FinishLazy, FinishEager
  <2>3. UNCHANGED reg \/ \E c \in Clients : reg' = RegAdd(t, c)
    BY <1>2, <2>1 DEF FinishLazy, FinishEager
  <2>4. stubbed \subseteq Tabs
    BY <1>0 DEF RegOK
  <2> QED BY <2>2, <2>3, <2>4, <1>u, <1>a
<1>3. ASSUME NEW t \in Tabs, FinishUser(t) PROVE Kept
  <2>1. CASE UNCHANGED <<reg, suspended>>
    BY <2>1, <1>3, <1>u DEF FinishUser
  <2>2. CASE /\ suspended' = [suspended EXCEPT ![t] = FALSE] /\ UNCHANGED stubbed
             /\ \E c \in Clients : reg' = [reg EXCEPT ![t] = c]
    BY <2>2, <1>0 DEF RegOK, SuspendedStaysOut, Handles
  <2>3. Got(<<t, "user">>) \subseteq Clients
    BY <1>g DEF Kinds
  <2> QED BY <2>1, <2>2, <2>3, <1>3 DEF FinishUser
<1>4. ASSUME NEW t \in Tabs, Reuses(t) \/ BootLazy(t) PROVE Kept
  <2>1. ToolsFor \subseteq Clients
    BY DEF TypeOK, ToolsFor
  <2>2. stubbed' \subseteq Tabs /\ UNCHANGED suspended
    BY <1>4, <1>0 DEF Reuses, BootLazy, RegOK
  <2>3. \E x \in Clients \cup {Placeholder} : reg' = RegAdd(t, x)
    BY <1>4, <2>1 DEF Reuses, BootLazy
  <2> QED BY <2>2, <2>3, <1>a
<1>5. ASSUME NEW t \in Tabs, BootEager(t) \/ Connect(t) PROVE UNCHANGED <<reg, stubbed, suspended>>
  BY <1>5 DEF BootEager, Connect
<1>6. ASSUME NEW t \in Tabs, Disconnect(t) PROVE Kept
  BY <1>6, <1>u, <1>n DEF Disconnect
<1>7. ASSUME NEW t \in Tabs, Suspend(t) PROVE Kept
  BY <1>7, <1>0 DEF Suspend, RegOK, SuspendedStaysOut, Handles
<1>8. CASE Drops
  BY <1>8, <1>n DEF Drops, Dropped
<1>9. CASE Close \/ Reap \/ UNCHANGED vars
  BY <1>9, <1>u DEF Close, Reap, vars
<1> QED BY <1>u, <1>1, <1>2, <1>3, <1>4, <1>5, <1>6, <1>7, <1>8, <1>9 DEF Next, Finish

\* What a step does to the callers.
LEMMA Moved ==
  ASSUME AddOK, NEW a \in Callers, NEW p, Moves(a, p)
  PROVE  /\ \A b \in Callers : b # a => add'[b] = add[b]
         /\ add'[a].pc = p /\ add'[a].res = add[a].res /\ add'[a].client = add[a].client
  BY DEF AddOK, Moves

\* A session's step is of a caller that does not hold the claim, before or after.
LEMMA SessionSteps ==
  ASSUME TypeOK, StartsOnce, [Next]_vars, ~\E a \in Callers : Step(a)
  PROVE  /\ claim' = claim /\ (list' = list \/ list' = {})
         /\ \/ UNCHANGED add
            \/ \E a \in Callers :
                 /\ \A b \in Callers : b # a => add'[b] = add[b]
                 /\ \/ add[a].pc = "idle" /\ add'[a].pc = "check" /\ add'[a].res = add[a].res
                       /\ add'[a].client = add[a].client
                    \/ add[a].pc = "finish" /\ add'[a] = Idle
<1>0. AddOK
  BY DEF TypeOK, AddOK
<1> DEFINE Other(a) == \A b \in Callers : b # a => add'[b] = add[b]
           Asks(a) == add[a].pc = "idle" /\ add'[a].pc = "check" /\ add'[a].res = add[a].res
                      /\ add'[a].client = add[a].client
           Leaves(a) == add[a].pc = "finish" /\ add'[a] = Idle
<1>1. claim' = claim /\ (list' = list \/ list' = {})
  BY DEF Next, Reuses, BootLazy, BootEager, Connect, Finish, FinishLazy, FinishEager, FinishUser,
         Disconnect, Suspend, Close, Reap, Drops, Dropped, vars, server
<1>2. ASSUME NEW t \in Tabs, BootLazy(t) \/ BootEager(t) \/ Connect(t)
      PROVE  UNCHANGED add \/ \E a \in Callers : Other(a) /\ Asks(a)
  <2>1. UNCHANGED add \/ \E k \in Kinds : add[<<t, k>>].pc = "idle" /\ Moves(<<t, k>>, "check")
    <3>1. CASE BootLazy(t)
      BY <3>1 DEF BootLazy, Kinds, StartsOnce
    <3>2. CASE BootEager(t)
      BY <3>2 DEF BootEager, Kinds, StartsOnce
    <3>3. CASE Connect(t)
      BY <3>3 DEF Connect, Kinds, Idle
    <3> QED BY <3>1, <3>2, <3>3, <1>2
  <2>2. ASSUME NEW k \in Kinds, add[<<t, k>>].pc = "idle", Moves(<<t, k>>, "check")
        PROVE  \E a \in Callers : Other(a) /\ Asks(a)
    BY <2>2, <1>0, CallersOf, Moved
  <2> QED BY <2>1, <2>2
<1>3. ASSUME NEW t \in Tabs, Finish(t)
      PROVE  \E a \in Callers : Other(a) /\ Leaves(a)
  <2>1. PICK k \in Kinds : add[<<t, k>>].pc = "finish" /\ Done(<<t, k>>)
    BY <1>3 DEF Finish, FinishLazy, FinishEager, FinishUser, Kinds
  <2>2. <<t, k>> \in Callers
    BY CallersOf
  <2>3. Other(<<t, k>>) /\ Leaves(<<t, k>>)
    BY <2>1, <2>2, <1>0 DEF Done, AddOK
  <2> QED BY <2>2, <2>3
<1>4. ASSUME NEW t \in Tabs, Reuses(t) \/ Disconnect(t) \/ Suspend(t) PROVE UNCHANGED add
  BY <1>4 DEF Reuses, Disconnect, Suspend
<1>5. Close \/ Reap \/ Drops \/ UNCHANGED vars => UNCHANGED add
  BY DEF Close, Reap, Drops, Dropped, vars
<1>6. UNCHANGED add \/ \E a \in Callers : Other(a) /\ (Asks(a) \/ Leaves(a))
  BY <1>2, <1>3, <1>4, <1>5 DEF Next
<1> QED BY <1>1, <1>6

\* A session's step keeps the claim and what depends on it.
LEMMA SessionsKeepTheClaim ==
  ASSUME IInv, [Next]_vars, ~\E a \in Callers : Step(a)
  PROVE  Owners' = Owners /\ claim' = claim /\ (Carries /\ WaitsForAClaim /\ OneServer)'
<1> DEFINE Same(a) == add'[a] = add[a]
           Asks(a) == add[a].pc = "idle" /\ add'[a].pc = "check" /\ add'[a].res = add[a].res
                      /\ add'[a].client = add[a].client
           Leaves(a) == add[a].pc = "finish" /\ add'[a] = Idle
<1>1. claim' = claim /\ (list' = list \/ list' = {})
  BY SessionSteps DEF IInv
<1>2. \A a \in Callers : Same(a) \/ Asks(a) \/ Leaves(a)
  BY SessionSteps DEF IInv
<1> HIDE DEF Same, Asks, Leaves
<1>3. Owners' = Owners /\ Starting' = Starting
  BY <1>2 DEF Owners, Starting, Same, Asks, Leaves, Idle
<1>4. Carries'
  BY <1>2 DEF IInv, Carries, Same, Asks, Leaves, Idle, Clients
<1>5. WaitsForAClaim'
  BY <1>1, <1>2 DEF IInv, WaitsForAClaim, Same, Asks, Leaves, Idle
<1>6. OneServer'
  BY <1>1, <1>3 DEF IInv, OneServer
<1> QED BY <1>1, <1>3, <1>4, <1>5, <1>6

\* A caller's step takes the claim when it is free, gives it up, or leaves it alone.
LEMMA CallersTakeTurns ==
  ASSUME IInv, NEW a \in Callers, Step(a)
  PROVE  \/ Owners' = Owners /\ claim' = claim
         \/ Owners = {} /\ Owners' = {a} /\ claim' = {a}
         \/ a \in Owners /\ Owners' = Owners \ {a} /\ claim' = {}
<1>0. AddOK
  BY DEF IInv, TypeOK, AddOK
<1>1. CASE Check(a) \/ GivesUp(a) \/ Launch(a) \/ Greeted(a) \/ Refused(a) \/ Publish(a)
  BY <1>1, <1>0 DEF Check, GivesUp, Launch, Greeted, Refused, Publish, Moves, Ends, Owners, AddOK
<1>2. CASE Claim(a)
  BY <1>2, <1>0 DEF Claim, Unclaimed, Moves, Owners, AddOK, IInv, Ownership
<1>3. CASE EndSpawn(a)
  BY <1>3, <1>0 DEF EndSpawn, Wakes, Owners, AddOK, IInv, Ownership
<1> QED BY <1>1, <1>2, <1>3 DEF Step

\* A caller's step keeps what the callers carry and whom they wait for.
LEMMA CallersKeep ==
  ASSUME IInv, NEW a \in Callers, Step(a)
  PROVE  Carries' /\ WaitsForAClaim'
<1>0. AddOK /\ Carries /\ WaitsForAClaim
  BY DEF IInv, TypeOK, AddOK
<1>1. CASE Check(a) \/ GivesUp(a) \/ Greeted(a) \/ Refused(a)
  BY <1>1, <1>0 DEF Check, GivesUp, Greeted, Refused, Moves, Ends, AddOK, Carries, WaitsForAClaim, Clients
<1>2. CASE Claim(a)
  BY <1>2, <1>0 DEF Claim, Unclaimed, Moves, AddOK, Carries, WaitsForAClaim, Clients
<1>3. CASE Launch(a)
  <2>1. started' = started + 1 /\ started < MaxClients => started' \in Clients
    BY HostAssumption DEF IInv, TypeOK, Clients, HostAssumption
  <2> QED BY <2>1, <1>3, <1>0 DEF Launch, Ends, AddOK, Carries, WaitsForAClaim
<1>4. CASE Publish(a)
  BY <1>4, <1>0 DEF Publish, Ends, AddOK, Carries, WaitsForAClaim
<1>5. CASE EndSpawn(a)
  BY <1>5, <1>0 DEF EndSpawn, Wakes, AddOK, Carries, WaitsForAClaim
<1> QED BY <1>1, <1>2, <1>3, <1>4, <1>5 DEF Step

\* A caller's step starts the server only when none is there.
LEMMA CallersKeepOneServer ==
  ASSUME IInv, NEW a \in Callers, Step(a)
  PROVE  OneServer'
<1>0. AddOK /\ OneServer /\ Starting \subseteq Owners /\ \A b, c \in Owners : b = c
  BY DEF IInv, TypeOK, AddOK, Starting, Owners, Ownership
<1>1. CASE Check(a) \/ Claim(a) \/ GivesUp(a) \/ Greeted(a) \/ Refused(a) \/ EndSpawn(a)
  <2>1. list' = list /\ Starting' \subseteq Starting
    BY <1>1, <1>0 DEF Check, Claim, GivesUp, Greeted, Refused, EndSpawn, Wakes, Moves, Ends, Starting,
                      AddOK, server
  <2> QED BY <2>1, <1>0 DEF OneServer
<1>2. CASE Launch(a)
  <2>1. a \in Owners /\ list' = list
    BY <1>2 DEF Launch, Owners, server
  <2>2. Starting' \subseteq {a} /\ (Starting' # {} => list = {} \/ Starting # {})
    BY <1>2, <1>0, <2>1 DEF Launch, Taken, Ends, Starting, AddOK
  <2> QED BY <2>1, <2>2, <1>0 DEF OneServer
<1>3. CASE Publish(a)
  <2>1. a \in Starting /\ a \in Owners
    BY <1>3 DEF Publish, Starting, Owners
  <2>2. Starting' = {}
    BY <1>3, <1>0, <2>1 DEF Publish, Ends, Starting, AddOK
  <2>3. list' = list \/ list' = {add[a].client}
    BY <1>3 DEF Publish
  <2> QED BY <2>2, <2>3, <1>0 DEF OneServer
<1> QED BY <1>1, <1>2, <1>3 DEF Step

\* Every step keeps a session's background start in step with its caller.
LEMMA StartsOnceStep == IInv /\ [Next]_vars => StartsOnce'
<1> DEFINE Once(t) == /\ add[<<t, "lazy">>].pc # "idle" => spawn[t] = "inFlight"
                      /\ t \notin booted => spawn[t] = "idle" /\ add[<<t, "eager">>].pc = "idle"
<1> SUFFICES ASSUME IInv, [Next]_vars, NEW t \in Tabs PROVE Once(t)'
    BY DEF StartsOnce
<1>0. /\ AddOK /\ SpawnOK /\ <<t, "lazy">> \in Callers /\ <<t, "eager">> \in Callers
      /\ Once(t)
  BY CallersOf DEF IInv, TypeOK, AddOK, SpawnOK, StartsOnce, Kinds
<1>1. ASSUME NEW a \in Callers, Step(a) PROVE Once(t)'
  <2>1. UNCHANGED <<spawn, booted>> /\ \A b \in Callers : add[b].pc = "idle" => add'[b].pc = "idle"
    BY <1>1, <1>0 DEF Step, Check, Claim, GivesUp, Launch, Greeted, Refused, Publish, EndSpawn, Wakes,
                      Moves, Ends, AddOK, session, bounds
  <2> QED BY <2>1, <1>0
<1>2. ASSUME NEW u \in Tabs, BootLazy(u) PROVE Once(t)'
  BY <1>2, <1>0, CallersOf DEF BootLazy, Moves, AddOK, SpawnOK, Kinds
<1>3. ASSUME NEW u \in Tabs, BootEager(u) PROVE Once(t)'
  BY <1>3, <1>0, CallersOf DEF BootEager, Moves, AddOK, session, Kinds
<1>4. ASSUME NEW u \in Tabs, Connect(u) PROVE Once(t)'
  BY <1>4, <1>0, CallersOf DEF Connect, Moves, AddOK, session, Kinds
<1>5. ASSUME NEW u \in Tabs, FinishLazy(u) PROVE Once(t)'
  BY <1>5, <1>0, CallersOf DEF FinishLazy, Done, Idle, AddOK, SpawnOK, bounds, Kinds
<1>6. ASSUME NEW u \in Tabs, FinishEager(u) \/ FinishUser(u) PROVE Once(t)'
  BY <1>6, <1>0, CallersOf DEF FinishEager, FinishUser, Done, Idle, AddOK, bounds, Kinds
<1>7. ASSUME NEW u \in Tabs, Reuses(u) \/ Disconnect(u) \/ Suspend(u) PROVE Once(t)'
  BY <1>7, <1>0 DEF Reuses, Disconnect, Suspend
<1>8. CASE Close \/ Reap \/ Drops \/ UNCHANGED vars
  BY <1>8, <1>0 DEF Close, Reap, Drops, Dropped, vars, session, bounds
<1> QED BY <1>1, <1>2, <1>3, <1>4, <1>5, <1>6, <1>7, <1>8 DEF Next, Finish

\* Every step preserves the inductive invariant.
LEMMA StepIInv == IInv /\ [Next]_vars => IInv'
<1> SUFFICES ASSUME IInv, [Next]_vars PROVE IInv'
    OBVIOUS
<1>1. TypeOK' /\ SuspendedStaysOut'
  <2>1. AddOK' /\ ServerOK' /\ HostOK' /\ SpawnOK'
    BY AddStep, ServerStep, HostStep, SpawnStep DEF IInv
  <2>2. RegOK' /\ SuspendedStaysOut'
    BY RegStep DEF IInv
  <2> QED BY <2>1, <2>2 DEF TypeOK, AddOK, ServerOK, HostOK, SpawnOK, RegOK
<1>2. (Carries /\ WaitsForAClaim /\ OneServer)'
  BY SessionsKeepTheClaim, CallersKeep, CallersKeepOneServer
<1>3. Ownership'
  BY SessionsKeepTheClaim, CallersTakeTurns DEF IInv, Ownership
<1>4. StartsOnce'
  BY StartsOnceStep
<1> QED BY <1>1, <1>2, <1>3, <1>4 DEF IInv

\* The inductive invariant holds throughout.
THEOREM Invariant == Spec => []IInv
  BY InitIInv, StepIInv, PTL DEF Spec

\* The variables of the host and its sessions have their types, however many
\* sessions there are.
THEOREM TypeCorrect == Spec => []TypeOK
<1>1. IInv => TypeOK
  BY DEF IInv
<1> QED BY Invariant, <1>1, PTL

\* The server runs once, however many sessions ask for it.
THEOREM ServerRunsOnce == Spec => []OneServer
<1>1. IInv => OneServer
  BY DEF IInv
<1> QED BY Invariant, <1>1, PTL

\* What a session turned off stays off until it connects again.
THEOREM SuspensionHolds == Spec => []SuspendedStaysOut
<1>1. IInv => SuspendedStaysOut
  BY DEF IInv
<1> QED BY Invariant, <1>1, PTL

\* Whoever waits waits for a start under way.
THEOREM NobodyWaitsInVain == Spec => []WaitersHaveAnOwner
<1>1. IInv => WaitersHaveAnOwner
  BY DEF IInv, WaitsForAClaim, Ownership, WaitersHaveAnOwner
<1> QED BY Invariant, <1>1, PTL

\* The claim is a lock (beginSpawn and endSpawn).
THEOREM ClaimImplementsLock == Spec => ClaimIsExclusive
<1>1. Init => Claims!Init
  BY DEF Init, Idle, Owners, Claims!Init
<1>2. IInv /\ [Next]_vars => [Claims!Next]_Owners
  <2> SUFFICES ASSUME IInv, [Next]_vars PROVE [Claims!Next]_Owners
      OBVIOUS
  <2>1. \/ Owners' = Owners
        \/ \E a \in Callers : Owners = {} /\ Owners' = {a}
        \/ \E a \in Callers : a \in Owners /\ Owners' = Owners \ {a}
    BY SessionsKeepTheClaim, CallersTakeTurns
  <2> QED BY <2>1 DEF Claims!Next, Claims!Take, Claims!Leave
<1> QED BY <1>1, <1>2, Invariant, PTL DEF Spec, ClaimIsExclusive, Claims!Spec

\* A process that runs is on the list, belongs to a caller that starts it, or is
\* being closed by a disconnect.
Accounted ==
  \A c \in alive :
    \/ c \in list
    \/ \E a \in Starting : add[a].client = c
    \/ \E t \in Tabs : <<t, c>> \in dropping

\* What Close has done so far.
Closing ==
  /\ closing # "no" => closed
  /\ closing = "done" => ~Waits /\ list \cap alive = {}

\* A session's step leaves every process accounted for.
LEMMA SessionsAccount ==
  ASSUME IInv, Accounted, [Next]_vars, ~\E a \in Callers : Step(a)
  PROVE  Accounted'
<1> DEFINE Kept == Starting' = Starting /\ \A a \in Starting : add'[a].client = add[a].client
<1>1. Kept
  <2>1. CASE UNCHANGED add
    BY <2>1 DEF Starting
  <2>2. ASSUME NEW a \in Callers, \A b \in Callers : b # a => add'[b] = add[b],
               add[a].pc \in {"idle", "finish"}, add'[a].pc \in {"idle", "check"}
        PROVE  Kept
    BY <2>2 DEF Starting
  <2> QED BY <2>1, <2>2, SessionSteps DEF IInv, Idle
<1>2. ASSUME alive' \subseteq alive, list' = list, dropping' = dropping
      PROVE  Accounted'
    BY <1>1, <1>2 DEF Accounted
<1>3. ASSUME NEW t \in Tabs, Disconnect(t) PROVE Accounted'
  BY <1>1, <1>3 DEF Accounted, Disconnect, processes
<1>4. ASSUME NEW t \in Tabs, NEW c \in Clients, Dropped(t, c) PROVE Accounted'
  BY <1>1, <1>4 DEF Accounted, Dropped
<1>5. ASSUME NEW t \in Tabs, Reuses(t) \/ BootLazy(t) \/ BootEager(t) \/ Connect(t) \/ Finish(t) \/ Suspend(t)
      PROVE  alive' \subseteq alive /\ list' = list /\ dropping' = dropping
  BY <1>5 DEF Reuses, BootLazy, BootEager, Connect, Finish, FinishLazy, FinishEager, FinishUser,
              Suspend, server, processes
<1>6. Close \/ Reap \/ UNCHANGED vars => alive' \subseteq alive /\ list' = list /\ dropping' = dropping
  BY DEF Close, Reap, vars, server, processes
<1> QED BY <1>2, <1>3, <1>4, <1>5, <1>6 DEF Next, Drops

\* A caller's step leaves every process accounted for.
LEMMA CallersAccount ==
  ASSUME IInv, Accounted, NEW a \in Callers, Step(a)
  PROVE  Accounted'
<1>0. AddOK
  BY DEF IInv, TypeOK, AddOK
<1> USE DEF Accounted, Starting, Moves, Ends, AddOK, server, processes
<1>1. CASE Check(a) \/ Claim(a) \/ GivesUp(a) \/ Greeted(a)
  BY <1>0, <1>1 DEF Check, Claim, GivesUp, Greeted
<1>2. CASE Launch(a)
  BY <1>0, <1>2 DEF Launch
<1>3. CASE Refused(a)
  BY <1>0, <1>3 DEF Refused
<1>4. CASE Publish(a)
  BY <1>0, <1>4 DEF Publish
<1>5. CASE EndSpawn(a)
  BY <1>0, <1>5 DEF EndSpawn, Wakes
<1> QED BY <1>1, <1>2, <1>3, <1>4, <1>5 DEF Step

\* Every step keeps Close's account.
LEMMA ClosingStep == IInv /\ Closing /\ [Next]_vars => Closing'
<1> SUFFICES ASSUME IInv, Closing, [Next]_vars PROVE Closing'
    OBVIOUS
<1>0. AddOK /\ HostOK /\ closed \in BOOLEAN
  BY DEF IInv, TypeOK, AddOK, HostOK
<1>1. ASSUME NEW a \in Callers, Step(a) PROVE Closing'
  <2>1. UNCHANGED <<closed, closing>> /\ \A b \in Callers : add[b] = Idle => add'[b] = Idle
    BY <1>0, <1>1 DEF Step, Check, Claim, GivesUp, Launch, Greeted, Refused, Publish, EndSpawn, Wakes,
                      Moves, Ends, Idle, AddOK, host
  <2>2. closed => list' = list /\ alive' \subseteq alive
    BY <1>1 DEF Step, Check, Claim, GivesUp, Launch, Greeted, Refused, Publish, Lists, EndSpawn,
                server, processes
  <2> QED BY <2>1, <2>2, CallersOf DEF Closing, Waits, Kinds
<1>2. ASSUME UNCHANGED <<closed, closing, list>>, alive' \subseteq alive,
             \A t \in Tabs : closed /\ add[<<t, "lazy">>] = Idle => add'[<<t, "lazy">>] = Idle
      PROVE  Closing'
  BY <1>2 DEF Closing, Waits
<1>3. ASSUME NEW t \in Tabs, BootLazy(t) PROVE Closing'
  BY <1>3, <1>2 DEF BootLazy, MayBegin, host, server, processes
<1>4. ASSUME NEW t \in Tabs, BootEager(t) \/ Connect(t) PROVE Closing'
  <2>1. PICK k \in {"eager", "user"} : Moves(<<t, k>>, "check")
    BY <1>4 DEF BootEager, Connect
  <2>2. \A u \in Tabs : add'[<<u, "lazy">>] = add[<<u, "lazy">>]
    BY <2>1, <1>0, CallersOf DEF Moves, AddOK, Kinds
  <2> QED BY <1>4, <2>2, <1>2 DEF BootEager, Connect, host, server, processes
<1>5. ASSUME NEW t \in Tabs, Finish(t) PROVE Closing'
  <2>1. PICK k \in Kinds : Done(<<t, k>>)
    BY <1>5 DEF Finish, FinishLazy, FinishEager, FinishUser, Kinds
  <2>2. \A u \in Tabs : add[<<u, "lazy">>] = Idle => add'[<<u, "lazy">>] = Idle
    BY <2>1, <1>0, CallersOf DEF Done, AddOK, Kinds
  <2> QED BY <1>5, <2>2, <1>2 DEF Finish, FinishLazy, FinishEager, FinishUser, host, server, processes
<1>6. ASSUME NEW t \in Tabs, Reuses(t) \/ Suspend(t) PROVE Closing'
  BY <1>6, <1>2 DEF Reuses, Suspend, host, server, processes
<1>7. ASSUME NEW t \in Tabs, Disconnect(t) PROVE Closing'
  BY <1>7 DEF Closing, Waits, Disconnect, host, processes
<1>8. CASE Close
  BY <1>8 DEF Close, Closing
<1>9. CASE Reap
  BY <1>9 DEF Reap, Closing, Waits
<1>10. CASE Drops \/ UNCHANGED vars
  BY <1>10, <1>2 DEF Drops, Dropped, vars, host, server, processes
<1> QED BY <1>1, <1>3, <1>4, <1>5, <1>6, <1>7, <1>8, <1>9, <1>10 DEF Next

\* What is left when Close has returned is being taken care of.
THEOREM CloseIsThorough == Spec => []CloseLeavesNothing
<1>1. Init => Accounted /\ Closing
  BY DEF Init, Accounted, Closing
<1>2. IInv /\ Accounted /\ Closing /\ [Next]_vars => (Accounted /\ Closing)'
  BY SessionsAccount, CallersAccount, ClosingStep
<1>3. IInv /\ Accounted /\ Closing => CloseLeavesNothing
  BY DEF Accounted, Closing, CloseLeavesNothing
<1> QED BY <1>1, <1>2, <1>3, Invariant, PTL DEF Spec

\* Waiters have an owner and a closed host has nothing left, for any sessions.
THEOREM HostsAreSound == Spec => []HostIsSound
  BY TypeCorrect, NobodyWaitsInVain, CloseIsThorough, PTL DEF HostIsSound
=============================================================================
