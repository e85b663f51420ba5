----------------------------- MODULE PluginHost -----------------------------
(***************************************************************************)
(* One MCP server on a plugin host (Host of plugin/plugin.go) that several *)
(* sessions share: background starts (plugin/lazy.go), blocking starts at  *)
(* boot (boot/boot.go), connects and disconnects of the user (mcpManager   *)
(* of control/mcp.go) and the host's Close.  The claim on a name lets one  *)
(* caller start the server while the others wait for its result; a start   *)
(* takes long and anything may happen meanwhile.                           *)
(***************************************************************************)
EXTENDS Integers

CONSTANTS
  Tabs,         \* the sessions
  MaxClients,   \* bound on server processes
  MaxConnects,  \* bound on connects of the user
  MaxOffs       \* bound on disconnects and suspensions

ASSUME HostAssumption == {MaxClients, MaxConnects, MaxOffs} \subseteq Nat

VARIABLES
  list,      \* the clients on the host
  alive,     \* the processes that run
  started,   \* the processes ever started: 1..started
  children,  \* those that live on the context of each caller
  closed,    \* Host.closed
  closing,   \* where Close is
  claim,     \* spawning: the caller that starts the server, none or one
  add,       \* the callers of Add
  spawn,     \* lazySpawn of each session
  real,      \* and the client whose tools it forwards to
  stubbed,   \* the sessions without a cached schema
  reg,       \* what the session's registry has under the server's prefix
  suspended, \* the prefix is suspended there
  dropping,  \* clients Remove took off the list and has yet to close, for whom
  booted, connects, offs \* counters of the bounds

processes == <<alive, started, children>>
server == <<list, processes, dropping>>
host == <<closed, closing>>
session == <<spawn, real, stubbed, reg, suspended>>
bounds == <<booted, connects, offs>>
vars == <<server, host, claim, add, session, bounds>>

\* A session adds the server when it boots - in the background or blocking -
\* and at the user's word.
Kinds == {"lazy", "eager", "user"}
Callers == Tabs \X Kinds
Tab(a) == a[1]
Kind(a) == a[2]
Clients == 1..MaxClients
Handles == {0} \cup Clients
Places == {"idle", "check", "claim", "join", "owner", "handshake", "publish", "end", "finish"}
Results == {"none", "ok", "already", "error"}
Placeholder == -1   \* what a background start registers meanwhile
Idle == [pc |-> "idle", res |-> "none", client |-> 0]

Init ==
  /\ list = {} /\ alive = {} /\ started = 0 /\ children = [a \in Callers |-> {}]
  /\ closed = FALSE /\ closing = "no" /\ dropping = {}
  /\ claim = {} /\ add = [a \in Callers |-> Idle]
  /\ spawn = [t \in Tabs |-> "idle"] /\ real = [t \in Tabs |-> 0] /\ stubbed = {}
  /\ reg = [t \in Tabs |-> 0] /\ suspended = [t \in Tabs |-> FALSE]
  /\ booted = {} /\ connects = 0 /\ offs = 0

\* Registry.Add drops what is suspended.
RegAddAnyway(t, x) == [reg EXCEPT ![t] = x]
RegAdd(t, x) == IF suspended[t] THEN reg ELSE [reg EXCEPT ![t] = x]

Moves(a, p) == add' = [add EXCEPT ![a].pc = p]
Ends(a, p, how, c) == add' = [add EXCEPT ![a] = [pc |-> p, res |-> how, client |-> c]]

\* ToolsFor: a client's tools were listed before it came on the list.
ToolsFor == IF closed THEN {} ELSE list

(***************************************************************************)
(* Booting a session.                                                      *)
(***************************************************************************)
Reuses(t) ==
  /\ t \notin booted /\ booted' = booted \cup {t}
  /\ \E c \in ToolsFor : reg' = RegAdd(t, c)
  /\ UNCHANGED <<server, host, claim, add, spawn, real, stubbed, suspended, connects, offs>>

\* LazyToolset and kick: placeholders are registered and the start begins, not
\* on a closed host (beginDeferredSpawn).
MayBeginAlways == TRUE
MayBegin == ~closed

BootLazy(t) ==
  /\ t \notin booted /\ booted' = booted \cup {t} /\ ToolsFor = {}
  /\ reg' = RegAdd(t, Placeholder) /\ stubbed' \in {stubbed, stubbed \cup {t}}
  /\ IF MayBegin THEN spawn' = [spawn EXCEPT ![t] = "inFlight"] /\ Moves(<<t, "lazy">>, "check")
     ELSE spawn' = [spawn EXCEPT ![t] = "failed"] /\ UNCHANGED add
  /\ UNCHANGED <<server, host, claim, real, suspended, connects, offs>>

BootEager(t) ==
  /\ t \notin booted /\ booted' = booted \cup {t} /\ ToolsFor = {}
  /\ Moves(<<t, "eager">>, "check")
  /\ UNCHANGED <<server, host, claim, session, connects, offs>>

\* connectSpec.
Connect(t) ==
  /\ t \in booted /\ add[<<t, "user">>] = Idle
  /\ connects < MaxConnects /\ connects' = connects + 1
  /\ Moves(<<t, "user">>, "check")
  /\ UNCHANGED <<server, host, claim, session, booted, offs>>

(***************************************************************************)
(* Host.Add.                                                               *)
(***************************************************************************)
Check(a) ==
  /\ add[a].pc = "check"
  /\ IF list # {} THEN Ends(a, "finish", "already", 0) ELSE Moves(a, "claim")
  /\ UNCHANGED <<server, host, claim, session, bounds>>

\* beginSpawn.
UnclaimedUntilLaunch == \A b \in claim : add[b].pc # "handshake"
Unclaimed == claim = {}

Claim(a) ==
  /\ add[a].pc = "claim"
  /\ IF Unclaimed THEN claim' = {a} /\ Moves(a, "owner") ELSE UNCHANGED claim /\ Moves(a, "join")
  /\ UNCHANGED <<server, host, session, bounds>>

\* The contexts that end while Add is under way: a background start's at Close,
\* a blocking one's after its timeout.
Expires(a) == Kind(a) = "eager" \/ (Kind(a) = "lazy" /\ closed)

GivesUp(a) ==
  /\ add[a].pc = "join" /\ Expires(a) /\ Ends(a, "finish", "error", 0)
  /\ UNCHANGED <<server, host, claim, session, bounds>>

\* The name is looked up again under the claim.
TakenNever == FALSE
Taken == list # {}

\* start: a child is started, unless the name was taken or the host closed.
Launch(a) ==
  /\ add[a].pc = "owner"
  /\ \/ Taken /\ Ends(a, "end", "already", 0) /\ UNCHANGED server
     \/ ~Taken /\ Ends(a, "end", "error", 0) /\ UNCHANGED server
     \/ /\ ~Taken /\ ~closed /\ started < MaxClients
        /\ started' = started + 1 /\ alive' = alive \cup {started'}
        /\ children' = [children EXCEPT ![a] = @ \cup {started'}]
        /\ Ends(a, "handshake", "none", started')
        /\ UNCHANGED <<list, dropping>>
  /\ UNCHANGED <<host, claim, session, bounds>>

\* initialize and tools/list.  A failed start closes its client.
Greeted(a) ==
  /\ add[a].pc = "handshake" /\ add[a].client \in alive /\ Moves(a, "publish")
  /\ UNCHANGED <<server, host, claim, session, bounds>>

Refused(a) ==
  /\ add[a].pc = "handshake" /\ Ends(a, "end", "error", 0)
  /\ alive' = alive \ {add[a].client}
  /\ UNCHANGED <<list, started, children, dropping, host, claim, session,
                 bounds>>

\* The client comes on the list if the host is still open.
ListsAlways == TRUE
Lists == ~closed

Publish(a) ==
  /\ add[a].pc = "publish"
  /\ LET c == add[a].client IN
     IF Lists /\ list = {}
     THEN /\ list' = {c} /\ Ends(a, "end", "ok", c) /\ UNCHANGED alive
     ELSE /\ alive' = alive \ {c} /\ UNCHANGED list
          /\ Ends(a, "end", IF closed THEN "error" ELSE "already", 0)
  /\ UNCHANGED <<started, children, dropping, host, claim, session, bounds>>

\* endSpawn: the claim is released and whoever waited has the same result.
WakesOnSuccess(a, b) == add[b].pc = "join" /\ add[a].res = "ok"
Wakes(a, b) == add[b].pc = "join"

EndSpawn(a) ==
  /\ add[a].pc = "end" /\ claim' = {}
  /\ add' = [b \in Callers |-> IF b = a \/ Wakes(a, b) THEN [add[a] EXCEPT !.pc = "finish"] ELSE add[b]]
  /\ UNCHANGED <<server, host, session, bounds>>

(***************************************************************************)
(* What the callers do with the result.                                    *)
(***************************************************************************)
\* The client a caller goes on with, 0 for none: its own, or for a name already
\* taken the one on the list.
GotUnasked(a) == IF add[a].res = "already" THEN ToolsFor ELSE {add[a].client}
Got(a) == IF add[a].res = "ok" THEN {add[a].client}
          ELSE IF add[a].res = "already" THEN ToolsFor ELSE {}
Done(a) == add' = [add EXCEPT ![a] = Idle]

\* lazySpawn.run.  Placeholders of a cached schema stay, a stub is replaced.
FinishLazy(t) ==
  LET a == <<t, "lazy">> IN
  /\ add[a].pc = "finish" /\ Done(a)
  /\ \/ \E c \in Got(a) :
          /\ spawn' = [spawn EXCEPT ![t] = "ready"] /\ real' = [real EXCEPT ![t] = c]
          /\ reg' = IF t \in stubbed THEN RegAdd(t, c) ELSE reg
     \/ /\ Got(a) = {} /\ spawn' = [spawn EXCEPT ![t] = "failed"]
        /\ UNCHANGED <<real, reg>>
  /\ UNCHANGED <<list, processes, dropping, host, claim, stubbed, suspended, bounds>>

\* Boot cancels the context it gave to Add, and with it the child it started.
FinishEager(t) ==
  LET a == <<t, "eager">> IN
  /\ add[a].pc = "finish" /\ Done(a)
  /\ alive' = alive \ children[a]
  /\ \/ Got(a) = {} /\ UNCHANGED reg
     \/ \E c \in Got(a) : reg' = RegAdd(t, c)
  /\ UNCHANGED <<list, started, children, dropping, host, claim, spawn, real,
                 stubbed, suspended, bounds>>

FinishUser(t) ==
  LET a == <<t, "user">> IN
  /\ add[a].pc = "finish" /\ Done(a)
  /\ \/ Got(a) = {} /\ UNCHANGED <<reg, suspended>>
     \/ /\ suspended' = [suspended EXCEPT ![t] = FALSE]
        /\ \E c \in Got(a) : reg' = [reg EXCEPT ![t] = c]
  /\ UNCHANGED <<server, host, claim, spawn, real, stubbed, bounds>>

(***************************************************************************)
(* Turning the server off.                                                 *)
(***************************************************************************)
\* disconnect: Remove takes the client off the list, closes it, and only then
\* does the registry lose its tools; without one only the placeholder goes.
Disconnect(t) ==
  /\ t \in booted /\ offs < MaxOffs /\ offs' = offs + 1
  /\ IF list # {}
     THEN /\ list' = {} /\ dropping' = dropping \cup {<<t, c>> : c \in list} /\ UNCHANGED reg
     ELSE reg' = [reg EXCEPT ![t] = 0] /\ UNCHANGED <<list, dropping>>
  /\ UNCHANGED <<processes, host, claim, add, spawn, real, stubbed, suspended, booted,
                 connects>>

Dropped(t, c) ==
  /\ <<t, c>> \in dropping /\ dropping' = dropping \ {<<t, c>>}
  /\ alive' = alive \ {c} /\ reg' = [reg EXCEPT ![t] = 0]
  /\ UNCHANGED <<list, started, children, host, claim, add, spawn, real,
                 stubbed, suspended, bounds>>

\* suspendToolPrefix: this session turns the server off, the others keep it.
Suspend(t) ==
  /\ t \in booted /\ offs < MaxOffs /\ offs' = offs + 1
  /\ suspended' = [suspended EXCEPT ![t] = TRUE] /\ reg' = [reg EXCEPT ![t] = 0]
  /\ UNCHANGED <<server, host, claim, add, spawn, real, stubbed, booted, connects>>

(***************************************************************************)
(* Host.Close.                                                             *)
(***************************************************************************)
\* The contexts of the background starts are cancelled, and their children with
\* them.
Close ==
  /\ closing = "no" /\ closed' = TRUE /\ closing' = "waiting"
  /\ alive' = {c \in alive : \A t \in Tabs : c \notin children[<<t, "lazy">>]}
  /\ UNCHANGED <<list, started, children, dropping, claim, add, session, bounds>>

\* deferredWG.Wait, then the clients on the list are closed.
Waits == \E t \in Tabs : add[<<t, "lazy">>] # Idle

Reap ==
  /\ closing = "waiting" /\ ~Waits /\ closing' = "done" /\ alive' = alive \ list
  /\ UNCHANGED <<list, started, children, dropping, closed, claim, add, session,
                 bounds>>

Finish(t) == FinishLazy(t) \/ FinishEager(t) \/ FinishUser(t)
Step(a) ==
  \/ Check(a) \/ Claim(a) \/ GivesUp(a) \/ Launch(a) \/ Greeted(a) \/ Refused(a) \/ Publish(a)
  \/ EndSpawn(a)
Drops == \E t \in Tabs, c \in Clients : Dropped(t, c)

Next ==
  \/ \E t \in Tabs : Reuses(t) \/ BootLazy(t) \/ BootEager(t) \/ Connect(t) \/ Finish(t)
                     \/ Disconnect(t) \/ Suspend(t)
  \/ \E a \in Callers : Step(a)
  \/ Close \/ Reap \/ Drops

Goes == (\E a \in Callers : Step(a)) \/ (\E t \in Tabs : Finish(t)) \/ Reap \/ Drops

Spec == Init /\ [][Next]_vars /\ WF_vars(Goes)

(***************************************************************************)
(* Properties.                                                             *)
(***************************************************************************)
\* The variables have their types.
TypeOK ==
  /\ started \in 0..MaxClients /\ list \subseteq Clients /\ alive \subseteq Clients
  /\ children \in [Callers -> SUBSET Clients] /\ dropping \subseteq Tabs \X Clients
  /\ closed \in BOOLEAN /\ closing \in {"no", "waiting", "done"}
  /\ claim \subseteq Callers /\ add \in [Callers -> [pc : Places, res : Results, client : Handles]]
  /\ spawn \in [Tabs -> {"idle", "inFlight", "ready", "failed"}] /\ real \in [Tabs -> Handles]
  /\ \A t \in Tabs : spawn[t] = "ready" <=> real[t] # 0
  /\ reg \in [Tabs -> Handles \cup {Placeholder}]
  /\ stubbed \subseteq Tabs /\ suspended \in [Tabs -> BOOLEAN]

\* The callers that hold the claim on the name.
Owners == {a \in Callers : add[a].pc \in {"owner", "handshake", "publish", "end"}}

\* The callers with a process that is not on the list yet.
Starting == {a \in Callers : add[a].pc \in {"handshake", "publish"}}

\* However many sessions ask for it, the server runs once: one caller starts it,
\* and only while no client of the name is on the host (the spawn claim and the
\* second look under it).
OneServer ==
  /\ \A c, d \in list : c = d
  /\ \A a, b \in Starting : a = b
  /\ Starting # {} => list = {}

\* When Close has returned, no background start is under way and no process of
\* the host is left: one that runs still belongs to a caller that has yet to
\* find the host closed, or to a disconnect that is closing it.
CloseLeavesNothing ==
  closing = "done" =>
    /\ ~Waits /\ list \cap alive = {}
    /\ \A c \in alive : (\E a \in Starting : add[a].client = c) \/ (\E t \in Tabs : <<t, c>> \in dropping)

\* A session that turned the server off sees no tool of it until it connects
\* again: a background start that ends late, its own or one it waited for, does
\* not bring them back (SuspendPrefix).
SuspendedStaysOut == \A t \in Tabs : suspended[t] => reg[t] = 0

\* Whoever waits for another's start waits for one that is under way: a claim
\* is never given up, whatever became of the start, with a caller left waiting.
WaitersHaveAnOwner ==
  \A a \in Callers : add[a].pc = "join" =>
    claim # {} /\ claim \subseteq Owners

\* Once the host is closed every process it started ends.
ReapedInTheEnd == closed ~> alive = {}

Claims == INSTANCE Exclusive WITH Users <- Callers, holders <- Owners

\* The claim is a lock: whatever becomes of a start, only one caller at a time
\* is between beginSpawn and endSpawn.
ClaimIsExclusive == Claims!Spec

\* Whoever waits for the server waits for a start under way, and a closed host has
\* nothing left of it (Host.Add, Host.Close).  The variables have their types.
HostIsSound ==
  /\ TypeOK
  /\ WaitersHaveAnOwner
  /\ CloseLeavesNothing
=============================================================================
