------------------------- MODULE ReactorLifecycle -------------------------
(***************************************************************************)
(* The connection lifecycle of reactor-core's `Reactor`: connect(),        *)
(* reconnect() and disconnect() running as concurrent host tasks, the peer *)
(* event pump, and the teardown all of them share.                         *)
(*                                                                         *)
(* All client state sits behind one mutex that is never held across an     *)
(* await, so one action is one lock acquisition together with the await    *)
(* that precedes it; every point where another task can run is a pc label. *)
(* The WebRTC engine and the coordinator are external: a peer connection   *)
(* is its number, the channels it really has open and whether the answer   *)
(* was applied; the coordinator is the set of sessions it was asked to     *)
(* make and to end.  Any request to either may fail.                       *)
(*                                                                         *)
(* Abstracted away: payloads, capabilities, ICE, events published to       *)
(* listeners, and the auto-resume requests a successful attempt sends.     *)
(***************************************************************************)
EXTENDS Naturals, Sequences

CONSTANTS
    Callers,          \* host tasks that may be inside a lifecycle call at once
    Pump,             \* the task draining the peer-event queue
    NoTask,           \* "no ready gate installed"
    Adopted,          \* a session another client created, which this one may adopt
    MaxCalls,         \* bound: lifecycle calls the host makes
    MaxDrops,         \* bound: times a live peer connection goes down by itself
    MaxQueue,         \* bound: peer events queued at once
    Preset,           \* the client was built with preset_tracks
    Stepped,          \* stepped generation: the data channel must be chunked
    Environments      \* sets of what the environment grants: "prompt", "undisturbed"

ASSUME TasksAssumption == Pump \notin Callers /\ NoTask \notin Callers /\ NoTask # Pump
ASSUME AdoptedAssumption == Adopted \notin Nat
ASSUME BoundsAssumption == MaxCalls \in Nat /\ MaxDrops \in Nat /\ MaxQueue \in Nat
ASSUME FlagsAssumption ==
    /\ Preset \in BOOLEAN /\ Stepped \in BOOLEAN
    /\ Environments \subseteq SUBSET {"prompt", "undisturbed"}

VARIABLES
    \* State, the mutex-guarded client state
    status, session, created, closing, reason, flags, gate,
    \* the tasks: where each is, for which call, and its locals
    pc, op, sid, mine, rx, ends, blamed,
    \* the engine and its event queue
    peer, up, answered, peers, queue, drops,
    \* the coordinator, the host's calls so far, and what the environment grants
    made, asked, calls, latest, env

client == <<status, session, created, closing, reason, flags, gate>>
locals == <<op, sid, mine, rx, ends, blamed>>
transport == <<peer, up, answered>>
engine == <<transport, peers, queue, drops>>
outside == <<made, asked, calls, latest, env>>
vars == <<client, pc, locals, engine, outside>>

Tasks == Callers \cup {Pump}
Channels == {"peer", "data", "control"}
Statuses == {"Disconnected", "Connecting", "Waiting", "Ready"}

\* Sessions this client creates are numbered from 1; 0 is "none".
SessionIds == Nat \cup {Adopted}

\* What the engine queues: what happened, and to which peer connection.
Events == [kind : Channels \cup {"down"}, gen : Nat]

\* Mutant: disconnect() keeps the session it was asked to end.
RecoverableToo(o) == o \in {"cycle", "reconnect", "drop", "disconnect"}
\* `recoverable` of the teardown each call runs, fixed by its entry point.
Recoverable(o) == o \in {"cycle", "reconnect", "drop"}

\* The last writes a call makes to `status` are at "ready" and "settle".
Attempting == {"create", "store", "waiting", "prepare", "poll", "discard",
               "gate", "answer", "remote", "await", "ready"}
TearingDown == {"teardown", "close", "terminate", "clear", "settle"}
Ops == {"none", "connect", "reconnect", "cycle", "disconnect", "drop"}
Labels == Attempting \cup TearingDown \cup {"idle", "reopen", "blame"}

Idle(t) == pc[t] = "idle"
AllIdle == \A t \in Tasks : Idle(t)
\* In a "prompt" environment every event is handled before the next one is
\* emitted, before the host calls again, before a gate times out and before a
\* call closes the peer connection: no event outlives the connection it is about.
Calm == "prompt" \in env => Idle(Pump) /\ queue = <<>>

Goto(t, label) == pc' = [pc EXCEPT ![t] = label]
Step(t, from, to) == pc[t] = from /\ Goto(t, to)

\* The locals go out of scope when the call returns.
Forget(t) ==
    /\ sid' = [sid EXCEPT ![t] = 0]
    /\ mine' = [mine EXCEPT ![t] = 0]
    /\ rx' = [rx EXCEPT ![t] = "none"]
    /\ ends' = [ends EXCEPT ![t] = FALSE]
    /\ blamed' = [blamed EXCEPT ![t] = 0]

----------------------------------------------------------------------------
Init ==
    /\ status = "Disconnected"
    /\ session = 0
    /\ created = FALSE
    /\ closing = FALSE
    /\ reason = 0
    /\ flags = {}
    /\ gate = NoTask
    /\ pc = [t \in Tasks |-> "idle"]
    /\ op = [t \in Tasks |-> "none"]
    /\ sid = [t \in Tasks |-> 0]
    /\ mine = [t \in Tasks |-> 0]
    /\ rx = [t \in Tasks |-> "none"]
    /\ ends = [t \in Tasks |-> FALSE]
    /\ blamed = [t \in Tasks |-> 0]
    /\ peer = 0
    /\ up = {}
    /\ answered = FALSE
    /\ peers = 0
    /\ queue = <<>>
    /\ drops = 0
    /\ made = 0
    /\ asked = {}
    /\ calls = 0
    /\ latest = "none"
    /\ env \in Environments

----------------------------------------------------------------------------
(* The host's calls.                                                       *)

Call(t, o) ==
    /\ Idle(t)
    /\ Calm
    /\ calls < MaxCalls
    /\ calls' = calls + 1
    /\ latest' = o
    /\ UNCHANGED <<made, asked, env, engine, mine, rx, ends, blamed>>

\* Mutant: connect() is refused only while another one is starting.
MayConnectEarly == status # "Connecting"
MayConnect == status = "Disconnected"

\* Mutants: the new attempt starts with the last one's reason, or as closing.
KeepsReason == closing' = FALSE /\ UNCHANGED reason
KeepsClosing == reason' = 0 /\ UNCHANGED closing
FreshAttempt == closing' = FALSE /\ reason' = 0

\* connect(): guard and status update in one lock acquisition.  Readiness
\* flags left by late events are not reset here.
Connect(t, adopt) ==
    /\ MayConnect
    /\ Call(t, "connect")
    /\ FreshAttempt
    /\ status' = "Connecting"
    /\ op' = [op EXCEPT ![t] = "connect"]
    /\ sid' = [sid EXCEPT ![t] = IF adopt THEN Adopted ELSE 0]
    /\ Goto(t, IF adopt THEN "store" ELSE "create")
    /\ UNCHANGED <<session, created, flags, gate>>

\* connect() in any other status: InvalidState, nothing changes.
ConnectRejected(t) ==
    /\ ~MayConnect
    /\ Call(t, "rejected")
    /\ UNCHANGED <<client, pc, op, sid>>

\* reconnect(): a live connection is torn down first, keeping the session.
Reconnect(t) ==
    /\ Call(t, "reconnect")
    /\ op' = [op EXCEPT ![t] = IF status = "Ready" THEN "cycle" ELSE "reconnect"]
    /\ Goto(t, IF status = "Ready" THEN "teardown" ELSE "reopen")
    /\ UNCHANGED <<client, sid>>

\* disconnect(false), the only form the host can reach.
Disconnect(t) ==
    /\ Call(t, "disconnect")
    /\ op' = [op EXCEPT ![t] = "disconnect"]
    /\ Goto(t, "teardown")
    /\ UNCHANGED <<client, sid>>

\* Mutant: the status is updated before the session is found missing.
ReopenUnguarded(t) ==
    /\ pc[t] = "reopen"
    /\ status' = "Connecting"
    /\ FreshAttempt
    /\ flags' = {}
    /\ sid' = [sid EXCEPT ![t] = session]
    /\ Goto(t, IF session = 0 THEN "idle" ELSE "waiting")
    /\ UNCHANGED <<session, created, gate, op, mine, rx, ends, blamed, engine, outside>>
\* reconnect()'s second lock acquisition: it needs a session and nothing
\* else; no status is refused.
Reopen(t) ==
    /\ pc[t] = "reopen"
    /\ IF session = 0
       THEN /\ Goto(t, "idle")
            /\ op' = [op EXCEPT ![t] = "none"]
            /\ UNCHANGED <<client, sid>>
       ELSE /\ FreshAttempt
            /\ flags' = {}
            /\ status' = "Connecting"
            /\ sid' = [sid EXCEPT ![t] = session]
            /\ Goto(t, "waiting")
            /\ UNCHANGED <<session, created, gate, op>>
    /\ UNCHANGED <<mine, rx, ends, blamed, engine, outside>>

----------------------------------------------------------------------------
(* The steps of one connection attempt.                                    *)

CreateSession(t) ==
    /\ Step(t, "create", "store")
    /\ made' = made + 1
    /\ sid' = [sid EXCEPT ![t] = made + 1]
    /\ UNCHANGED <<client, op, mine, rx, ends, blamed, engine, asked, calls, latest, env>>

\* Mutant: adopting a session leaves created_session as it was.
OwnedAlways(s) == TRUE
\* created_session: TRUE for a session this client asked for.
Owned(s) == s # Adopted

StoreSession(t) ==
    /\ Step(t, "store", "waiting")
    /\ session' = sid[t]
    /\ created' = Owned(sid[t])
    /\ UNCHANGED <<status, closing, reason, flags, gate, locals, engine, outside>>

SetWaiting(t) ==
    /\ Step(t, "waiting", "prepare")
    /\ status' = "Waiting"
    /\ UNCHANGED <<session, created, closing, reason, flags, gate, locals, engine, outside>>

\* The engine holds the peer connection numbered g, just built, or none (0).
Hold(g) == peer' = g /\ up' = {} /\ answered' = FALSE

\* A connect() polls the session until it is ready, then the engine builds a
\* new peer connection; one still held is dropped.  With preset_tracks the
\* offer is built while the session is polled, and the poll's result is
\* looked at only when both are done.
Prepare(t) ==
    /\ Step(t, "prepare",
            IF op[t] = "connect" /\ Preset THEN "poll" ELSE "gate")
    /\ peers' = peers + 1
    /\ Hold(peers + 1)
    /\ mine' = [mine EXCEPT ![t] = peers + 1]
    /\ UNCHANGED <<client, op, sid, rx, ends, blamed, queue, drops, outside>>

\* The polled session has the preset tracks ...
PresetMatches(t) ==
    /\ Step(t, "poll", "gate")
    /\ UNCHANGED <<client, locals, engine, outside>>

\* ... or others: the offer is discarded without being sent.
PresetMismatch(t) ==
    /\ Step(t, "poll", "discard")
    /\ UNCHANGED <<client, locals, engine, outside>>

DiscardOffer(t) ==
    /\ Step(t, "discard", "teardown")
    /\ Hold(0)
    /\ UNCHANGED <<client, locals, peers, queue, drops, outside>>

\* The gate's receivers once the sender held in `gate` is dropped.
Cancelled == [t \in Tasks |-> IF t = gate THEN "cancelled" ELSE rx[t]]

\* Mutant: the gate does not wait for the control channel.
TwoOpen(f) == {"peer", "data"} \subseteq f
\* check_ready_locked: every readiness flag is set.
AllOpen(f) == f = Channels

\* Mutant: readiness is only looked at when an event comes in.
OpensLater == FALSE
OpensAtOnce == AllOpen(flags)

\* finish_transport installs its gate, replacing any other, and opens it at
\* once if every readiness event came before it.
InstallGate(t) ==
    /\ Step(t, "gate", "answer")
    /\ IF OpensAtOnce
       THEN gate' = NoTask /\ rx' = [Cancelled EXCEPT ![t] = "fired"]
       ELSE gate' = t /\ rx' = [Cancelled EXCEPT ![t] = "armed"]
    /\ UNCHANGED <<status, session, created, closing, reason, flags>>
    /\ UNCHANGED <<op, sid, mine, ends, blamed, engine, outside>>

\* Connection registered, offer sent and answer polled; then a recorded teardown reason ends the attempt.
Answer(t) ==
    /\ Step(t, "answer", IF reason = 0 THEN "remote" ELSE "teardown")
    /\ blamed' = [blamed EXCEPT ![t] = reason]
    /\ UNCHANGED <<client, op, sid, mine, rx, ends, engine, outside>>

\* set_remote_description fails against a transport that is gone; the
\* recorded reason, if any, is reported in place of that error.
SetRemote(t) ==
    /\ Step(t, "remote", IF peer = 0 THEN "teardown" ELSE "await")
    /\ answered' = (peer # 0)
    /\ blamed' = [blamed EXCEPT ![t] = IF peer = 0 THEN reason ELSE 0]
    /\ UNCHANGED <<client, op, sid, mine, rx, ends, peer, up, peers, queue, drops, outside>>

GateOpened(t) ==
    /\ rx[t] = "fired"
    /\ Step(t, "await", "ready")
    /\ UNCHANGED <<client, locals, engine, outside>>

\* A stepped session whose data channel came up without chunking is refused.
ChunkingRequired(t) ==
    /\ Stepped
    /\ rx[t] = "fired"
    /\ Step(t, "await", "teardown")
    /\ UNCHANGED <<client, locals, engine, outside>>

GateCancelled(t) ==
    /\ rx[t] = "cancelled"
    /\ Step(t, "await", "teardown")
    /\ blamed' = [blamed EXCEPT ![t] = reason]
    /\ UNCHANGED <<client, op, sid, mine, rx, ends, engine, outside>>

\* Mutant: the readiness timeout never fires.
TimeoutLost(t) == FALSE /\ UNCHANGED vars

GateTimeout(t) ==
    /\ rx[t] = "armed"
    /\ Calm
    /\ Step(t, "await", "teardown")
    /\ UNCHANGED <<client, locals, engine, outside>>

\* A request of the attempt fails, at the coordinator or in the engine.
RequestFails(t) ==
    /\ pc[t] \in {"create", "poll", "prepare", "answer", "remote"}
    /\ Goto(t, "teardown")
    /\ blamed' = [blamed EXCEPT ![t] = IF pc[t] = "remote" THEN reason ELSE 0]
    /\ UNCHANGED <<client, op, sid, mine, rx, ends, engine, outside>>

\* set_status(Ready), unconditionally, and the call returns Ok.
SetReady(t) ==
    /\ Step(t, "ready", "idle")
    /\ status' = "Ready"
    /\ op' = [op EXCEPT ![t] = "none"]
    /\ Forget(t)
    /\ UNCHANGED <<session, created, closing, reason, flags, gate, engine, outside>>

----------------------------------------------------------------------------
(* teardown(recoverable, already_failing).                                 *)

DropGate == gate' = NoTask /\ rx' = Cancelled

\* Mutant: only disconnect() ends the session, not a connect() that failed.
EndsOnDisconnect(t) == op[t] = "disconnect" /\ created
EndsSession(t) == ~Recoverable(op[t]) /\ created

BeginTeardown(t) ==
    /\ Step(t, "teardown", "close")
    /\ closing' = TRUE
    /\ DropGate
    /\ ends' = [ends EXCEPT ![t] = EndsSession(t)]
    /\ sid' = [sid EXCEPT ![t] = session]
    /\ UNCHANGED <<status, session, created, reason, flags, op, mine, blamed, engine, outside>>

ClosePeer(t) ==
    /\ t # Pump => Calm
    /\ Step(t, "close", IF ends[t] /\ sid[t] # 0 THEN "terminate" ELSE "clear")
    /\ Hold(0)
    /\ UNCHANGED <<client, locals, peers, queue, drops, outside>>

\* The DELETE is sent once; its failure is only logged.
TerminateSession(t) ==
    /\ Step(t, "terminate", "clear")
    /\ asked' = asked \cup {sid[t]}
    /\ UNCHANGED <<client, locals, engine, made, calls, latest, env>>

ClearState(t) ==
    /\ Step(t, "clear", "settle")
    /\ flags' = {}
    /\ IF Recoverable(op[t])
       THEN UNCHANGED <<session, created>>
       ELSE session' = 0 /\ created' = FALSE
    /\ UNCHANGED <<status, closing, reason, gate, locals, engine, outside>>

\* set_status(Disconnected) ends the teardown; reconnect() of a live
\* connection then goes on to reopen it.
Settle(t) ==
    /\ Step(t, "settle", IF op[t] = "cycle" THEN "reopen" ELSE "idle")
    /\ status' = "Disconnected"
    /\ op' = [op EXCEPT ![t] = IF @ = "cycle" THEN "reconnect" ELSE "none"]
    /\ Forget(t)
    /\ UNCHANGED <<session, created, closing, reason, flags, gate, engine, outside>>

----------------------------------------------------------------------------
(* The peer-event pump: one event at a time, in order.                     *)

Opens(k) == k \in Channels

\* Connected, DataChannelOpen, ControlChannelOpen: whichever peer connection
\* queued it, the flag is set, and the gate opens once all three are.
HandleOpen ==
    /\ Idle(Pump)
    /\ queue # <<>>
    /\ Opens(Head(queue).kind)
    /\ queue' = Tail(queue)
    /\ flags' = flags \cup {Head(queue).kind}
    /\ IF AllOpen(flags') /\ gate # NoTask
       THEN gate' = NoTask /\ rx' = [rx EXCEPT ![gate] = "fired"]
       ELSE UNCHANGED <<gate, rx>>
    /\ UNCHANGED <<status, session, created, closing, reason>>
    /\ UNCHANGED <<pc, op, sid, mine, ends, blamed, transport, peers, drops, outside>>

\* Failed, Disconnected or Closed: ignored while closing or disconnected.
HandleDown ==
    /\ Idle(Pump)
    /\ queue # <<>>
    /\ Head(queue).kind = "down"
    /\ queue' = Tail(queue)
    /\ IF ~closing /\ status # "Disconnected"
       THEN /\ mine' = [mine EXCEPT ![Pump] = Head(queue).gen]
            /\ op' = [op EXCEPT ![Pump] = "drop"]
            /\ Goto(Pump, "blame")
       ELSE UNCHANGED <<pc, op, mine>>
    /\ UNCHANGED <<client, sid, rx, ends, blamed, transport, peers, drops, outside>>

\* The reason is recorded in a lock acquisition of its own, then teardown.
RecordReason ==
    /\ Step(Pump, "blame", "teardown")
    /\ reason' = mine[Pump]
    /\ UNCHANGED <<status, session, created, closing, flags, gate, locals, engine, outside>>

----------------------------------------------------------------------------
(* The engine (external).                                                  *)

Emit(k) ==
    /\ Calm
    /\ Len(queue) < MaxQueue
    /\ queue' = Append(queue, [kind |-> k, gen |-> peer])

\* The channels ride the connection, so they open after it.
PeerOpens(c) ==
    /\ answered
    /\ c \notin up
    /\ c = "peer" \/ "peer" \in up
    /\ up' = up \cup {c}
    /\ Emit(c)
    /\ UNCHANGED <<client, pc, locals, peer, answered, peers, drops, outside>>

\* The connection is lost; in an "undisturbed" environment, only while no call is
\* running.  The engine may find it again: PeerOpens("peer").
PeerDrops ==
    /\ answered
    /\ "peer" \in up
    /\ drops < MaxDrops
    /\ "undisturbed" \in env => \A t \in Callers : Idle(t)
    /\ drops' = drops + 1
    /\ up' = up \ {"peer"}
    /\ Emit("down")
    /\ UNCHANGED <<client, pc, locals, peer, answered, peers, outside>>

----------------------------------------------------------------------------
HostCall(t) ==
    \/ \E adopt \in BOOLEAN : Connect(t, adopt)
    \/ ConnectRejected(t)
    \/ Reconnect(t)
    \/ Disconnect(t)

Attempt(t) ==
    \/ Reopen(t)
    \/ CreateSession(t)
    \/ StoreSession(t)
    \/ SetWaiting(t)
    \/ Prepare(t)
    \/ PresetMatches(t)
    \/ PresetMismatch(t)
    \/ DiscardOffer(t)
    \/ InstallGate(t)
    \/ Answer(t)
    \/ SetRemote(t)
    \/ GateOpened(t)
    \/ ChunkingRequired(t)
    \/ GateCancelled(t)
    \/ GateTimeout(t)
    \/ RequestFails(t)
    \/ SetReady(t)

Teardown(t) ==
    \/ BeginTeardown(t)
    \/ ClosePeer(t)
    \/ TerminateSession(t)
    \/ ClearState(t)
    \/ Settle(t)

HandlePeerEvent == HandleOpen \/ HandleDown \/ RecordReason

Engine == PeerDrops \/ \E c \in Channels : PeerOpens(c)

Next ==
    \/ \E t \in Callers : HostCall(t) \/ Attempt(t)
    \/ \E t \in Tasks : Teardown(t)
    \/ HandlePeerEvent
    \/ Engine

\* The runtime runs every task that can make a step, and every request and
\* timer ends.  The host owes no call, and the engine owes no event.
Fairness ==
    /\ \A t \in Callers : WF_vars(Attempt(t)) /\ WF_vars(Teardown(t))
    /\ WF_vars(HandlePeerEvent)
    /\ WF_vars(Teardown(Pump))

Spec == Init /\ [][Next]_vars /\ Fairness

----------------------------------------------------------------------------
ClientOK ==
    /\ status \in Statuses
    /\ session \in SessionIds
    /\ reason \in Nat
    /\ flags \in SUBSET Channels
    /\ gate \in Callers \cup {NoTask}

TasksOK ==
    /\ pc \in [Tasks -> Labels]
    /\ op \in [Tasks -> Ops]
    /\ sid \in [Tasks -> SessionIds]
    /\ mine \in [Tasks -> Nat]
    /\ rx \in [Tasks -> {"none", "armed", "fired", "cancelled"}]
    /\ ends \in [Tasks -> BOOLEAN]
    /\ blamed \in [Tasks -> Nat]

EngineOK ==
    /\ peer \in Nat
    /\ up \in SUBSET Channels
    /\ peers \in Nat
    /\ queue \in Seq(Events)
    /\ drops \in Nat

SwitchesOK ==
    /\ created \in BOOLEAN
    /\ closing \in BOOLEAN
    /\ answered \in BOOLEAN

OutsideOK ==
    /\ made \in Nat
    /\ asked \in SUBSET SessionIds
    /\ calls \in Nat
    /\ latest \in Ops \cup {"rejected"}
    /\ env \in SUBSET {"prompt", "undisturbed"}

\* Every variable keeps its type.
TypeOK == ClientOK /\ TasksOK /\ EngineOK /\ SwitchesOK /\ OutsideOK

----------------------------------------------------------------------------
(* What holds whatever the host, the engine and the coordinator do.        *)

\* Once no call and no peer event is being handled, the client is either
\* Disconnected or Ready: no interleaving of attempts and teardowns strands
\* it in Connecting or Waiting, where connect() would be refused for good.
SettledWhenIdle == AllIdle => status \in {"Disconnected", "Ready"}

\* The session another client created is never terminated by this one: the
\* id and created_session are always read and written together.
NeverTerminatesAdopted == Adopted \notin asked

\* An attempt never waits for a readiness that is already complete: its
\* sender is still installed and a flag is still missing, even when events
\* came before the gate or another attempt's gate came after it.
NoLostReadiness ==
    \A t \in Callers :
        pc[t] \in {"answer", "remote", "await"} /\ rx[t] = "armed"
            => gate = t /\ flags # Channels

\* A gate is only left installed for an attempt that is still under way, so
\* no later connection's events can open a gate nobody waits on.
GateHasAttempt ==
    gate # NoTask => pc[gate] \in {"answer", "remote", "await", "teardown"}

\* The strengthenings under which the four above are inductive.
SomeoneWillSettle ==
    status \notin {"Disconnected", "Ready"}
        => \E t \in Tasks : pc[t] \in Attempting \cup TearingDown

OwnershipInv ==
    /\ created => session # Adopted
    /\ \A t \in Tasks :
         pc[t] \in {"close", "terminate"} /\ ends[t] => sid[t] # Adopted
    /\ \A t \in Tasks : pc[t] = "terminate" => ends[t]
    /\ NeverTerminatesAdopted

GateInv ==
    /\ gate # NoTask => rx[gate] = "armed" /\ flags # Channels
    /\ GateHasAttempt
    /\ NoLostReadiness

----------------------------------------------------------------------------
(* What holds for a host that awaits each call before making the next.     *)

\* The client forgets a session it created only after asking the
\* coordinator to end it.
ForgetsOnlyEndedSessions ==
    [][created /\ session # 0 /\ session' = 0 => session \in asked']_vars

\* When disconnect() was the last call and everything is idle, the client is
\* Disconnected and holds no session.
DisconnectIsFinal ==
    AllIdle /\ latest = "disconnect" => status = "Disconnected" /\ session = 0

\* After a disconnect() the client holds no session it created.
DisconnectEndsSession ==
    AllIdle /\ latest = "disconnect" => ~(created /\ session # 0)

\* A failed attempt that blames the loss of a peer connection blames the one
\* it had built itself: reset with `closing`, the recorded reason never
\* reports one attempt's teardown as the cause of a later one's.  (A late event
\* of the old connection, handled after the reset, is blamed for the new one.)
BlamesOwnPeer == "prompt" \in env => \A t \in Callers : blamed[t] \in {0, mine[t]}

\* Ready, with every call returned and every event handled, means that the
\* current peer connection is connected and both its channels are open
\* (state.rs: "Transport is up").
ReadyMeansUp == AllIdle /\ queue = <<>> /\ status = "Ready" => up = Channels

\* It does mean so where no event outlives its connection and no connection is
\* lost during a call.
Quiet == {"prompt", "undisturbed"} \subseteq env
ReadyMeansUpIfQuiet == Quiet => ReadyMeansUp

\* The diagram, of a quiet environment's status.
Diagram == INSTANCE ConnectionStatus WITH
             status <- IF Quiet THEN status ELSE "Disconnected"

\* Where it is quiet, the status moves only along the arrows of the diagram that
\* documents it.
FollowsDiagram == Diagram!Spec

\* Every call returns, whatever fails on the way and however the engine
\* behaves: no wait of an attempt or a teardown is unbounded.
CallsReturn == \A t \in Callers : ~Idle(t) ~> Idle(t)

\* Where it is quiet, the loss of the peer connection of a Ready client is
\* noticed: it does not stay Ready unless the engine finds the connection again.
DropIsNoticed ==
    Quiet /\ status = "Ready" /\ "peer" \notin up ~> status # "Ready"
=============================================================================
