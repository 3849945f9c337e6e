---------------------------- MODULE MediaTracks ----------------------------
(***************************************************************************)
(* The tracks of a client: how a peer is prepared for them, the bitrate     *)
(* bounds an application sets and every new peer has to run on, pausing,    *)
(* publishing, the framing of the data channels, and the heartbeat that     *)
(* keeps a connection alive.                                                *)
(*                                                                         *)
(* The core (Reactor) is one; the peer transport is the native one          *)
(* (reactor-ffi) or the browser's (reactor-wasm), and the two differ:       *)
(* native code is preempted between any two locks, the browser's only where *)
(* it awaits.  The lifecycle is kept to what these parts observe of it:     *)
(* ReactorLifecycle is about the lifecycle itself.                          *)
(***************************************************************************)
EXTENDS Integers, Sequences

CONSTANTS
    Declared,       \* the tracks a session declares, in order: [name, dir]
    BitrateNames,   \* the track names applications bound, undeclared ones too
    PauseNames,     \* the track names applications pause and resume
    PublishNames,   \* the track names applications publish
    Asked,          \* the bounds applications ask for, negative ones too
    Refused,        \* the bounds the WebRTC engine refuses
    MaxConnects,    \* how often an application connects or reconnects
    Applications    \* what else it does, and how often its connection drops:
                    \* [bounds, calls, drops], where bounds is TRUE of one that
                    \* bounds bitrates and FALSE of one that pauses and publishes
                    \* (the two kinds of call share no state)

ASSUME DeclaredAssumption ==
    Declared \in Seq([name : STRING, dir : {"sendonly", "recvonly"}])

Names == {Declared[i].name : i \in DOMAIN Declared}
Slots == {"connection"} \cup Names \cup BitrateNames

(* The connection's own bound has a slot of its own (a field, in the code). *)
ASSUME SlotsAssumption == "connection" \notin Names \cup BitrateNames

Default == -1
NoPeer == [n |-> 0]
Channels == {"data", "control"}
Callers == {"app", "auto"}
NoCall == [op |-> "none"]

VARIABLES
    host, stepped,  \* the build, and the generation mode of the options
    status, closing, lost, epoch, declared, opened, paused,
                    \* the core's state; `lost` stands for teardown_reason
    attempt,        \* connect() or reconnect() under way
    tearing,        \* the attempt's own teardown, and any other
    peer,           \* the transport's state, NoPeer before prepare()
    remembered,     \* the bounds the transport keeps across peers
    call,           \* the application's call, and the attempt's auto-resume
    loops,          \* the heartbeat loops, by the connection that spawned them
    budget,         \* what is left of the application's calls and drops
    accepted, raced, told, claimed, crossed
                    \* what the application and the runtime were told

core == <<status, closing, lost, epoch, declared, opened, paused>>
ghosts == <<accepted, raced, told, claimed, crossed>>
fixed == <<host, stepped>>
vars == <<fixed, core, attempt, tearing, peer, remembered, call, loops, budget, ghosts>>

(***************************************************************************)
(* Tracks and peers.                                                       *)
(***************************************************************************)
Sendonly(t) == t.dir = "sendonly"

(* The receive tracks, in the order they were declared.                     *)
Recvonly(t) == ~Sendonly(t)
RecvNames == SelectSeq(Declared, Recvonly)

IsStepInput(name) ==
    stepped /\ \E i \in DOMAIN Declared : Declared[i].name = name /\ Sendonly(Declared[i])

(* The tracks that get a transceiver: a stepped session's inputs have none. *)
Transceivers ==
    {Declared[i].name : i \in {j \in DOMAIN Declared : stepped => Recvonly(Declared[j])}}

(* A new peer for these tracks, its senders on the engine's defaults.       *)
NewPeer(n, names) ==
    [n |-> n, tracks |-> names, bounds |-> [s \in Slots |-> Default], answer |-> "none",
     remote |-> "plain", framing |-> [c \in Channels |-> "unopened"],
     inactive |-> {}, sender |-> {}]

HasTransceiver(name) == peer # NoPeer /\ name \in peer.tracks

(* What an engine holds for a slot after it was asked for a bound.          *)
Takes(old, bound) == IF bound \in Refused THEN old ELSE bound

(* apply_bitrate(): every remembered bound, each on its own; one for a name *)
(* without a transceiver is ignored, a refused one leaves the default.      *)
Rebound(p) ==
    [p EXCEPT !.bounds = [s \in Slots |-> IF s \in p.tracks \cup {"connection"}
                                            THEN Takes(@[s], remembered[s]) ELSE @[s]]]

(* Whether a send on the control channel can go out: there must be a peer   *)
(* and the channel be open; a chunked channel may also refuse a full queue. *)
Open(c) == peer # NoPeer /\ peer.framing[c] \in {"plain", "chunked"}
MayFail(c) == IF Open(c) THEN peer.framing[c] = "chunked" ELSE TRUE

Chunked == peer # NoPeer /\ peer.framing["data"] = "chunked"

(***************************************************************************)
(* connect() and reconnect(): what they do to the peer.                     *)
(***************************************************************************)
Init ==
    /\ host \in {"native", "browser"} /\ stepped \in BOOLEAN
    /\ status = "Disconnected" /\ closing = FALSE /\ lost = FALSE /\ epoch = 0
    /\ declared = FALSE /\ opened = FALSE /\ paused = {}
    /\ attempt = [at |-> "idle", kind |-> "connect", peer |-> NoPeer, next |-> 1]
    /\ tearing = [w \in {"own", "other"} |-> [at |-> "none", keep |-> FALSE]]
    /\ peer = NoPeer
    /\ remembered = [s \in Slots |-> Default]
    /\ call = [c \in Callers |-> NoCall]
    /\ loops = [k \in 1..MaxConnects |-> [at |-> "off", epoch |-> 0]]
    /\ budget \in Applications
    /\ accepted = remembered /\ raced = [live |-> FALSE, building |-> FALSE]
    /\ told = [x \in Names |-> "none"] /\ claimed = {}
    /\ crossed = FALSE

At(place) == attempt' = [attempt EXCEPT !.at = place]

Begun ==
    /\ status' = "Connecting" /\ closing' = FALSE /\ lost' = FALSE
    /\ epoch' = epoch + 1

Connect ==
    /\ attempt.at = "idle" /\ status = "Disconnected" /\ epoch < MaxConnects
    /\ Begun
    /\ attempt' = [at |-> "begun", kind |-> "connect", peer |-> NoPeer, next |-> 1]
    /\ UNCHANGED <<fixed, declared, opened, paused, tearing, peer,
                   remembered, call, loops, budget, ghosts>>

(* reconnect() tears a live connection down first, and keeps its session.   *)
Reconnect ==
    /\ attempt.at = "idle" /\ epoch > 0 /\ epoch < MaxConnects
    /\ attempt' = [at |-> "recycling", kind |-> "reconnect", peer |-> NoPeer, next |-> 1]
    /\ tearing' = [tearing EXCEPT !["own"] =
                     IF status = "Ready" THEN [at |-> "asked", keep |-> TRUE] ELSE @]
    /\ UNCHANGED <<fixed, core, peer, remembered, call, loops, budget, ghosts>>

Recycled ==
    /\ attempt.at = "recycling" /\ tearing["own"].at = "none" /\ declared
    /\ Begun /\ At("begun") /\ opened' = FALSE
    /\ UNCHANGED <<fixed, declared, paused, tearing, peer,
                   remembered, call, loops, budget, ghosts>>

NoSessionLeft ==
    /\ attempt.at = "recycling" /\ tearing["own"].at = "none" /\ ~declared
    /\ At("idle")
    /\ UNCHANGED <<fixed, core, tearing, peer, remembered, call, loops, budget, ghosts>>

(* The session exists and has declared its tracks; the browser's prepare()  *)
(* closes whatever peer was left before it builds another.                  *)
Close(leftover) == IF host = "browser" THEN NoPeer ELSE leftover

SessionReady ==
    /\ attempt.at = "begun"
    /\ status' = "Waiting"
    /\ declared' = (declared \/ attempt.kind = "connect")
    /\ peer' = Close(peer)
    /\ attempt' = [attempt EXCEPT !.at = "building",
                     !.peer = NewPeer(epoch, IF declared' THEN Transceivers ELSE {})]
    /\ UNCHANGED <<fixed, closing, lost, epoch, opened, paused, tearing,
                   remembered, call, loops, budget, ghosts>>

(* A call that bounds a bitrate, from its lookup of the peer to its answer. *)
Bounding == call["app"].op = "bitrate"

ApplyBitrate ==
    /\ attempt.at = "building"
    /\ attempt' = [attempt EXCEPT !.at = "applied", !.peer = Rebound(@)]
    /\ raced' = [raced EXCEPT !.building = Bounding]
    /\ UNCHANGED <<fixed, core, tearing, peer, remembered, call, loops, budget,
                   accepted, told, claimed, crossed>>

(* prepare() publishes the peer.                                            *)
Prepared ==
    /\ attempt.at = "applied"
    /\ peer' = attempt.peer
    /\ attempt' = [attempt EXCEPT !.at = "prepared", !.peer = NoPeer]
    /\ raced' = [raced EXCEPT !.live = raced.building \/ Bounding]
    /\ told' = [x \in Names |-> "none"] /\ claimed' = {}
    /\ UNCHANGED <<fixed, core, tearing, remembered, call, loops, budget,
                   accepted, crossed>>

OnAnswerLater(p, answer, when) ==        \* mutant: recorded once it is applied
    IF when = "applied" THEN [p EXCEPT !.remote = answer] ELSE p

(* finish_transport(), up to the answer: a transport already gone is not    *)
(* asked to take it.  The browser records what the answer declares before   *)
(* it hands the answer over: the channels decide when they open.            *)
OnAnswer(p, answer, when) == IF when = "handing" THEN [p EXCEPT !.remote = answer] ELSE p

Answered(answer) ==
    /\ attempt.at = "prepared" /\ ~lost /\ peer # NoPeer
    /\ peer' = OnAnswer(peer, answer, "handing")
    /\ attempt' = [attempt EXCEPT !.at = "handed", !.peer = [n |-> peer.n, answer |-> answer]]
    /\ UNCHANGED <<fixed, status, closing, lost, epoch, declared, opened, paused,
                   tearing, remembered, call, loops, budget, ghosts>>

(* The engine (external) takes the answer; the promise settles afterwards.  *)
EngineTakesAnswer ==
    /\ attempt.at = "handed" /\ peer.n = attempt.peer.n
    /\ peer' = [peer EXCEPT !.answer = attempt.peer.answer]
    /\ At("taken")
    /\ UNCHANGED <<fixed, core, tearing, remembered, call, loops, budget, ghosts>>

EngineRefusesAnswer ==
    /\ attempt.at = "handed"
    /\ peer' = IF peer.n = attempt.peer.n THEN [peer EXCEPT !.remote = "plain"] ELSE peer
    /\ At("failed")
    /\ UNCHANGED <<fixed, core, tearing, remembered, call, loops, budget, ghosts>>

RemoteDescriptionSet ==
    /\ attempt.at = "taken"
    /\ peer' = IF peer.n = attempt.peer.n
                 THEN OnAnswer(peer, attempt.peer.answer, "applied") ELSE peer
    /\ attempt' = [attempt EXCEPT !.at = "gated", !.peer = NoPeer]
    /\ UNCHANGED <<fixed, core, tearing, remembered, call, loops, budget, ghosts>>

(* The gate is signalled by whoever opens the last channel, unless a        *)
(* teardown dropped it first.                                               *)
GateOpens ==
    /\ attempt.at = "gated" /\ opened /\ ~closing
    /\ At("open")
    /\ UNCHANGED <<fixed, core, tearing, peer, remembered, call, loops, budget, ghosts>>

(* A stepped session fails here unless its data channel is chunked.         *)
GatePassed ==
    /\ attempt.at = "open"
    /\ At(IF stepped /\ ~Chunked THEN "failed" ELSE "ready")
    /\ UNCHANGED <<fixed, core, tearing, peer, remembered, call, loops, budget, ghosts>>

(* A step fails: a request, the readiness timeout, a teardown meanwhile.    *)
AttemptFails ==
    /\ attempt.at \in {"begun", "building", "applied", "prepared", "gated"}
    /\ attempt' = [attempt EXCEPT !.at = "failed", !.peer = NoPeer]
    /\ UNCHANGED <<fixed, core, tearing, peer, remembered, call, loops, budget, ghosts>>

AttemptTearsDown ==
    /\ attempt.at = "failed"
    /\ At("ending")
    /\ tearing' = [tearing EXCEPT !["own"] =
                     [at |-> "asked", keep |-> attempt.kind = "reconnect"]]
    /\ UNCHANGED <<fixed, core, peer, remembered, call, loops, budget, ghosts>>

AttemptEnds ==
    /\ attempt.at = "ending" /\ tearing["own"].at = "none"
    /\ At("idle")
    /\ UNCHANGED <<fixed, core, tearing, peer, remembered, call, loops, budget, ghosts>>

SetReady ==
    /\ attempt.at = "ready"
    /\ status' = "Ready"
    /\ \E from \in {1, Len(RecvNames) + 1} :     \* auto_resume_tracks, or not
          /\ declared \/ from > 1
          /\ attempt' = [attempt EXCEPT !.at = "resuming", !.next = from]
    /\ UNCHANGED <<fixed, closing, lost, epoch, declared, opened, paused,
                   tearing, peer, remembered, call, loops, budget, ghosts>>

(***************************************************************************)
(* Pausing and resuming.  Native code can be preempted between the check,   *)
(* the send and the record; the browser's has no await that suspends, so    *)
(* the three are one step there.                                            *)
(***************************************************************************)
Flips(name, on) ==
    peer' = IF host = "native" \/ IsStepInput(name) THEN peer
              ELSE [peer EXCEPT !.inactive = IF on THEN @ \ {name} ELSE @ \cup {name}]

Records(name, on) == paused' = IF on THEN paused \ {name} ELSE paused \cup {name}

(* A second pause or resume while one is under way: the order in which the  *)
(* two are recorded need not be the one in which the runtime heard them.    *)
Pausing(who) == call[who].op \in {"pause", "resume"}

Speaks(who, name, on) ==
    /\ told' = [told EXCEPT ![name] = IF on THEN "resume" ELSE "pause"]
    /\ crossed' = (crossed \/ \E w \in Callers \ {who} : Pausing(w))

(* The direction is flipped first; a send that then fails leaves it flipped.*)
Directed(name) == IsStepInput(name) \/ HasTransceiver(name)

PauseAsked(who, name, on) ==
    /\ call[who] = NoCall /\ status = "Ready"
    /\ IF host = "native"
         THEN /\ call' = [call EXCEPT ![who] =
                            [op |-> IF on THEN "resume" ELSE "pause",
                             name |-> name, at |-> "asked"]]
              /\ UNCHANGED <<peer, paused, told, crossed>>
         ELSE /\ Directed(name) /\ peer # NoPeer
              /\ Flips(name, on)
              /\ \/ /\ Open("control")
                    /\ Records(name, on) /\ Speaks(who, name, on)
                 \/ MayFail("control") /\ UNCHANGED <<paused, told, crossed>>
              /\ UNCHANGED call

PauseSent(who) ==
    /\ Pausing(who) /\ call[who].at = "asked"
    /\ LET name == call[who].name
           on == call[who].op = "resume"
       IN \/ /\ Directed(name) /\ Open("control")
             /\ Speaks(who, name, on)
             /\ call' = [call EXCEPT ![who].at = "sent"]
          \/ /\ ~Directed(name) \/ MayFail("control")
             /\ call' = [call EXCEPT ![who] = NoCall]
             /\ UNCHANGED <<told, crossed>>
    /\ UNCHANGED <<fixed, core, attempt, tearing, peer, remembered, loops, budget,
                   accepted, raced, claimed>>

PauseRecorded(who) ==
    /\ Pausing(who) /\ call[who].at = "sent"
    /\ Records(call[who].name, call[who].op = "resume")
    /\ call' = [call EXCEPT ![who] = NoCall]
    /\ UNCHANGED <<fixed, status, closing, lost, epoch, declared, opened,
                   attempt, tearing, peer, remembered, loops, budget, ghosts>>

AppAsks(name, on) ==
    /\ ~budget.bounds /\ budget.calls > 0 /\ budget' = [budget EXCEPT !.calls = @ - 1]
    /\ PauseAsked("app", name, on)
    /\ UNCHANGED <<fixed, status, closing, lost, epoch, declared, opened,
                   attempt, tearing, remembered, loops, accepted, raced, claimed>>

PauseTrack(name) == AppAsks(name, FALSE)
ResumeTrack(name) == AppAsks(name, TRUE)

(* auto_resume_recv_tracks(): one receive track after the other; one that   *)
(* cannot be resumed is passed over.                                        *)
Resuming == attempt.at = "resuming" /\ attempt.next <= Len(RecvNames) /\ call["auto"] = NoCall

AutoResume ==
    /\ Resuming
    /\ LET name == RecvNames[attempt.next].name
       IN \/ PauseAsked("auto", name, TRUE)
          \/ /\ status # "Ready" \/ peer = NoPeer
             /\ UNCHANGED <<call, peer, paused, told, crossed>>
    /\ attempt' = [attempt EXCEPT !.next = @ + 1]
    /\ UNCHANGED <<fixed, status, closing, lost, epoch, declared, opened,
                   tearing, remembered, loops, budget, accepted, raced, claimed>>

SpawnsOnce ==                            \* mutant: not after a reconnect
    IF attempt.kind = "connect" THEN [loops EXCEPT ![epoch].at = "spawned"] ELSE loops

(* connect() or reconnect() has returned: the binding spawns the heartbeat. *)
SpawnsHeartbeat == [loops EXCEPT ![epoch].at = "spawned"]

AttemptReturns ==
    /\ attempt.at = "resuming" /\ attempt.next > Len(RecvNames) /\ call["auto"] = NoCall
    /\ attempt' = [attempt EXCEPT !.at = "idle", !.next = 1]
    /\ loops' = SpawnsHeartbeat
    /\ UNCHANGED <<fixed, core, tearing, peer, remembered, call, budget, ghosts>>

(***************************************************************************)
(* Teardown: closing is set, the peer closed, the core's state cleared.     *)
(***************************************************************************)
TeardownAsked(keep) ==
    /\ tearing["other"].at = "none" /\ status # "Disconnected"
    /\ budget.drops > 0 /\ budget' = [budget EXCEPT !.drops = @ - 1]
    /\ tearing' = [tearing EXCEPT !["other"] = [at |-> "asked", keep |-> keep]]
    /\ lost' = (lost \/ keep)
    /\ UNCHANGED <<fixed, status, closing, epoch, declared, opened, paused,
                   attempt, peer, remembered, call, loops, ghosts>>

(* The pending publish is failed with everything else that waits.           *)
FailAll == [call EXCEPT !["app"] = IF @.op = "publish" /\ @.at = "asked" THEN NoCall ELSE @]

TeardownCloses(w) ==
    /\ tearing[w].at = "asked"
    /\ closing' = TRUE
    /\ peer' = NoPeer
    /\ call' = FailAll
    /\ tearing' = [tearing EXCEPT ![w].at = "closed"]
    /\ UNCHANGED <<fixed, status, lost, epoch, declared, opened, paused,
                   attempt, remembered, loops, budget, ghosts>>

ForgetsNoPause == paused' = paused /\ opened' = FALSE   \* mutant

Forgets == paused' = {} /\ opened' = FALSE

TeardownClears(w) ==
    /\ tearing[w].at = "closed"
    /\ Forgets
    /\ status' = "Disconnected"
    /\ declared' = (declared /\ tearing[w].keep)
    /\ tearing' = [tearing EXCEPT ![w].at = "none"]
    /\ crossed' = (peer # NoPeer \/ \E c \in Callers : Pausing(c))
    /\ UNCHANGED <<fixed, closing, lost, epoch, attempt, peer, remembered, call,
                   loops, budget, accepted, raced, told, claimed>>

(***************************************************************************)
(* The engine and the runtime (external): channels, tracks, frames.         *)
(***************************************************************************)

(* onopen: a channel is framed as the negotiation says at that moment; a    *)
(* native engine frames it as the answer it applied says.  Both channels    *)
(* ride one association: they open together here.                           *)
Decide == IF host = "browser" THEN peer.remote ELSE peer.answer

ChannelsOpen ==
    /\ peer # NoPeer /\ peer.answer # "none" /\ peer.framing["data"] = "unopened"
    /\ peer' = [peer EXCEPT !.framing = [c \in Channels |-> Decide]]
    /\ opened' = TRUE
    /\ UNCHANGED <<fixed, status, closing, lost, epoch, declared, paused,
                   attempt, tearing, remembered, call, loops, budget, ghosts>>

(* A text frame or one that breaks the wire format closes a chunked channel *)
(* of the browser's; nothing else is told.                                  *)
BrokenFrame(c) ==
    /\ host = "browser" /\ peer # NoPeer /\ peer.framing[c] = "chunked"
    /\ peer' = [peer EXCEPT !.framing[c] = "closed"]
    /\ UNCHANGED <<fixed, core, attempt, tearing, remembered, call, loops, budget, ghosts>>

(***************************************************************************)
(* Bitrate bounds.                                                         *)
(***************************************************************************)

(* The C ABI keeps the default for -1 and refuses every other negative; the *)
(* browser's binding keeps it for them all.                                 *)
Readable(v) == host = "native" => v >= -1
BoundOf(v) == IF v < 0 THEN Default ELSE v

(* A name the session did not declare is refused, once it has declared any. *)
Known(name) == declared => name \in Names

(* Where a track's bound is applied: the live peer, or 0 for none yet.  The *)
(* native transport takes a name on trust while it has no tracks.           *)
TrackTarget(name) ==
    IF HasTransceiver(name) THEN {peer.n}
      ELSE IF host = "native" /\ (peer = NoPeer \/ peer.tracks = {}) THEN {0} ELSE {}

AsksBound(slot, v, targets) ==
    /\ budget.bounds /\ budget.calls > 0 /\ budget' = [budget EXCEPT !.calls = @ - 1]
    /\ call["app"] = NoCall /\ Readable(v)
    /\ \E target \in targets :
          call' = [call EXCEPT !["app"] = [op |-> "bitrate", at |-> "asked", name |-> slot,
                                           bound |-> BoundOf(v), target |-> target]]
    /\ raced' = [raced EXCEPT !.building = @ \/ attempt.at = "applied"]
    /\ UNCHANGED <<fixed, core, attempt, tearing, peer, remembered, loops,
                   accepted, told, claimed, crossed>>

(* The browser has no connection-wide bound: its transport refuses one.     *)
SetBitrate(v) == host = "native" /\ AsksBound("connection", v, {peer.n})

SetTrackBitrate(name, v) == Known(name) /\ AsksBound(name, v, TrackTarget(name))

CommitFirst(slot, bound, ok) == [remembered EXCEPT ![slot] = bound]   \* mutant

(* Applied first, remembered only if that succeeded.                        *)
Commit(slot, bound, ok) == IF ok THEN [remembered EXCEPT ![slot] = bound] ELSE remembered

BitrateApplied ==
    /\ Bounding /\ call["app"].at = "asked"
    /\ LET c == call["app"]
       IN \/ /\ c.target = 0 \/ c.bound \notin Refused
             /\ call' = [call EXCEPT !["app"].at = "applied"]
             /\ peer' = IF c.target # 0 /\ peer.n = c.target
                          THEN [peer EXCEPT !.bounds[c.name] = c.bound] ELSE peer
             /\ UNCHANGED remembered
          \/ /\ c.target # 0 /\ (c.bound \in Refused \/ peer.n # c.target)
             /\ call' = [call EXCEPT !["app"] = NoCall]
             /\ remembered' = Commit(c.name, c.bound, FALSE)
             /\ UNCHANGED peer
    /\ UNCHANGED <<fixed, core, attempt, tearing, loops, budget, ghosts>>

BitrateRemembered ==
    /\ Bounding /\ call["app"].at = "applied"
    /\ LET c == call["app"]
       IN /\ remembered' = Commit(c.name, c.bound, TRUE)
          /\ accepted' = [accepted EXCEPT ![c.name] = c.bound]
    /\ call' = [call EXCEPT !["app"] = NoCall]
    /\ UNCHANGED <<fixed, core, attempt, tearing, peer, loops, budget,
                   raced, told, claimed, crossed>>

(***************************************************************************)
(* Publishing: the runtime's claim first, then, in a streamed browser       *)
(* session, the media on the sender.                                        *)
(***************************************************************************)
Attaches == host = "browser" /\ ~stepped

Publish(name) ==
    /\ ~budget.bounds /\ budget.calls > 0 /\ budget' = [budget EXCEPT !.calls = @ - 1]
    /\ call["app"] = NoCall /\ status = "Ready" /\ Open("control")
    /\ call' = [call EXCEPT !["app"] = [op |-> "publish", at |-> "asked", name |-> name,
                                        n |-> peer.n]]
    /\ UNCHANGED <<fixed, core, attempt, tearing, peer, remembered, loops, ghosts>>

(* The runtime accepts; the continuation starts replaceTrack on the peer of *)
(* that moment and awaits it.                                               *)
Attach(name) ==
    IF Attaches /\ HasTransceiver(name)
      THEN [op |-> "publish", at |-> "attaching", name |-> name, n |-> peer.n]
      ELSE NoCall

PublishAccepted ==
    /\ call["app"].op = "publish" /\ call["app"].at = "asked"
    /\ peer.n = call["app"].n
    /\ claimed' = claimed \cup {call["app"].name}
    /\ call' = [call EXCEPT !["app"] = Attach(@.name)]
    /\ UNCHANGED <<fixed, core, attempt, tearing, peer, remembered, loops, budget,
                   accepted, raced, told, crossed>>

(* Refused or timed out: nothing is attached.                               *)
PublishFails ==
    /\ call["app"].op = "publish" /\ call["app"].at = "asked"
    /\ call' = [call EXCEPT !["app"] = NoCall]
    /\ UNCHANGED <<fixed, core, attempt, tearing, peer, remembered, loops, budget, ghosts>>

(* replaceTrack settles on the sender it was called on, or rejects.         *)
SenderReplaced ==
    /\ call["app"].op \in {"publish", "unpublish"} /\ call["app"].at = "attaching"
    /\ \/ /\ peer.n = call["app"].n
          /\ peer' = [peer EXCEPT !.sender =
                        IF call["app"].op = "publish" THEN @ \cup {call["app"].name}
                          ELSE @ \ {call["app"].name}]
       \/ UNCHANGED peer
    /\ call' = [call EXCEPT !["app"] = NoCall]
    /\ UNCHANGED <<fixed, core, attempt, tearing, remembered, loops, budget, ghosts>>

Unpublish(name) ==
    /\ ~budget.bounds /\ budget.calls > 0 /\ budget' = [budget EXCEPT !.calls = @ - 1]
    /\ call["app"] = NoCall /\ status = "Ready" /\ Open("control")
    /\ call' = [call EXCEPT !["app"] =
                  IF Attach(name) = NoCall THEN NoCall
                    ELSE [Attach(name) EXCEPT !.op = "unpublish"]]
    /\ UNCHANGED <<fixed, core, attempt, tearing, peer, remembered, loops, ghosts>>

(***************************************************************************)
(* The heartbeat.                                                          *)
(***************************************************************************)
LoopStarts(k) ==
    /\ loops[k].at = "spawned"
    /\ loops' = [loops EXCEPT ![k] = [at |-> "awake", epoch |-> epoch]]
    /\ UNCHANGED <<fixed, core, attempt, tearing, peer, remembered, call, budget, ghosts>>

(* It ends with its connection; otherwise it pings, then sleeps.  A ping    *)
(* that finds the channel gone is logged.                                  *)
Beats(k) == loops[k].epoch = epoch /\ ~closing /\ status = "Ready"

LoopPings(k) ==
    /\ loops[k].at = "awake"
    /\ loops' = [loops EXCEPT ![k].at =
                   IF Beats(k) THEN "pinged" ELSE "off"]
    /\ UNCHANGED <<fixed, core, attempt, tearing, peer, remembered, call, budget, ghosts>>

LoopWakes(k) ==
    /\ loops[k].at = "pinged"
    /\ loops' = [loops EXCEPT ![k].at = "awake"]
    /\ UNCHANGED <<fixed, core, attempt, tearing, peer, remembered, call, budget, ghosts>>

(***************************************************************************)
(* The specification.                                                      *)
(***************************************************************************)
AttemptStep ==
    \/ Recycled \/ NoSessionLeft \/ SessionReady \/ ApplyBitrate \/ Prepared
    \/ RemoteDescriptionSet \/ GateOpens \/ GatePassed \/ SetReady \/ AutoResume
    \/ AttemptReturns \/ AttemptFails \/ AttemptTearsDown \/ AttemptEnds

CallStep ==
    \/ \E who \in Callers : PauseSent(who) \/ PauseRecorded(who)
    \/ BitrateApplied \/ BitrateRemembered
    \/ PublishFails \/ SenderReplaced

LoopStep(k) == LoopStarts(k) \/ LoopPings(k) \/ LoopWakes(k)
TeardownStep(w) == TeardownCloses(w) \/ TeardownClears(w)

Next ==
    \/ Connect \/ Reconnect \/ AttemptStep
    \/ \E answer \in {"plain", "chunked"} : Answered(answer)
    \/ EngineTakesAnswer \/ EngineRefusesAnswer
    \/ \E keep \in BOOLEAN : TeardownAsked(keep)
    \/ \E w \in {"own", "other"} : TeardownStep(w)
    \/ ChannelsOpen \/ \E c \in Channels : BrokenFrame(c)
    \/ \E name \in PauseNames : PauseTrack(name) \/ ResumeTrack(name)
    \/ \E v \in Asked : SetBitrate(v) \/ \E name \in BitrateNames : SetTrackBitrate(name, v)
    \/ \E name \in PublishNames : Publish(name) \/ Unpublish(name)
    \/ CallStep \/ PublishAccepted
    \/ \E k \in 1..MaxConnects : LoopStep(k)

(* Tasks are run; what the engine, the runtime and the application do is up *)
(* to them.                                                                 *)
Fairness ==
    /\ WF_vars(AttemptStep) /\ WF_vars(CallStep)
    /\ \A w \in {"own", "other"} : WF_vars(TeardownStep(w))
    /\ \A k \in 1..MaxConnects : WF_vars(LoopStep(k))

Spec == Init /\ [][Next]_vars /\ Fairness

(***************************************************************************)
(* Properties.                                                             *)
(***************************************************************************)

(* A peer runs on the bounds of the last bitrate call that was answered     *)
(* with success, on every connection made after it: prepare() reapplies     *)
(* what set_bitrate() and set_track_bitrate() remembered, and a call that   *)
(* was refused is never replayed over bounds that worked.  A call that      *)
(* overlaps prepare() is outside the claim: the new peer may have been      *)
(* built from what was remembered before it (`raced`, of the live peer and  *)
(* of the one being built).                                                 *)
BoundsSurvive ==
    peer # NoPeer /\ ~raced.live /\ ~Bounding =>
        \A s \in peer.tracks \cup {"connection"} :
            peer.bounds[s] = Takes(Default, accepted[s])

(* A channel is framed the way the runtime frames it: as the answer that    *)
(* was applied declared (set_remote_description() records it before the     *)
(* channels can open), and a stepped session is never ready on a data       *)
(* channel that is not chunked.                                             *)
FramedAlike ==
    peer # NoPeer =>
        /\ \A c \in Channels : Open(c) => peer.framing[c] = peer.answer
        /\ stepped /\ status = "Ready" => peer.framing["data"] \in {"chunked", "closed"}

(* On a live connection the tracks the client lists as paused are those the *)
(* runtime was last told to pause on that connection, and media is attached *)
(* only to senders whose track the runtime accepted on it: pause_track(),   *)
(* resume_track(), publish_track() and teardown() keep the two in step.     *)
(* Two pauses or resumes under way at once, and one that a teardown         *)
(* overtakes, are outside the claim.                                        *)
RuntimeAgrees ==
    /\ status = "Ready" /\ ~closing /\ ~crossed /\ (\A c \in Callers : ~Pausing(c)) =>
          paused = {x \in Names : told[x] = "pause"}
    /\ peer # NoPeer => peer.sender \subseteq claimed

(* As long as a connection is up and connect() has returned, its runtime    *)
(* keeps hearing from it: run_heartbeat() pings again and again.            *)
Up == status = "Ready" /\ ~closing /\ attempt.at = "idle"

KeptAlive == []<>(~Up \/ \E k \in 1..MaxConnects : loops[k].at = "pinged")
=============================================================================
