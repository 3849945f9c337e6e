# Reactor client SDKs: formal models

TLA+ models of the core of the Reactor client (`crates/reactor-core`), of its
native binding (`crates/reactor-ffi`) and of its browser binding
(`crates/reactor-wasm`), the TLC runs that check them on small
instances, and TLAPS proofs of what holds for every instance. `PROJECT.json` lists
the components, the runs, the mutants, the source lines behind each definition, the
hazards and the theorems. Line numbers below are of `crates/reactor-core/src/reactor.rs`
unless another file is named.

## 1. The system

A host application, in one of six languages, holds a client. The client creates or
adopts a *session* at a coordinator over HTTP, negotiates a WebRTC peer connection
with the machine that runs the session's model, and then exchanges media, commands,
steps and control requests with it.

| Component | State it keeps | Operations | What makes it correct |
|---|---|---|---|
| Lifecycle, `Reactor` | `State` behind one mutex: status, session id and who created it, `closing`, the reason of the last loss, three readiness flags, the ready gate | `connect`, `reconnect`, `disconnect`, the shared `teardown`, the pump's `handle_peer_event` | calls return; an idle client is Disconnected or Ready; Ready means the transport is up; only own sessions are ended, and they are |
| ICE trickling | the candidate buffer, `ice_ready`, `ice_gathering_complete`, `ice_final_sent`, a one-slot wake-up channel | `flush_ice` by the attempt and by `run_ice_flush`, buffering by the pump | nothing stranded, nothing sent twice, own candidates only |
| Correlators, `data.rs`, `control.rs` | maps from request id to a oneshot sender; arrivals of replies | `begin`, `handle_message_at`, `cancel`, `take_arrival`, `fail_all` | every call returns, leaves nothing behind, and is told of its failure once |
| Step inputs, `step/inputs.rs` | frames per track, their order, a byte count, cut streams | `push`, `trim`, `take`, `clear` | the newest frames the budget leaves, under their own tracks; undecodable streams are refused |
| Stage times, `stage_times.rs`, `message_stages.rs` | totals and a generation for frames and for messages | `begin_connection`, `add_from`, `take_from`, `give_back` | each time counted once, in its own connection's window |
| Stats and heartbeat loops | the epoch and generations captured | `run_client_stats`, `run_heartbeat` | they end with their connection, and a connection that is up has its own |
| Stats contents, `stats.rs` | baselines: the earlier reading of each rate and of each batch | `StatsSampler::sample`, `ClientStatsReporter::build` and `commit`, `MessageStageReporter` | a rate is of one connection, a byte is rated once, batches add up over failed sends |
| Steps, `step/`, `step.rs` of both bindings | the steps under way, the frames pushed for the next one, the result a host is reading | `begin_step`, `send_step`, pushes, the result accessors | every step is told what became of it, once; frames ride the step they belong to |
| Tracks and bit rates | publications, pauses, remembered bounds, senders and receivers | `publish_track`, `pause_track`, `set_bitrate`, `set_track_bitrate`, `prepare`, `on_track` | what the core records is what the runtime was told; bounds outlive a connection |
| Coordinator, signaling | none but the cached local session | requests and poll loops | bounded polling, the session that was asked for or, locally, the cached one |
| Recording, auth, uploads, errors | none shared | sequential requests | a clip is whole or absent, credentials go where they belong |
| Host boundary, `reactor-ffi` | `CallbackGate`, the queues of the `HostThread`s, the task set of a handle | callbacks, completions, `reactor_destroy` | no callback after destroy said so; destroy returns; nothing it owns runs on |
| Native peer transport, `reactor-ffi/src/peer.rs` | one peer connection, its channels, remembered bit rates | `prepare`, `set_remote_description`, `close`, sends, pushes | events are queued in order; an old connection is dropped |
| Browser binding, `reactor-wasm` | the same core on one thread, the browser's peer connection | the same, called from JavaScript | the same; channels are framed as the answer declared |
| SDK shells, `sdks/*` | language objects over a handle | wrapping | they rely on the host boundary |

How they interact. The engine's callbacks push `PeerEvent`s into a queue; one pump
task drains it and calls `handle_peer_event`, which sets flags, buffers candidates,
feeds the correlators, or tears down. Host calls run as tasks of their own on a
multi-threaded runtime; the mutex is never held across an await, so every await is a
point where another task can change the state a call has read. The binding adds OS
threads: events and completions are queued to a control thread, frames to a video and
an audio thread, and each passes the gate before it calls a host pointer.

What is hard about it, and hard to test:

* two lifecycle calls, or a call and the pump's own teardown, interleaved at awaits;
* events of a peer connection that is gone, handled for the one that replaced it;
* readiness that is complete before anybody waits for it, a wake-up slot that is full;
* a reply that meets its request's timeout, its dropped future or a teardown;
* a destroy from inside the callback it should wait for, or two such at once;
* a loop of one connection that wakes up in the next;
* a counter that is read in one connection and subtracted in another;
* bounds, pauses and frames given to one connection and due, or not due, in the next;
* a download, an upload or a poll that goes on while the session changes under it.

`PROJECT.json` lists each of these at its line under `hazards`, with the properties
that would catch it going wrong.

## 2. The modules

| Module | Models | Extended by |
|---|---|---|
| `ReactorLifecycle` | the lifecycle of one client, its tasks, the pump, a sketch of engine and coordinator | `MCReactorLifecycle`, `ReactorLifecycleProofs` |
| `ConnectionStatus` | the abstract specification: the status diagram of `state.rs` | instantiated by `ReactorLifecycle` |
| `IceTrickle` | candidates from the engine to the coordinator | `IceTrickleProofs` |
| `Correlation` | both correlators and the calls that wait on them | `CallProofs` |
| `StepInputs` | the buffer of pushed frames | `StepExchange`, `StepExchangeProofs` |
| `StepExchange` | a stepped session: pushes, steps, results, on both hosts, over the buffer | `MCStepExchange`, `StepExchangeProofs` |
| `ClientStats` | the stats loop and the windows of stage times | `ClientStatsProofs` |
| `Metering` | what the samplers and reporters make of the engine's counters | `MCMetering`, `MeteringProofs` |
| `Requests` | everything asked over HTTP: session, polls, token, upload, clip, download | `MCRequests`, `RequestsProofs` |
| `MediaTracks` | tracks, bit rates, pauses, framing and the heartbeat across connections | `MCMediaTracks`, `MediaTracksProofs` |
| `HostBoundary` | gate, threads, task set and destroy of several clients | `MCHostBoundary`, `CallProofs` |

Each component module has its state as variables, one action per critical section,
poll or handler, its fairness, and its properties at the end. The definitions marked
*Mutant* are plausible bugs; nothing uses them, and `PROJECT.json` names the
definition each would replace and the property that then fails.

### ReactorLifecycle

One action is one acquisition of the state's lock together with the await before it;
`pc` labels are the points between. A call is a path through `pc`: `connect` goes
`create`, `store`, `waiting`, `prepare`, (`poll` with preset tracks,) `gate`, `answer`,
`remote`, `await`, `ready`; every failure leads to `teardown`, `close`, `terminate`,
`clear`, `settle`. `op` remembers the call, which fixes whether its teardown is
`recoverable`; `reconnect()` of a Ready client is `cycle` until its teardown is over.
The ready gate, a oneshot, is `gate` (whose sender is installed) with `rx` (what the
receiver will see). A teardown that races an attempt, two attempts at once and an
attempt over a lost connection are all interleavings of these.

The engine is the number of the peer connection it holds, the channels really open
and the queue of events, each tagged with the connection it is about; the code's
handlers cannot see the tag and neither can the actions, only the properties. The
coordinator is the sessions made and those asked to end. Any request may fail.

`env` says what the environment grants. With `"prompt"`, an event is handled before
the next one is emitted, before the host calls again, before a gate times out and
before a call closes the peer connection, so no event outlives its connection. With
`"undisturbed"`, a connection is not lost while a call is running. The code guarantees
neither. Properties that need one say so in their first conjunct; the same run checks
all three environments.

Left out: payloads and capabilities, ICE (its own module), published events and
`last_error`, the auto-resume requests, the connection id a host may pass.

### IceTrickle

A candidate is the peer connection that found it and a number. The buffer, the three
flags and the wake-up are as in the code; a POST is outstanding between the flush that
took its batch and its answer, and arrives, or is lost, with the answer. One `connect()`
or `reconnect()` runs at a time; teardowns run in it, or in another task at any point.
Session and connection ids are the number of the attempt that stored them last.

`flush_ice_current_session()` (2320) reads the session id in one lock acquisition, makes
the URL, and takes the buffer in a later one, so the loop's pass is two actions with the
id it read in `url`. Two things follow that the code does and the properties name. A pass
that finds no session returns early with its wake-up consumed: where a `disconnect()` took
the id from under an attempt that goes on, what was buffered stays, and `NothingStranded`
speaks of the time when there is a session id. And natively the loop can be preempted
between its two locks while a teardown and a new `connect()` pass: it then takes the new
peer's candidates and posts them under the old session. `"prompt"` excludes that
(`Unbroken`; in the browser there is no await there and it cannot happen), as it excludes
events that outlive their connection and a foreign teardown half done as an attempt
succeeds. `NothingStranded`, `EverythingGoesOut` and that nothing is posted twice need none
of this.

### Correlation

A request is its id; ids come from a counter and are not reused. `pending` is both
maps, `slot` the oneshots, `receivers` those still alive. `handle_message_at()` holds
the map's lock throughout, so `Reply` is one action; `fail_all()` takes the map under
the lock and rejects one request after the other, so it is several. A future may be
dropped while it waits; only a command has a guard that then cancels it.

A send that fails is returned to its caller and, unless the message was too large, also
published as an error event (1159-1181), as the code has it; that is a report of the send,
not of a reply. `ReportedOnce` is about error replies: each is given to its call or
published, never both, for dropped and timed-out calls and after a teardown too. Two
replies reach nobody in the code and are named in it: one that was given to a call whose
future was dropped before it looked, and one that came between a call's end and its
`cancel()`, or to a dropped step, which has no guard.

### StepInputs and StepExchange

A frame is the number of its push since the buffer was emptied. `Trim` is the loop of
`Buffered::trim`, one `PushOut` per turn. A frame's encoded size is part of it,
and what a track's entry costs is a constant: what matters is that a frame costs
something and that `bytes` is a running total.

`StepExchange` extends the buffer by everything around it. An input is what the host
passes, and both boundaries convert it: `NativeVideo` computes the length it was not
given in u32, the browser reads a typed array and its layout. A native push is two
steps, its check and its landing in the buffer, and in the browser one. A step is
begun on the caller's thread, which takes the frames, and sent by a task of its own;
it ends by a reply, its timeout, a rejection by a teardown or a failed check. A result
is decoded track by track, and `Read` is what the host then reads of it: through the C
accessors, which drop the NULs of texts, or as JavaScript values, where an integer of 64
bits becomes the nearest double (`AsF64`; `Exact` stands for 2^53). A failed outcome has
the code the host sees, and an `Error` reply's own code is handed on as it came. A
teardown, which may begin in any status, fails what waits, closes the peer, clears the session and only then changes the status. `torn`
marks a push that passed its check before a teardown and landed after it. The error
event published when the last step's send fails is left out.

### ClientStats

Items are frames and commands whose timing starts on one thread and ends on another.
A reporter is the `run_client_stats()` of one connection, first polled at any time
after it was spawned: the epoch and both generations are captured then, one after the
other. Sums per stage are abstracted to the set of items in them.

### Metering

The engine counts per stream since its connection came up; a reading is a copy of the
counters with the time and the connection's number, which stands for the SSRCs the
code compares. `Sample` is `StatsSampler::sample()` with its least window, `SendBatch` and
`Commit` are the send, which may fail, and what is remembered once it did not. The native peer's part is
the reading itself: the channel's totals first, the engine's report later, zeros that
mean "not measured", and timing frames with a stamp missing. A page replaces all this
and hands its readings to `sendClientStats()`. Of the metrics of a batch, those that
tell whether something was measured are kept; the rest are fields copied one to one.

### Requests

A server answers each request with any status and header it may, or the request is
lost. A wait is counted in units of 200 ms; `Backoff` is the delay that the two polls
double up to their maximum. The client makes one lifecycle call at a time, in cloud or
local mode: it creates or joins a session, loses its connection, reconnects, disconnects,
or fails. A teardown that gives the session up ends it if this client created it, and
locally clears the cache; a recoverable one, after a loss or of a `reconnect()`, keeps the
session, who created it, and the cache. `known` is history: the sessions this client
created or asked for and has not ended. One other call runs beside it: a token, an upload,
a clip, a download. A clip that waits is refused by a teardown's `fail_all()` with the
code DISCONNECTED. A playlist is a sequence of lines, each with a kind, an origin and
whether it needs the init segment. Which request carries the token is computed per URL,
as in `recording.rs`. A hint of `Retry-After` beyond `MaxDuration` ends the download's
task as the code's conversion does, and the call is then `"panicked"`: the file it had
created, empty still, stays, and `WholeClipOrNone` does not speak of it.

### MediaTracks

The core's state is kept to what tracks observe of the lifecycle: one attempt at a
time, its own teardown and one other, both channels opening together. The transport
is the native one or the browser's, and `host` decides which: natively a call is
preempted between its send and its record, in the browser only at an await. A peer is
built by `prepare` from the tracks declared and from `remembered`, the bounds that
were accepted. `loops` are the heartbeats, each by the connection that spawned it, with
the epoch it read when it was first polled. `told` and `claimed` are what the runtime
heard of pauses and publications; `crossed` and `raced` mark the overlaps for which
the code gives no order.

### HostBoundary

Threads are the workers `<<client, kind>>` and application threads; host code runs on
the latter and inside callbacks, and may destroy any live client from either. A
control job passes the gate twice, as in the code (the worker's guard and the guard
around the pointer), so guards are counted. `connect()` stands for every operation:
a task that awaits, then spawns two loops, then queues its completion. Which kinds of
worker a client has is a function of the client. A queue is a count, and its overflow
is not told apart. Spurious wake-ups are left out.

## 3. The runs

| Run | Instance | Distinct states | What it shows |
|---|---|---|---|
| `lifecycle_overlapping` | two host tasks, two calls, one loss, no grants | 1.17 M | whatever interleaves: an idle client is Disconnected or Ready, adopted sessions are never ended, no readiness is lost |
| `lifecycle_sequential` | one task, three calls, one loss, preset tracks, stepped; three environments | 345 k | a host that awaits its calls: disconnect is final, sessions are ended before they are forgotten, every call returns; with grants, losses are blamed on their own peer, are noticed, Ready means up, and the status follows the diagram |
| `ready_after_loss` | one call, one loss, prompt | violation | finding 1 |
| `disconnect_over_connect` | two tasks, two calls, quiet | violation | finding 2 |
| `ice_trickle` | two attempts, one candidate each and the end of gathering, teardowns anywhere, both environments | 1.34 M | nothing stranded, all goes out; no candidate sent twice and, with a pump that keeps up, own candidates only and one end of gathering (`ToldOnceToTheRight`) |
| `correlation` | a command and a step, two teardowns | 255 k | nothing left over, no failure told twice and every failure told, with two named exceptions (`ReportedOnce`), calls return |
| `steps` | a video and an audio track, two budgets, native and browser, stepped and streamed, seven kinds of reply | 576 k | the buffer holds the newest frames, within the budget and none pushed out needlessly, or refuses a cut stream; frames ride once and in their session, a caller is told what became of its step, steps end |
| `client_stats` | a frame, a command, two connections | 73 k | counted once and not lost (`Accounted`), in their own window; reporters end |
| `metering` | three streams, two connections, three events each, one `get_stats()` caller, the loop, or a page | 3.07 M | rates are of one connection and cover no byte twice, batches add up to what happened, no batch carries what the wire refuses |
| `calls` | two sessions, polls of two attempts, four playlists, three hints | 488 k | a clip is whole or absent, the API key goes to the token endpoint and the token to the coordinator and the playlist's origin only, a connection is to the session asked for or a cached local one that this client created or asked for and has not ended, waits end |
| `media` | an input and an output, two connections, two calls or one call and a drop | 731 k | bounds survive, channels are framed alike, the runtime agrees on pauses and publications, connections are kept alive |
| `destroy` | a client with a video thread, one with a control thread and a connect, one app thread | 92 k | Complete means quiet, no lost wake-up, no thread outlives a destroy that said so, destroys return and abandoned threads end |

Bounds and why they suffice. The lifecycle's interesting cases need two actors on one
`State`; two calls and the pump give three, and three sequential calls are enough for
connect, loss, reconnect, disconnect in any order. A second loss only repeats the
first with a later peer number. `MaxQueue` 2 holds an old connection's event behind
another one. In `IceTrickle` a candidate and the end of gathering are two things to tell,
the least for which one is taken while another comes; two attempts are the least for which
one's candidates meet the other's flush. The proof is for any number of both. `Correlation`'s requests touch each other only through `fail_all()`, so one of
each guarded and unguarded kind and a second teardown reach what there is; the proof
covers control requests and any number. In `StepExchange` `MaxWork` is shared by pushes
and steps, a step weighing two: five pushes, or three and a step, or two steps and a
push, which is enough for a track to be cut, go, and come back, and for a frame to
meet a step that fails. `Word` is 64 so that one small frame's length wraps to zero, and `Exact` 4 so that a step's
number, a file's size and a frame's time lie on both sides of it; the budget is `Default`
while there is no connection and any of `Budgets` with one.
`Metering` needs two layers of one track for a sum over streams, a third stream of the
other direction, and three events so that a failed batch lies between two others. In
`Requests` two attempts reach both the doubled delay and the last attempt; the hints
are none, zero, and one longer than every budget and than `MaxDuration`. `MediaTracks`
needs two connections for anything to be carried over, and an input declared before
the output; bounding and pausing share no state, so an
application of the run does one or the other.
`ClientStats` needs one item per window and one connection change. `HostBoundary`
needs two clients for a mutual destroy, and a media and a control thread, whose
callbacks pass the gate once and twice. `MaxPending` 1 stands for the unbounded control queue: a job
in the queue and one under way.

Deadlock is not checked where the system may stop: a host that makes no further call
leaves nothing to do. `steps` can always clear its buffer and is checked.

Fairness. Weak fairness of what the runtime polls: a task that can make a step makes
it, requests end and timers fire. The poll loops are bounded (`PollConfig`) and every
wait in a call has a timer or a teardown that ends it, which is what `CallsReturn`,
`StepsEnd` and `WaitsEnd` check. That a single HTTP request ends, answered or failed,
is an assumption: `ReqwestHttpClient` sets no timeout of its own and leaves it to the
operating system's. The host owes no call and no return from a callback: of
`DestroyEnds`, that a destroy returns does without, and that abandoned threads end
takes the callbacks' return as its antecedent. The engine owes no event, the runtime
no reply, and an application of `MediaTracks` no call.

Refinement. `FollowsDiagram` states that `ReactorLifecycle` implements
`ConnectionStatus`, with the status mapped to itself where it is quiet. Elsewhere it
does not: a status may go from Disconnected to Ready, which is finding 1.

## 4. Proofs

TLAPS checks the following for every set of host tasks, requests, clients, threads,
items, tracks, streams, playlists, pushes and replies, and for every bound. Every
safety property of the runs is a theorem here but the two that the code violates.

| Module | Theorems | Inductive invariant |
|---|---|---|
| `ReactorLifecycleProofs` | `TypeCorrect`, `Settled`, `AdoptedSurvives`, `NoReadinessLost`, `GateOwned` | `TypeOK` with `SomeoneWillSettle` (a status in between has a task on its way to the writes that end it), `OwnershipInv` (a task about to send the DELETE read the id of a session this client made), `GateInv` (an installed gate is armed, incomplete and its owner's) |
| the same, for one caller | `DisconnectFinal`, `ForgetsEnded`, `BlameIsOwn`, `ReadyIsUp`, `DiagramFollowed` | `PumpOnlyDrops`, `DisconnectEnds` and `TeardownKnows` (what a teardown read of the session is still so when it clears it); `NothingLeftOver` and `OwnReason` (what may be blamed is the attempt's own, from the engine's queue to the record); `QuietInv` and `StatusFollows` (the status is what the point an attempt has reached says) |
| `CallProofs`, of `HostBoundary` | `HostTypeCorrect`, `CompleteIsQuiet`, `WakeupsAreNotLost`, `NoThreadIsLeft` | `Guarded` (guards held exactly past the gate), `Retiring` (who destroys has closed the gate), `Quiet` (Complete: closed, and no guard held), `Sole` (one thread destroys a client, once) |
| `IceTrickleProofs` | `CandidatesAreNotStranded`, `ToldOnce` | `NothingStranded` with the tasks' labels; `AllOld` and `Apart` (a candidate was found and is in one place: queue, buffer, flusher or coordinator), `Current` and `Ends` (of an attempt, the end of gathering is to come, queued, flagged, with a flusher or told: one of these) |
| `CallProofs`, of `Correlation` | `TypeCorrect`, `NothingIsLeftOver`, `ReportedExactlyOnce` | `Receiving`, `Arriving`, `Resolving`, `Leaving`, `Reporting`: when a receiver lives, whose arrival is kept, that a request leaves the map before its oneshot is used; `Resulting` and `Told`: an error reply is in the oneshot its call will read, or in an event |
| `ClientStatsProofs` | `TypeCorrect`, `AccountsForAll`, `WindowsAreOwn` | `Numbered` (windows in step with the epoch), `Unspawned`, `Carried` (what a reporter holds, by its place in the loop and its generation), `Once` (an item is in one place) |
| `RequestsProofs` | `AskedAnswered`, `WholeClip`, `CredentialsAtHome` | `AskedInv` (what the local cache can hold, by who created it and what is `known`), `DownloadInv` (what is written and what is still to fetch are together the playlist's segments), `CallInv` |
| `MediaTracksProofs` | `FramesAgree`, `ClientAndRuntimeAgree`, `BoundsKept` | `ShapeInv` and `StageInv` (which peer there is, by the place of the attempt), `FrameInv` (what is recorded of an answer before it is applied), `CallInv`, `PauseInv` (the two lists differ by the one track whose call is between send and record), `PublishInv`, `BoundInv` (what is remembered is what was accepted, and a peer has it but for the slot of a call under way) |
| `MeteringProofs` | `WireIsAllowed`, `NoByteRatedTwice`, `BatchesSumUp` | `ReadInv` (readings are reports); `SamplerInv` and `SoleInv` (what was rated is at most what the baseline, the reading held and the pair carry); `HeldInv` (baselines, readings in flight and the engine are in this order), `TotalInv` and `StreamInv` (what was batched is what lies between the first baseline and the last) |
| `StepExchangeProofs` | `TakesTheNewest`, `RidesOnce`, `TellsWhatBecame` | `BufferInv`, of the buffer against the frames pushed: `Ordered`, `Placed`, `Single`, `Priced`, `CutRight`, together `Sound`, and `Needed` (frames were lost only when all did not fit some budget); `LogInv`, `LandingInv`, `SessionInv` (a frame of a session gone was under way as it ended); `StepRight` (what is so of a step in each phase: what it carries, what the runtime knows of it, what it may be told) |

The properties are not inductive by themselves. `SettledWhenIdle` speaks of a moment
when all are idle and says nothing of the step before; `CompleteMeansQuiet` follows
only once the count of guards is tied to where the worker is; `Accounted` needs that
an item cannot be in a window and in a reporter's hand at once; `BatchesAddUp` needs
that no reading in flight is behind the baseline it will be subtracted from, which
holds because a teardown drops the reading with the connection; `TakesNewestOrRefuses`
needs to know of every track, and not only of those that are refused, which of its
encoded frames are gone since it came into the buffer. Each proof has one
lemma per part of the invariant, one step per action, and a last step that combines
them; parts that were in doubt were checked with TLC on small instances first.

The theorems of the lifecycle for one caller have `OneCaller` as their hypothesis: the
host awaits each call before it makes the next, while drops, late events and the pump's
own teardown still interleave with it. Without it `DisconnectIsFinal` is false, which is
what `disconnect_over_connect` shows. `DiagramFollowed` is the refinement of
`ConnectionStatus`, initial states and steps; that specification has no fairness.

Some theorems are about what a loop computes: `parse_playlist()`, `Buffered::trim` and the
cost of a message. All are recursive functions
in the models. That the recursion defines what it says is proved by induction over a
*set* of naturals, from the library's theorem that they are well founded (`Induction` in
each module), since the library's own schemes take an operator that the provers cannot
instantiate. For `trim`, `Recursion` shows that a function defined turn by turn exists;
`PushOutSound` is one turn, and the induction over the turns carries `Sound` and `Needed`
through the loop: the one frame that is never pushed out is the newest. For what a host
reads, `NativeWhole` and `BrowserWhole` go through the result file by file, track by track
and frame by frame; that the browser's typed arrays, put end to end, are the frame's bytes
rests on the decoder having checked the length against the shape, a product over a
sequence of any length that the dtype's size divides.

`HostBoundary` and `Correlation` share their proof module, since both are about the end of
a call and neither proof is long. It extends both, which is why the names they would
share are prefixed in `HostBoundary` (`HostInit`, `HostNext`, `HostSpec`).

The assumptions are the named `ASSUME`s of the modules, which TLC evaluates in the
runs: tasks, kinds and threads are distinct, callers are finitely many, bounds are
natural numbers; playlists are sequences of lines, a token is there or not; a
declaration is a sequence of tracks of which none is called `connection`, the name the
model gives to the bounds of the whole connection; streams have the fields the engine
lists; pushes, steps and replies have the fields of their types, and no pointer to a result
or a part of it is null (`NullAssumption`). `RanAssumption` is the one about another
program: that the runtime's failure codes mean what `step/mod.rs:13-20` says of them, a
refused step did not run and a failed one did, is the runtime's part, and what
`OutcomeTold` says of a refused step cannot be had without it. What `HostBoundary`
assumes of its constants is not used by its proofs.

Two proof attempts failed for a good reason and corrected their models. `BoundsKept`
showed that the mark for a bitrate call overlapping `prepare()` has to be kept apart
for the live peer and for the one being built. `WireIsAllowed` did not go through while
`Metering` took a stream's kind from the engine: `track_stat()` takes it from the track
that `resolve()` found (`stats.rs:928-958`), and so does the model now.

Only model-checked: everything about liveness (`CallsReturn`, `DropIsNoticed`,
`EverythingGoesOut`, `ReportersEnd`, `DestroyEnds`, `StepsEnd`, `WaitsEnd`, `KeptAlive`),
which is out of the prover's reach. No safety property is.

## 5. Findings

Two runs show the code doing what its own comments exclude.

1. **Ready after a loss** (`ready_after_loss`, line 536). The gate opens; before the
   attempt goes on, the connection is lost and the pump tears everything down;
   `set_status(Ready)` then overwrites Disconnected. `state.rs:23` says of Ready
   "Transport is up".
2. **disconnect over connect** (`disconnect_over_connect`, line 457). While
   `create_session()` is in flight, `disconnect()` finds no session; `connect()` then
   stores the new one and goes on. Line 612 says that `disconnect()` terminates the
   session.

Seen while modelling, without a run of its own. Where a property would fail for one of
these, its comment names the exception.

*Lifecycle, loops and the boundary*

* Aborting a task does not stop it inside a poll, so a `connect()` that resolves while
  destroy drains the task set (`reactor-ffi/src/lib.rs:1353`) spawns its loops into the
  drained set; `lib.rs:342` says "Spawn a task the handle will stop on destroy."
* `set_status()` (2366) publishes after releasing the lock, so two changes can be
  published in the other order.
* `connect()` (406) does not reset the readiness flags as `reconnect()` does, so late
  events of an old peer connection count for the new one.
* A late loss of the old connection, handled after `reconnect()` reset the reason, is
  blamed on the new attempt (905), against the comment at 190-194.
* Two concurrent `reconnect()` calls both pass (562): there is no guard as in `connect()`.
* The comment on `reactor_disconnect` (`lib.rs:1449`) says the session is preserved;
  it calls `disconnect(false)`, which ends it, as the comment on `reactor_reconnect` says.
* A completion pending at destroy is dropped, while `lib.rs:1408` says it is invoked
  exactly once.
* `flush_ice_current_session()` reads the session and takes the buffer under two locks
  (2320): a wake-up is lost where the session was just cleared, and natively candidates can
  be posted under the session before (see `IceTrickle`).
* The attempt's first flush and the loop's run side by side, so a final batch can
  overtake an earlier one (689), against `reactor-protocol/src/webrtc.rs:83`.
* An error reply between a command's timer and its `cancel()` (1193) counts as
  correlated and is given to nobody.
* The arrival of an `Error` sent to a step is noted (`data.rs`) and never taken.
* The loops capture their epoch at their first poll (2122, 2175), not "at spawn time"
  (197): started late, they serve the next connection.
* A reporter checks that it is current, then takes its window and sends (2207-2247); a
  `reconnect()` in between lets the old batch go out on the new connection if its
  control channel is open by then.
* Arguments that `reactor_send_command` cannot parse (`lib.rs:1816`) complete inline, past
  the gate and with a plain string, while `reactor_ffi.h:172-177` describes JSON. An
  asynchronous operation with a null handle, or an upload of null data, never completes.

*Requests*

* `recording.rs:247`: `Duration::from_secs_f64` panics on a finite `Retry-After` beyond a
  Duration's range; the download's completion then never fires, although
  `reactor_ffi.h:962` says exactly once.
* `coordinator.rs:243`: in local mode a poll answers with the cached session whatever id
  is asked for, against the comment at 197-200. Create A, lose the connection, `connect()`
  to B: the recoverable teardown kept A in the cache, and the client goes on with A while
  `State` says B. The first half of `AnswersTheAsked` without its second is false so.
* A download that panics on such a hint leaves the empty file it had created.
* `upload_file()` (2093) announces the upload to whichever session is Ready by then.
* Any path segment that contains `://` is taken for an absolute URL by `join_url`.

*Statistics*

* Two `get_stats()` calls at once can rate the same bytes twice.
* `timing_frame` (`reactor-ffi/src/peer.rs:1079`): a missing encode-start stamp equals the
  capture time and gives a wait of 0, while the comment says that it gives -1.
* A page's metrics are not filtered for NaN as they are natively, and one unknown codec
  refuses a page's whole batch.

*Steps*

* Two `reactor_step` calls are two tasks: they can be sent in the other order, or on a
  later connection. A step sent between `fail_all()` and `close()` of a teardown ends only
  by its timeout.
* After a loss that could be recovered, `connect()` to a new session does not clear the
  buffer; natively, neither is a push caught by the clear that lands after it (806).
* A teardown between the gate and the chunking check (718-738) reports that chunking is
  required.
* The bindings differ: native steps refuse unknown keys and empty names and the browser
  does not; the browser refuses raw frames of 0 by 0 and the core does not; the length
  of a native frame is u32 arithmetic and wraps.

*Tracks*

* A pause is recorded after it was sent (1815-1833), so two of them, or one and the
  auto-resume, can be recorded in the other order; in the browser a pause whose send
  fails has changed the receiver's direction already.
* A bit rate set while `prepare()` runs may miss the new connection.
* Natively a received track is named by the order of its arrival (`peer.rs:608`): an m-line
  that the answer rejects shifts the names of those after it. The browser goes by mid.
* A broken frame closes the browser's data channel, no handler is told, and the client
  stays Ready.
* `run_heartbeat` reads its epoch when it starts, so two loops can serve one connection.
* Any negative bit rate is the default in the browser; the C ABI takes only -1.

## 6. Not modelled, and the plan

Not modelled: libwebrtc and codecs; the names under which received tracks are announced,
which depend on the m-lines the engine announces; error codes and wording, except where a
property tells outcomes apart; a frame pushed to a live sender and `AudioInput`'s
blocks of ten milliseconds; the coordinator and the runtime beyond what the client
sees of them; JSON and protobuf conversions, except where a property is about one;
events as listeners see them and `last_error`; the cache of `max_message_bytes`; preset
tracks outside the lifecycle; a heartbeat interval of zero, which starts no loop; the
browser constructor's options, its token callback and `free()`; the plain accessors of
the C ABI; the language SDKs, which are shells over what is modelled.

Next, in order of what it would tell:

1. **Event stream.** Status, error and session events as listeners see them, published
   after the lock is released: which orders are possible, and that the last one
   published agrees with the state where calls do not overlap.
2. **Live media:** `AudioInput`'s blocks and pushes that meet a teardown.

Composition: 1 extends `ReactorLifecycle`'s state and reuses its actions; 2 stands
alone. The abstract specifications worth stating are the status diagram (done), a
multiset of reports for the stage times, and for the event stream the sequence of
statuses itself.
