------------------------------ MODULE Metering ------------------------------
(***************************************************************************)
(* From counters to rates: StatsSampler, which answers get_stats(), and    *)
(* ClientStatsReporter with MessageStageReporter, which fill the batches   *)
(* run_client_stats() sends (core/src/stats.rs, message_stages.rs), from   *)
(* what the native peer makes of the engine's report (ffi/src/peer.rs).  A *)
(* browser has no such loop: its page hands its own readings to            *)
(* sendClientStats() (wasm/src/client.rs).                                 *)
(*                                                                         *)
(* The engine counts since its connection came up.  Everything reported is *)
(* the difference between two readings, so what can go wrong is the choice *)
(* of the earlier one: a reading of another connection, one that was used  *)
(* before, or one of a batch that was never sent.                          *)
(*                                                                         *)
(* A frame is one byte and takes one unit of every stage it goes through.  *)
(* A stream is the SSRC it has in every connection; a reading carries the  *)
(* number of the connection it is of, which the code sees as a different   *)
(* SSRC.  The sampler and the reporter share nothing but the engine, and a *)
(* page replaces both, so a behaviour has one of the three.  `rated`,      *)
(* `batched`, `skipped` and `wire` only record history.                    *)
(***************************************************************************)
EXTENDS Naturals, Integers, Sequences, FiniteSetsExt

CONSTANTS
    Inbound,          \* the receive streams, in the order the engine lists them
    Outbound,         \* the send streams
    Tracks,           \* track_mapping: records of mid, direction and kind
    Callers,          \* tasks that call get_stats()
    PageBatches,      \* what a page passes to sendClientStats()
    MinWindow,        \* MIN_RATE_WINDOW_MS, in ticks of the clock
    MaxName,          \* MAX_NAME_BYTES
    MaxConnections,   \* bound: connections made
    MaxEvents,        \* bound: what the engine counts in one connection
    MaxClock          \* bound: ticks of the clock

ASSUME BoundsAssumption ==
    /\ MinWindow \in Nat \ {0} /\ MaxName \in Nat
    /\ MaxConnections \in Nat /\ MaxEvents \in Nat /\ MaxClock \in Nat
    /\ IsFiniteSet(Callers)

\* A stream as the engine lists it: lost counts may be negative, a name is its length.
Stream == [ssrc : Nat, kind : STRING, mid : STRING, codec : STRING, lost : Int, name : Nat]

ASSUME StreamsAssumption ==
    /\ Inbound \in Seq(Stream) /\ Outbound \in Seq(Stream)
    /\ \A batch \in PageBatches : \A p \in batch : p.name \in Nat

Streams == Inbound \o Outbound
Numbers == DOMAIN Streams
None == [none |-> TRUE]

VARIABLES
    clock,     \* platform.now_ms()
    engine,    \* what the engine has counted in the current connection
    budget,    \* events the engine may still count in this connection
    watched,   \* who reads the engine: get_stats() calls, the stats loop, a page
    up,        \* the status is Ready
    raw,       \* the reading each get_stats() call holds
    previous,  \* StatsSampler: the baseline
    shown,     \* the rate and path the last get_stats() answered with
    chunked,   \* the channel's totals, while the engine's report is awaited
    reading,   \* the reading the reporter holds
    reporter,  \* ClientStatsReporter and MessageStageReporter: their baselines
    rated,     \* bytes of the current connection covered by rates
    batched,   \* what the accepted batches of this connection carried
    wire,      \* the last batch handed to the control channel
    skipped    \* a counter went backwards in this connection

sampler == <<raw, previous, shown, rated>>
batches == <<chunked, reading, reporter, batched, wire>>
vars == <<clock, engine, budget, watched, up, sampler, batches, skipped>>

----------------------------------------------------------------------------
(* The engine: TransportStats, as get_stats() of the peer returns it.      *)

Pair(p, s, b) == [priority |-> p, nominated |-> TRUE, state |-> s, bytes |-> b]

\* The stamps of a timing frame: capture, encoding begun and done, packetized,
\* out of the pacer.  One the sender never took is the capture time.
NoStamps == <<0, 0, 0, 0, 0>>
Stamps == {<<0, 1, 2, 3, 4>>, <<0, 1, 2, 0, 4>>}

\* Until a report of the far end arrives, its readings are zero; so is the round
\* trip of the pair until ICE has measured one.
Fresh(n, p) ==
    [conn |-> n, frames |-> [i \in Numbers |-> 0], known |-> {},
     timing |-> [id |-> 0, stamps |-> NoStamps], far |-> [rtt |-> 0, lost |-> 0, heard |-> FALSE],
     rtt |-> 0, pairs |-> <<Pair(p, "succeeded", 0)>>, sent |-> 0, stall |-> 0]

\* live_pair(): nominated and succeeded; the first such in the report.
LivePair(pairs) == {i \in DOMAIN pairs : pairs[i].nominated /\ pairs[i].state = "succeeded"}

Carries(e) == LET i == Min(LivePair(e.pairs)) IN [e.pairs EXCEPT ![i].bytes = @ + 1]

\* A frame goes through stream i, over the live pair; the first tells its codec.
Frame(i) ==
    /\ up /\ watched # "page" /\ budget > 0
    /\ budget' = budget - 1
    /\ engine' = [engine EXCEPT !.frames[i] = @ + 1, !.known = @ \cup {i},
                                !.pairs = Carries(engine)]
    /\ UNCHANGED <<watched, clock, up, sampler, batches, skipped>>

\* A sampled frame becomes the timing frame the engine repeats until the next.
TimingFrame ==
    /\ up /\ watched = "batches" /\ budget > 0
    /\ budget' = budget - 1
    /\ \E s \in Stamps :
         engine' = [engine EXCEPT !.timing = [id |-> @.id + 1, stamps |-> s]]
    /\ UNCHANGED <<watched, clock, up, sampler, batches, skipped>>

\* A message finishes leaving the chunked channel, or its pump stalls.
Message ==
    /\ up /\ watched = "batches" /\ budget > 0
    /\ budget' = budget - 1
    /\ \/ engine' = [engine EXCEPT !.sent = @ + 1]
       \/ engine' = [engine EXCEPT !.stall = @ + 1]
    /\ UNCHANGED <<watched, clock, up, sampler, batches, skipped>>

\* The far end reports on what it receives, before or after it can tell the round
\* trip; or ICE measures the pair's.
FarReport ==
    /\ up /\ watched = "batches" /\ budget > 0
    /\ budget' = budget - 1
    /\ \/ \E t, l \in 0..1 : engine' = [engine EXCEPT !.far = [rtt |-> t, lost |-> l, heard |-> TRUE]]
       \/ engine.rtt = 0 /\ engine' = [engine EXCEPT !.rtt = 1]
    /\ UNCHANGED <<watched, clock, up, sampler, batches, skipped>>

\* An ICE restart: the old pair fails and stays nominated, listed first.
IceRestart ==
    /\ up /\ watched = "calls" /\ Len(engine.pairs) = 1
    /\ engine' = [engine EXCEPT !.pairs =
                    <<[@[1] EXCEPT !.state = "failed"], Pair(@[1].priority + 1, "succeeded", 0)>>]
    /\ rated' = 0
    /\ UNCHANGED <<budget, watched, clock, up, raw, previous, shown, batches, skipped>>

\* A reset engine: the totals of a stream start again.
Restarted(i) ==
    /\ up /\ watched = "batches" /\ ~skipped /\ engine.frames[i] > 0
    /\ engine' = [engine EXCEPT !.frames[i] = 0]
    /\ skipped' = TRUE
    /\ UNCHANGED <<budget, watched, clock, up, sampler, batches>>

Tick ==
    /\ clock < MaxClock
    /\ clock' = clock + 1
    /\ UNCHANGED <<budget, watched, engine, up, sampler, batches, skipped>>

----------------------------------------------------------------------------
(* get_stats(): StatsSampler.                                              *)

\* The status is checked, and the engine asked; the answer is awaited.
ReadStats(c) ==
    /\ up /\ watched = "calls" /\ raw[c] = None
    /\ raw' = [raw EXCEPT ![c] = engine]
    /\ UNCHANGED <<budget, watched, clock, engine, up, previous, shown, rated, batches, skipped>>

\* The identity of what a reading measured: the pair's priority, and the SSRCs.
Identity(r, i) == <<r.pairs[i].priority, [j \in Numbers |-> <<r.conn, Streams[j].ssrc>>]>>

Baseline(r, i, now) ==
    [at |-> now, bytes |-> r.pairs[i].bytes, of |-> Identity(r, i), conn |-> r.conn]

\* The guard of the match: the baseline is of the same pair and streams.
Comparable(current) == previous # None /\ previous.of = current.of

\* rate_bps(): saturating, over the elapsed window.
RateBps(before, current) ==
    [bits |-> IF current.bytes < before.bytes THEN 0 ELSE 8 * (current.bytes - before.bytes),
     window |-> current.at - before.at, from |-> before.conn, to |-> current.conn]

Measurable(current) == current.at - previous.at >= MinWindow

\* The video stream speaks for the connection; without one, all streams do, each
\* count floored at zero so that one's duplicates do not cancel another's loss.
VideoIn == {i \in 1..Len(Inbound) : Streams[i].kind = "video"}
Judged == IF VideoIn # {} THEN {Min(VideoIn)} ELSE 1..Len(Inbound)
Floored(n) == IF n < 0 THEN 0 ELSE n

Lost(i) == Floored(Streams[i].lost)

\* loss_ratio(): none until a packet is accounted for.
LossRatio(r) ==
    LET lost == MapThenSumSet(Lost, Judged)
        received == MapThenSumSet(LAMBDA i : r.frames[i], Judged)
    IN  IF lost + received = 0 THEN None ELSE [lost |-> lost, of |-> lost + received]

\* What describes the path: read off the live pair, except how far ICE got.
PathOf(r) ==
    LET live == LivePair(r.pairs)
        best == CHOOSE i \in DOMAIN r.pairs :
                  \A j \in DOMAIN r.pairs : r.pairs[j].priority <= r.pairs[i].priority
    IN  IF live # {} THEN r.pairs[Min(live)] ELSE [r.pairs[best] EXCEPT !.bytes = 0]

\* Mutant: a rate is measured and its baseline stays.
StaysPut(current) == IF previous = None THEN current ELSE previous
Moved(current) == current

\* sample(): no rate without a live pair, without a comparable baseline, or over
\* too short a window, which keeps the baseline.
Sample(c) ==
    LET r == raw[c]
        live == LivePair(r.pairs)
        current == Baseline(r, Min(live), clock)
    IN
    /\ r # None
    /\ raw' = [raw EXCEPT ![c] = None]
    /\ IF live = {} \/ (Comparable(current) /\ ~Measurable(current))
         THEN shown' = [rate |-> None, path |-> PathOf(r), loss |-> LossRatio(r)] /\ UNCHANGED <<previous, rated>>
         ELSE /\ previous' = Moved(current)
              /\ shown' = [rate |-> IF Comparable(current) THEN RateBps(previous, current) ELSE None,
                           path |-> PathOf(r), loss |-> LossRatio(r)]
              /\ rated' = IF Comparable(current) /\ r.conn = engine.conn
                             /\ Len(r.pairs) = Len(engine.pairs)
                            THEN rated + RateBps(previous, current).bits ELSE rated
    /\ UNCHANGED <<budget, watched, clock, engine, up, batches, skipped>>

----------------------------------------------------------------------------
(* run_client_stats(): ClientStatsReporter and MessageStageReporter.       *)

NewReporter ==
    [bytes |-> [i \in Numbers |-> None], totals |-> [i \in Numbers |-> None],
     timing |-> 0, last |-> None, held |-> 0,
     sentConnectTime |-> FALSE, sentEnvironment |-> FALSE]

\* get_stats() of the native peer takes the channel's totals under its lock...
ReadTotals ==
    /\ up /\ watched = "batches" /\ reading = None /\ chunked = None
    /\ chunked' = [sent |-> engine.sent, stall |-> engine.stall]
    /\ UNCHANGED <<budget, watched, clock, engine, up, sampler, reading, reporter, batched, wire, skipped>>

\* ...and then waits for the engine's report; map_stats() copies it, and the
\* totals read before go with it.
MapStats(report) == [report EXCEPT !.sent = chunked.sent, !.stall = chunked.stall]

ReadReport ==
    /\ up /\ chunked # None
    /\ chunked' = None
    /\ reading' = MapStats(engine)
    /\ UNCHANGED <<budget, watched, clock, engine, up, sampler, reporter, batched, wire, skipped>>

\* A read that fails skips the tick.
ReadFails ==
    /\ up /\ chunked # None
    /\ chunked' = None
    /\ UNCHANGED <<budget, watched, clock, engine, up, sampler, reading, reporter, batched, wire, skipped>>

\* resolve(): the stream's track, by its mid and direction; a codec the wire
\* does not carry for that kind of track resolves to nothing.  What the batch
\* says of the stream goes by the track's kind, not by the engine's.
Codecs == [video |-> {"vp8", "vp9", "av1", "h264", "h265"}, audio |-> {"opus"}]
OfTrack(i, t) ==
    t.mid = Streams[i].mid /\ t.direction = (IF i <= Len(Inbound) THEN "recvonly" ELSE "sendonly")
TrackKind(i) == (CHOOSE t \in Tracks : OfTrack(i, t)).kind
Resolves(i) ==
    /\ i \in reading.known
    /\ \E t \in Tracks : OfTrack(i, t)
    /\ Streams[i].codec \in Codecs[TrackKind(i)]

\* The first stream reported on a mid stands for its track.
Shows(i) ==
    Resolves(i) /\ ~\E j \in Numbers :
        /\ j < i /\ Resolves(j)
        /\ Streams[j].mid = Streams[i].mid
        /\ (j <= Len(Inbound)) = (i <= Len(Inbound))

\* bitrate(): none on a first batch, a counter that went back, or no time passed.
Bitrate(i) ==
    LET before == reporter.bytes[i] IN
    IF before = None \/ clock <= before.at \/ reading.frames[i] < before.n THEN None
    ELSE [n |-> reading.frames[i] - before.n, window |-> clock - before.at]

\* stage(): the frames that went through since the baseline.
Stage(i) ==
    LET before == reporter.totals[i] IN
    IF before = None \/ reading.frames[i] <= before.n THEN 0 ELSE reading.frames[i] - before.n

\* timing_frame(): a stamp before one the sender did take was never taken, and a
\* stage that misses one lasts -1.
Taken(stamps, n) == \A k \in 1..n : stamps[k] <= stamps[n]
TimingFrameOf(stamps) ==
    LET lasts(from, to) == IF Taken(stamps, from) /\ Taken(stamps, to)
                             THEN stamps[to] - stamps[from] ELSE -1
    IN  {[name |-> "encode_wait", ms |-> lasts(1, 2), frames |-> 1],
         [name |-> "packetize", ms |-> lasts(3, 4), frames |-> 1],
         [name |-> "pacer", ms |-> lasts(4, 5), frames |-> 1]}

\* timing_frame_stages(): one the engine repeats counts once, and a stage that
\* misses a stamp is dropped.  Only a received video track has them.
Timed == 1 <= Len(Inbound) /\ Shows(1) /\ TrackKind(1) = "video" /\ reading.timing.id > 0
NewTiming == Timed /\ reading.timing.id # reporter.timing
\* Mutant: the stages that miss a stamp go out.
KeepsGaps(stages) == stages
Measured(stages) == {s \in stages : s.ms >= 0}
TimingFrameStages == IF NewTiming THEN Measured(TimingFrameOf(reading.timing.stamps)) ELSE {}

\* MessageStageReporter::stages(): stalls wait for a window with a message to
\* spread them over.
Window == IF reporter.last = None \/ reading.sent < reporter.last.sent THEN [sent |-> 0, stall |-> 0]
          ELSE [sent |-> reading.sent - reporter.last.sent,
                stall |-> reading.stall - reporter.last.stall + reporter.held]
StallStage == IF Window.sent > 0 THEN Window.stall ELSE 0

\* Mutant: a window without a message drops the stalls in it.
HoldsNothing == 0
Held == IF Window.sent = 0 THEN Window.stall ELSE 0

\* bounded_name(): a name is cut to what a reading may carry.
BoundedName(n) == IF n < MaxName THEN n ELSE MaxName

\* put_measured(): zero is how the engine says that it has not measured yet.
PutMeasured(key, value) == IF value > 0 THEN {key} ELSE {}

\* What is said of the far end: a loss that is not zero can only have come from
\* a report, and a zero counts once a round trip says that one arrived.
FarMetrics ==
    (IF reading.far.rtt > 0 \/ reading.far.lost # 0 THEN {"packets_lost"} ELSE {})
        \cup PutMeasured("round_trip_time_ms", reading.far.rtt)

\* track_stat(): only video has stages and a codec implementation.
TrackStat(i) ==
    [mid |-> Streams[i].mid, sent |-> i > Len(Inbound),
     kind |-> TrackKind(i), codec |-> Streams[i].codec,
     implementation |-> IF TrackKind(i) = "video" THEN BoundedName(Streams[i].name) ELSE 0,
     metrics |-> IF i > Len(Inbound) THEN FarMetrics ELSE {},
     stages |-> IF TrackKind(i) # "video" THEN {}
                ELSE (IF Stage(i) > 0 THEN {[name |-> "decode", ms |-> Stage(i), frames |-> Stage(i)]}
                                      ELSE {})
                     \cup (IF i = 1 THEN TimingFrameStages ELSE {})]

\* client_connection_stat(): what the live pair measured, and once how long the
\* connection took to come up.
ConnectionStat ==
    (IF LivePair(reading.pairs) # {} THEN PutMeasured("connection_rtt_ms", reading.rtt) ELSE {})
        \cup (IF reporter.sentConnectTime THEN {} ELSE {"time_to_connect_ms"})

\* track_stats(): one reading per track.
TrackStats == {TrackStat(i) : i \in {j \in Numbers : Shows(j)}}

\* The messages' stages: none without a message to spread them over.
MessageStages == IF Window.sent > 0 THEN {StallStage} ELSE {}

\* commit(): the baselines move to the readings of the batch.
Commit ==
    [bytes |-> [i \in Numbers |-> IF Shows(i) THEN [n |-> reading.frames[i], at |-> clock]
                                  ELSE reporter.bytes[i]],
     totals |-> [i \in Numbers |-> IF Shows(i) THEN [n |-> reading.frames[i]]
                                   ELSE reporter.totals[i]],
     timing |-> IF Timed THEN reading.timing.id ELSE reporter.timing,
     last |-> [sent |-> reading.sent, stall |-> reading.stall],
     held |-> Held, sentConnectTime |-> TRUE, sentEnvironment |-> TRUE]

\* A batch with nothing in it goes out once, for the environment it carries.
NothingToSay ==
    /\ TrackStats = {} /\ ConnectionStat = {} /\ MessageStages = {}
    /\ reporter.sentEnvironment

\* What an accepted batch adds to what the connection has reported.
Adds ==
    [bytes |-> [i \in Numbers |-> batched.bytes[i] +
                    IF Shows(i) /\ Bitrate(i) # None THEN Bitrate(i).n ELSE 0],
     frames |-> [i \in Numbers |-> batched.frames[i] +
                    IF Shows(i) /\ TrackKind(i) = "video" THEN Stage(i) ELSE 0],
     from |-> [i \in Numbers |-> IF batched.from[i] = None /\ Shows(i) THEN reporter'.totals[i]
                                 ELSE batched.from[i]],
     timing |-> batched.timing + (IF NewTiming THEN 1 ELSE 0),
     stall |-> batched.stall + StallStage,
     first |-> IF batched.first = None THEN [stall |-> reading.stall] ELSE batched.first,
     connects |-> batched.connects + (IF "time_to_connect_ms" \in ConnectionStat THEN 1 ELSE 0)]

\* The batch is built and handed to the control channel, which takes it or not.
SendBatch(ok) ==
    /\ up /\ reading # None /\ ~NothingToSay
    /\ reading' = None
    /\ reporter' = IF ok THEN Commit ELSE reporter
    /\ batched' = IF ok THEN Adds ELSE batched
    /\ wire' = IF ok THEN [tracks |-> TrackStats, heard |-> reading.far.heard] ELSE wire
    /\ UNCHANGED <<budget, watched, clock, engine, up, sampler, chunked, skipped>>

SkipsBatch ==
    /\ up /\ reading # None /\ NothingToSay
    /\ reading' = None
    /\ UNCHANGED <<budget, watched, clock, engine, up, sampler, chunked, reporter, batched, wire, skipped>>

----------------------------------------------------------------------------
(* sendClientStats(): the readings of a page.                              *)

\* stage_times(): only the stages the wire allows.
StageTimes(stages) == {s \in stages : s.name # "" /\ s.frames > 0 /\ s.ms >= 0}

\* try_from(): a reading as the wire carries it.
PageTrackStat(p) ==
    [mid |-> p.track, sent |-> p.sent, kind |-> p.kind, codec |-> p.codec,
     implementation |-> IF p.kind = "video" THEN BoundedName(p.name) ELSE 0,
     metrics |-> {}, stages |-> StageTimes(p.stages)]

\* One codec that its kind does not have fails the whole batch.
PageSends(batch) ==
    /\ up /\ watched = "page" /\ budget > 0
    /\ budget' = budget - 1
    /\ wire' = IF \A p \in batch : p.codec \in Codecs[p.kind]
                 THEN [tracks |-> {PageTrackStat(p) : p \in batch}, heard |-> FALSE]
                 ELSE wire
    /\ UNCHANGED <<watched, clock, engine, up, sampler, chunked, reading, reporter, batched, skipped>>

----------------------------------------------------------------------------
(* Connections.                                                            *)

\* teardown() resets the sampler; the reporter of the connection ends.
Teardown ==
    /\ up /\ up' = FALSE
    /\ previous' = None
    /\ chunked' = None
    /\ reading' = None
    /\ UNCHANGED <<budget, watched, clock, engine, raw, shown, reporter, rated, batched, wire, skipped>>

NoBatches == [bytes |-> [i \in Numbers |-> 0], frames |-> [i \in Numbers |-> 0],
              from |-> [i \in Numbers |-> None], timing |-> 0, stall |-> 0, first |-> None,
              connects |-> 0]

\* connect() or reconnect(): another peer connection and another reporter.  Over
\* the same interfaces its pair may have the priority the old one had.
Connect ==
    /\ ~up /\ up' = TRUE
    /\ engine.conn < MaxConnections
    /\ \E p \in 1..2 : engine' = Fresh(engine.conn + 1, p)
    /\ budget' = MaxEvents
    /\ reporter' = NewReporter
    /\ rated' = 0
    /\ batched' = NoBatches
    /\ wire' = None
    /\ skipped' = FALSE
    /\ UNCHANGED <<watched, clock, raw, previous, shown, chunked, reading>>

Init ==
    /\ clock = 0
    /\ engine = Fresh(1, 1)
    /\ budget = MaxEvents
    /\ watched \in {"calls", "batches", "page"}
    /\ up = TRUE
    /\ raw = [c \in Callers |-> None]
    /\ previous = None
    /\ shown = [rate |-> None, path |-> None, loss |-> None]
    /\ chunked = None
    /\ reading = None
    /\ reporter = NewReporter
    /\ rated = 0
    /\ batched = NoBatches
    /\ wire = None
    /\ skipped = FALSE

Engine == (\E i \in Numbers : Frame(i) \/ Restarted(i)) \/ TimingFrame \/ Message \/ FarReport \/ IceRestart
Sampling == \E c \in Callers : ReadStats(c) \/ Sample(c)
Reporting ==
    \/ ReadTotals \/ ReadReport \/ ReadFails \/ SkipsBatch
    \/ \E ok \in BOOLEAN : SendBatch(ok)
    \/ \E batch \in PageBatches : PageSends(batch)

Next == Engine \/ Tick \/ Sampling \/ Reporting \/ Teardown \/ Connect

Spec == Init /\ [][Next]_vars

----------------------------------------------------------------------------
(* Properties.                                                             *)

\* A rate get_stats() shows was measured between two readings of one connection,
\* at least MIN_RATE_WINDOW_MS apart: a call that read the engine before a
\* teardown and samples after it leaves a baseline of the old connection behind
\* reset(), and only the pair and the SSRCs tell it from the new one's
\* (StatsSampler::sample; a connection without streams has only the pair).
RatesOfOneConnection ==
    Numbers # {} /\ shown.rate # None =>
        /\ shown.rate.from = shown.rate.to
        /\ shown.rate.window >= MinWindow

\* With one caller at a time, no byte is counted in two rates: however short the
\* windows asked for, the rates of a pair never add up to more than it carried.
NothingRatedTwice ==
    Cardinality(Callers) = 1 =>
        \A i \in LivePair(engine.pairs) : rated <= 8 * engine.pairs[i].bytes

\* What a rate covers: one connection, a long enough window, and no byte that an
\* earlier rate covered.
RatesCoverOnce == RatesOfOneConnection /\ NothingRatedTwice

\* What the accepted batches of a connection carried is exactly what happened
\* between the first and the last of them, however many were not sent in
\* between: each frame of a stream in one stage window, each timing frame once,
\* each stall either reported or held for a message, and how long the connection
\* took to come up exactly once (ClientStatsReporter::commit, Held and
\* sent_connect_time in run_client_stats).
BatchesAddUp ==
    batched.first # None /\ ~skipped =>
        /\ batched.stall + reporter.held = reporter.last.stall - batched.first.stall
        /\ batched.timing <= engine.timing.id
        /\ batched.connects = 1
        /\ \A i \in Numbers : batched.from[i] # None =>
             /\ batched.bytes[i] <= reporter.bytes[i].n - batched.from[i].n
             /\ TrackKind(i) = "video" =>
                  batched.frames[i] = reporter.totals[i].n - batched.from[i].n

\* Whatever the engine or a page said, a batch that went out is one the runtime
\* takes and can add up: a codec of the track's kind, no name over the limit, an
\* implementation for video only, stages with a frame and no negative time, no
\* loss of a far end that never reported, and from the engine one reading per
\* track (track_stat, timing_frame, put_measured, ClientTrackStat::try_from).
WireAllows ==
    wire # None =>
        \A t \in wire.tracks :
            /\ t.codec \in Codecs[t.kind]
            /\ t.implementation <= MaxName
            /\ t.kind = "audio" => t.implementation = 0
            /\ \A g \in t.stages : g.name # "" /\ g.frames > 0 /\ g.ms >= 0
            /\ t.metrics # {} => wire.heard
            /\ watched = "batches" =>
                 \A u \in wire.tracks : <<u.mid, u.sent>> = <<t.mid, t.sent>> => u = t
=============================================================================
