---------------------------- MODULE StepExchange ----------------------------
(***************************************************************************)
(* A stepped session, from the frames a host pushes to what it reads of    *)
(* each step's result: core/src/reactor.rs and step/, ffi/src/step.rs and  *)
(* lib.rs (native), wasm/src/client.rs, step.rs and pixels.rs (browser).   *)
(* The buffer of frames is StepInputs.                                     *)
(*                                                                         *)
(* A native host pushes and steps from threads of its own, so a push's     *)
(* check and its landing in the buffer are two steps; in the browser they  *)
(* are one.  A step is begun on the caller's thread, sent by a task of its *)
(* own, answered or not, and told to the host.  A teardown fails what is   *)
(* waiting, closes the peer, clears the session and only then changes the  *)
(* status.  Publishing, pausing in two halves and the bitrates are         *)
(* MediaTracks'; the correlator's own windows are Correlation's.           *)
(***************************************************************************)
EXTENDS StepInputs

CONSTANTS
    Null,       \* the null pointer, None, undefined
    Declared,   \* the kind of each sendonly track of the session, or "none"
    Inputs,     \* pushes a host may make
    Asks,       \* steps a host may ask for
    Replies,    \* messages a runtime may answer a step with
    Envelope,   \* REQUEST_STEP_ENVELOPE_BYTES
    Default,    \* DEFAULT_MAX_MESSAGE_BYTES, less the envelope
    Exact,      \* 2^53: the doubles hold every integer up to here
    Word,       \* 2^32: u32 arithmetic wraps here
    StepWork,   \* bound: what all of these but a push count for in MaxWork
    MaxWork     \* bound: pushes, pauses, steps, connections and idle teardowns

ASSUME ExchangeBounds ==
    /\ Declared \in [Tracks -> {"video", "audio", "none"}]
    /\ Envelope \in Nat /\ Default \in Budgets /\ Exact \in Nat
    /\ Word \in Nat \ {0} /\ StepWork \in Nat \ {0} /\ MaxWork \in Nat
ASSUME InputsAssumption == Inputs \subseteq
    [track : Tracks, what : {"video", "encoded", "audio"}, layout : STRING,
     width : Nat, height : Nat, count : Nat]
ASSUME AsksAssumption == Asks \subseteq [text : STRING, objects : BOOLEAN, bytes : Nat]

\* A reply of the runtime, as it is decoded.
FrameOutputs == [encoding : STRING, dtype : STRING, shape : Seq(Nat), data : Seq(Nat),
                 metadata : Seq(Nat) \union {Null}, time : Nat \union {Null}]
TrackOutputs == [name : Seq(Nat), kind : STRING, rate : Nat, frames : Seq(FrameOutputs)]
StepFiles == [name : Seq(Nat), content_type : Seq(Nat), size : Nat]
Messages == [payload : STRING, failure : STRING, code : STRING, ran : BOOLEAN,
             step : Nat, elapsed : Nat, error : Seq(Nat) \union {Null}, files : Seq(StepFiles), tracks : Seq(TrackOutputs)]
ASSUME RepliesAssumption == Replies \subseteq Messages
\* No code is one of this module's own words for an outcome.
ASSUME CodesAssumption == \A r \in Replies : r.code \notin {"none", "output", "OK"}
\* What the failure codes say of the step (step/mod.rs:13-20), which is the runtime's part.
ASSUME RanAssumption == \A r \in Replies : r.payload = "step_result" =>
    /\ r.failure \in {"unspecified", "failed"} => r.ran
    /\ r.failure \in {"refused", "not_ready", "command_failed"} => ~r.ran

VARIABLES
    mode,     \* the host, and ReactorOptions::generation
    session,  \* the current session or 0, the sessions made, those ended, and Ready
    link,     \* the data channel: whether it is open, and the connection's number
    ending,   \* the teardown under way: how far it is, and whether it keeps the session
    paused,   \* State::paused_tracks
    landing,  \* a native push between takes_step_input() and the buffer's lock
    log,      \* history: the frames pushed since a step or a clear last took them
    steps,    \* the steps asked for, in order
    work      \* what MaxWork bounds, so far

exchangeVars == <<mode, session, link, ending, paused, landing, log, steps, work>>
allVars == <<vars, exchangeVars>>

NotEnding == [at |-> "none", recoverable |-> FALSE]

StartExchange ==
    /\ Init
    /\ mode \in [host : {"native", "browser"}, generation : {"stepped", "streamed"}]
    /\ session = [current |-> 1, made |-> 1, ended |-> {}, ready |-> TRUE]
    /\ link = [open |-> TRUE, number |-> 1]
    /\ ending = NotEnding
    /\ paused = {}
    /\ landing = Null
    /\ log = <<>>
    /\ steps = <<>>
    /\ work = 0

Optional(x, Convert(_)) == IF x = Null THEN Null ELSE Convert(x)
Native == mode.host = "native"
Stepped == mode.generation = "stepped"
Works(n) == work + n <= MaxWork /\ work' = work + n

----------------------------------------------------------------------------
(* Pushing: a host's push, as the boundary hands it over, as a frame.      *)
(* An input is its track, what it is, its layout or codec, its dimensions  *)
(* (audio: width is the channels) and how many bytes or samples came.      *)

BytesPerPixel(layout) == IF layout = "rgb" THEN 3 ELSE 4

\* The C boundary.  Pixels come as BGRA and their length is not passed: it is computed
\* in u32.  Audio is of one or two channels, its length given per channel.
NativeVideo(i) == [i EXCEPT !.layout = "bgra", !.count = (i.width * i.height * 4) % Word]
NativeEncoded(i) == IF i.layout \in {"h264", "raw"} THEN i ELSE Null
NativeAudio(i) == IF i.width \in 1..2 THEN [i EXCEPT !.count = @ * i.width] ELSE Null

\* The session takes a push to t of this kind, once its tracks are known.
TakesKind(t, kind) == session.current = 0 \/ Declared[t] = kind
KindOf(i) == IF i.what = "audio" THEN "audio" ELSE "video"

\* The browser throws where the core would only drop the frame: ensure_pushable(),
\* then video_frame_format(), encoded_frame_codec() or check_audio_frame().
EnsurePushable(i) == Stepped /\ TakesKind(i.track, KindOf(i))
CheckSize(i) == i.width > 0 /\ i.height > 0 /\ i.count = i.width * i.height * BytesPerPixel(i.layout)
CheckEncoded(i) == i.count > 0 /\ i.width > 0 /\ i.height > 0
VideoFrameFormat(i) == EnsurePushable(i) /\ i.layout \in {"rgba", "rgb", "bgra"} /\ CheckSize(i)
EncodedFrameCodec(i) == EnsurePushable(i) /\ i.layout = "h264" /\ CheckEncoded(i)
CheckAudioFrame(i) == EnsurePushable(i) /\ i.width > 0 /\ i.count % i.width = 0

\* What a frame costs besides its data: never nothing.
FrameCost == 1
FrameOf(i, encoded, bytes) == [track |-> i.track, encoded |-> encoded, size |-> FrameCost + bytes]

\* raw_video_frame(), encoded_video_frame() and raw_audio_frame(): RGB, the bytes as
\* they are, or 16-bit samples; Null when the data is not such a frame.
RawVideoFrame(i) ==
    IF i.count = i.width * i.height * BytesPerPixel(i.layout)
    THEN FrameOf(i, FALSE, 3 * i.width * i.height) ELSE Null
EncodedVideoFrame(i) ==
    IF i.layout # "raw" /\ i.count > 0 /\ i.width > 0 /\ i.height > 0
    THEN FrameOf(i, TRUE, i.count) ELSE Null
RawAudioFrame(i) ==
    IF i.width > 0 /\ i.count % i.width = 0 THEN FrameOf(i, FALSE, 2 * i.count) ELSE Null

\* takes_step_input(): not of a paused track, and of a declared one once that is known.
TakesStepInput(i) == i.track \notin paused /\ TakesKind(i.track, KindOf(i))

BufferVideoFrame(i) == IF Stepped /\ TakesStepInput(i) THEN RawVideoFrame(i) ELSE Null
PushStepEncodedVideoFrame(i) == IF Stepped /\ TakesStepInput(i) THEN EncodedVideoFrame(i) ELSE Null
PushAudioFrame(i) == IF Stepped /\ TakesStepInput(i) THEN RawAudioFrame(i) ELSE Null

\* What comes of a push: a frame for the buffer, or nothing.
NativePush(i) ==
    CASE i.what = "video" -> BufferVideoFrame(NativeVideo(i))
      [] i.what = "encoded" -> Optional(NativeEncoded(i), PushStepEncodedVideoFrame)
      [] i.what = "audio" -> Optional(NativeAudio(i), PushAudioFrame)
BrowserPush(i) ==
    CASE i.what = "video" -> IF VideoFrameFormat(i) THEN BufferVideoFrame(i) ELSE Null
      [] i.what = "encoded" -> IF EncodedFrameCodec(i) THEN PushStepEncodedVideoFrame(i) ELSE Null
      [] i.what = "audio" -> IF CheckAudioFrame(i) THEN PushAudioFrame(i) ELSE Null

\* StepInputs::push, with the connection's budget.
Land(frame, of, torn) ==
    /\ Push(frame)
    /\ log' = Append(log, [frame |-> frame, session |-> of, torn |-> torn, max |-> budget])
    /\ UNCHANGED <<mode, session, link, ending, paused, steps>>

\* A native push passes its checks...
PushCheck(i) ==
    /\ Native /\ landing = Null /\ Works(1)
    /\ NativePush(i) # Null
    /\ landing' = [frame |-> NativePush(i), session |-> session.current, torn |-> FALSE]
    /\ UNCHANGED <<vars, mode, session, link, ending, paused, log, steps>>

\* ... and lands, whatever happened to the session meanwhile.
PushLand ==
    /\ landing # Null
    /\ Land(landing.frame, landing.session, landing.torn)
    /\ landing' = Null
    /\ UNCHANGED work

PushBrowser(i) ==
    /\ ~Native /\ Works(1)
    /\ BrowserPush(i) # Null
    /\ Land(BrowserPush(i), session.current, FALSE)
    /\ UNCHANGED landing

\* pause_track() and resume_track() of an input track, which has no transceiver.
PauseTrack(t) ==
    /\ Stepped /\ session.ready /\ link.open /\ Declared[t] # "none"
    /\ \/ t \notin paused /\ Works(StepWork) /\ paused' = paused \union {t}
       \/ t \in paused /\ paused' = paused \ {t} /\ UNCHANGED work
    /\ UNCHANGED <<vars, mode, session, link, ending, landing, log, steps>>

\* clear_step_inputs().
ClearStepInputs ==
    /\ Take
    /\ log' = <<>>
    /\ UNCHANGED <<mode, session, link, ending, paused, landing, steps, work>>

----------------------------------------------------------------------------
(* Asking for a step.                                                      *)

\* parse_state() and parse_commands(): JSON, an array, a name in every entry and no
\* key besides.
ParseCommands(a) == IF a.text = "well_formed" THEN "OK" ELSE "DECODE_FAILED"
\* step_input(): what deserialises; an empty name and other keys pass.
StepInput(a) == IF a.text \in {"not_commands", "no_name"} THEN "INVALID_STATE" ELSE "OK"
Parsed(a) == IF Native THEN ParseCommands(a) ELSE StepInput(a)

\* build_step(): the session first, then what the state and the data are.
BuildStep(a) ==
    CASE ~Stepped \/ ~session.ready -> "INVALID_STATE"
      [] ~a.objects -> "DECODE_FAILED"
      [] OTHER -> "OK"

\* What refuses a step with nothing taken, first the binding and then the core.
CheckStep(a) == IF Parsed(a) # "OK" THEN Parsed(a) ELSE BuildStep(a)

NewStep(a) ==
    [phase |-> "begun", bytes |-> a.bytes, media |-> {},
     offered |-> <<>>, sentOn |-> 0, ran |-> FALSE, answered |-> FALSE,
     outcome |-> "none", answer |-> Null]

\* A step that fails as it is begun is told so: thrown in the browser, by the
\* completion on a native host.
Failed(a, code) == [NewStep(a) EXCEPT !.outcome = code, !.phase = "decided", !.bytes = 0]

\* The frames in the buffer, by the numbers of their pushes.
Held == UNION {{buffer.tracks[i].frames[j] : j \in DOMAIN buffer.tracks[i].frames} :
                   i \in DOMAIN buffer.tracks}

\* begin_step() past its checks: every frame buffered so far is this step's, or is
\* dropped with it when a stream was cut.
TakeInputs(a) ==
    IF Refuses THEN Failed(a, "step_refused")
    ELSE [NewStep(a) EXCEPT !.bytes = @ + buffer.bytes, !.media = Held, !.offered = log]

\* Mutant: the frames are taken before the request is checked.
TakesFirst(code) == TRUE
\* The frames are taken only when every check passed.
TakesFrames(code) == code = "OK"

BeginStep(a) ==
    LET code == CheckStep(a) IN
    /\ Works(StepWork)
    /\ steps' = Append(steps, IF code = "OK" THEN TakeInputs(a) ELSE Failed(a, code))
    /\ IF TakesFrames(code) THEN Take ELSE UNCHANGED vars
    /\ log' = IF code = "OK" THEN <<>> ELSE log
    /\ UNCHANGED <<mode, session, link, ending, paused, landing>>

----------------------------------------------------------------------------
(* Sending it, and what comes back.                                        *)

Update(k, s) == steps' = [steps EXCEPT ![k] = s]
OnlyAStep == UNCHANGED <<vars, mode, session, link, ending, paused, landing, log, work>>
Gone(s) == [s EXCEPT !.bytes = 0, !.media = {}, !.offered = <<>>]
Decided(s, code) == [Gone(s) EXCEPT !.phase = "decided", !.outcome = code]

\* send_on_channel() and the browser's send(): a closed channel, or one that is gone.
ClosedCodes == IF Native THEN {"INVALID_STATE", "TRANSPORT_ERROR"} ELSE {"INVALID_STATE"}
\* What an open channel may refuse a message for: the runtime's own limit, a full queue.
ChannelRefusals == {"MESSAGE_TOO_LARGE", "TRANSPORT_ERROR"}

\* send_pending().
SendStep(k) ==
    LET s == steps[k] IN
    /\ s.phase = "begun"
    /\ \/ /\ s.bytes > budget + Envelope
          /\ Update(k, Decided(s, "MESSAGE_TOO_LARGE"))
       \/ /\ s.bytes <= budget + Envelope
          /\ \/ /\ ~link.open
                /\ \E code \in ClosedCodes : Update(k, Decided(s, code))
             \/ /\ link.open
                /\ \/ Update(k, [Gone(s) EXCEPT !.phase = "sent", !.sentOn = link.number])
                   \/ \E code \in ChannelRefusals : Update(k, Decided(s, code))
    /\ OnlyAStep

\* The runtime gets what the channel took, and runs it.
RuntimeRuns(k) ==
    /\ steps[k].sentOn # 0 /\ ~steps[k].ran /\ ~steps[k].answered
    /\ Update(k, [steps[k] EXCEPT !.ran = TRUE])
    /\ OnlyAStep

FailureCodes ==
    [refused |-> "step_refused", not_ready |-> "step_not_ready",
     result_too_large |-> "step_result_too_large", command_failed |-> "step_command_failed",
     session_ended |-> "step_session_ended"]

\* CoreError::code of a StepFailed: its own code, unless that is empty.
StepFailed(code) == IF code = "" THEN "INTERNAL_ERROR" ELSE code

\* step_failure(): the outcomes that are no output; a failure only a newer runtime
\* knows has no code.
StepFailure(r) ==
    CASE r.failure \in {"unspecified", "failed"} -> "OK"
      [] r.failure \in DOMAIN FailureCodes -> FailureCodes[r.failure]
      [] OTHER -> StepFailed("")

DtypeSize(dtype) ==
    CASE dtype \in {"uint8", "int8", "bool"} -> 1
      [] dtype \in {"uint16", "int16", "float16"} -> 2
      [] dtype \in {"uint32", "int32", "float32"} -> 4
      [] dtype \in {"uint64", "int64", "float64"} -> 8
      [] OTHER -> 0

\* RawFrameDecoder::decode: as many bytes as the shape says, of a dtype it knows.
RawSized(f) ==
    LET bytes[n \in 0..Len(f.shape)] ==
          IF n = 0 THEN DtypeSize(f.dtype) ELSE bytes[n - 1] * f.shape[n]
    IN DtypeSize(f.dtype) = 0 \/ Len(f.data) = bytes[Len(f.shape)]

\* FrameDecoders::decode_frame: only RAW is registered.
DecodeFrame(f) ==
    CASE f.encoding # "raw" -> "UNSUPPORTED_FRAME_ENCODING"
      [] ~RawSized(f) -> "DECODE_FAILED"
      [] OTHER -> "OK"

\* decode_result(): the first track or frame that does not decode fails the step.
TrackFailure(t) ==
    IF t.kind \notin {"video", "audio"} THEN "DECODE_FAILED"
    ELSE LET bad == {j \in DOMAIN t.frames : DecodeFrame(t.frames[j]) # "OK"}
         IN IF bad = {} THEN "OK" ELSE DecodeFrame(t.frames[Min(bad)])

DecodeResult(r) ==
    IF StepFailure(r) # "OK" THEN StepFailure(r)
    ELSE LET bad == {i \in DOMAIN r.tracks : TrackFailure(r.tracks[i]) # "OK"}
         IN IF bad = {} THEN "OK" ELSE TrackFailure(r.tracks[Min(bad)])

\* send_step() on a reply: every outcome of a step is a StepResult; the code of an
\* Error, should one arrive anyway, passes through.
Outcome(r) ==
    CASE r.payload = "step_result" -> DecodeResult(r)
      [] r.payload = "error" -> StepFailed(r.code)
      [] OTHER -> "DECODE_FAILED"

\* of: the step the runtime's reply is about.
Answered(s, r, of) ==
    [Decided(s, IF Outcome(r) = "OK" THEN "output" ELSE Outcome(r))
        EXCEPT !.answer = [of |-> of, result |-> r]]

\* Mutant: a reply resolves the step that has waited longest.
OldestWaiting(k) == Min({j \in DOMAIN steps : steps[j].phase = "sent"} \union {k})
\* A reply resolves the request whose id it carries.
Resolves(k) == k

\* A reply to step k arrives on its connection, in time or not.
StepReply(k, r) ==
    LET j == Resolves(k) IN
    /\ link.open /\ link.number = steps[k].sentOn
    /\ ~steps[k].answered /\ steps[k].ran = r.ran
    /\ LET seen == [steps EXCEPT ![k].answered = TRUE]
       IN steps' = IF seen[j].phase = "sent" THEN [seen EXCEPT ![j] = Answered(@, r, k)] ELSE seen
    /\ OnlyAStep

\* Mutant: a teardown's fail_all() is trusted to have failed every step.
TimesOutWhileUp(k) ==
    /\ steps[k].phase = "sent" /\ link.open
    /\ Update(k, Decided(steps[k], "REQUEST_TIMEOUT"))
    /\ OnlyAStep
\* await_data_response() gives up.
StepTimeout(k) ==
    /\ steps[k].phase = "sent"
    /\ Update(k, Decided(steps[k], "REQUEST_TIMEOUT"))
    /\ OnlyAStep

----------------------------------------------------------------------------
(* Telling the host, and what the host reads.                              *)

\* c_string(): an interior NUL (0) is dropped, the rest of the text stays.
CString(text) == SelectSeq(text, LAMBDA c : c # 0)

\* From<StepOutput> and From<StepFile>: what the host then owns.
StepFileEntry(f) == 
    [name |-> CString(f.name), content_type |-> CString(f.content_type), size |-> f.size]
StepTrack(t) == [name |-> CString(t.name), kind |-> t.kind, rate |-> t.rate,
                 frames |-> t.frames]
ReactorStepResult(r) ==
    [step |-> r.step, elapsed |-> r.elapsed, error |-> Optional(r.error, CString),
     files |-> [i \in DOMAIN r.files |-> StepFileEntry(r.files[i])],
     tracks |-> [i \in DOMAIN r.tracks |-> StepTrack(r.tracks[i])]]

\* A result and its parts; no pointer to one of them is null.
Parts(r) == {r} \union Range(r.files) \union Range(r.tracks)
              \union UNION {Range(r.tracks[i].frames) : i \in DOMAIN r.tracks}
ASSUME NullAssumption ==
    /\ Null \notin [of : Nat, result : Replies]
    /\ \A r \in Replies : Null \notin Parts(r) \union Parts(ReactorStepResult(r))

\* Vec::get: an entry by its index from zero.
At(s, i) == IF i + 1 \in DOMAIN s THEN s[i + 1] ELSE Null
Field(x, f, otherwise) == IF x = Null THEN otherwise ELSE x[f]
track(r, t) == IF r = Null THEN Null ELSE At(r.tracks, t)
frame(r, t, f) == IF track(r, t) = Null THEN Null ELSE At(track(r, t).frames, f)
file(r, f) == IF r = Null THEN Null ELSE At(r.files, f)

reactor_step_result_step(r) == Field(r, "step", 0)
reactor_step_result_elapsed(r) == Field(r, "elapsed", 0)
reactor_step_result_error(r) == Field(r, "error", Null)
reactor_step_result_file_count(r) == Len(Field(r, "files", <<>>))
reactor_step_result_file_name(r, f) == Field(file(r, f), "name", Null)
reactor_step_result_file_content_type(r, f) == Field(file(r, f), "content_type", Null)
reactor_step_result_file_size(r, f) == Field(file(r, f), "size", 0)
reactor_step_result_track_count(r) == Len(Field(r, "tracks", <<>>))
reactor_step_result_track_name(r, t) == Field(track(r, t), "name", Null)
reactor_step_result_track_kind(r, t) == Field(track(r, t), "kind", Null)
reactor_step_result_track_rate(r, t) == Field(track(r, t), "rate", 0)
reactor_step_result_frame_count(r, t) == Len(Field(track(r, t), "frames", <<>>))
reactor_step_result_frame_encoding(r, t, f) == Field(frame(r, t, f), "encoding", Null)
reactor_step_result_frame_dtype(r, t, f) == Field(frame(r, t, f), "dtype", Null)
reactor_step_result_frame_shape(r, t, f) == Field(frame(r, t, f), "shape", <<>>)
reactor_step_result_frame_data(r, t, f) == Field(frame(r, t, f), "data", <<>>)
reactor_step_result_frame_metadata(r, t, f) == Field(frame(r, t, f), "metadata", Null)
reactor_step_result_frame_capture_time_us(r, t, f) == Field(frame(r, t, f), "time", Null)

\* A native host reads everything the counts say there is.
ReadNatively(r) ==
    [step |-> reactor_step_result_step(r), elapsed |-> reactor_step_result_elapsed(r),
     error |-> reactor_step_result_error(r),
     files |-> [i \in 1..reactor_step_result_file_count(r) |->
        [name |-> reactor_step_result_file_name(r, i - 1),
         content_type |-> reactor_step_result_file_content_type(r, i - 1),
         size |-> reactor_step_result_file_size(r, i - 1)]],
     tracks |-> [i \in 1..reactor_step_result_track_count(r) |->
        [name |-> reactor_step_result_track_name(r, i - 1),
         kind |-> reactor_step_result_track_kind(r, i - 1),
         rate |-> reactor_step_result_track_rate(r, i - 1),
         frames |-> [j \in 1..reactor_step_result_frame_count(r, i - 1) |->
            [encoding |-> reactor_step_result_frame_encoding(r, i - 1, j - 1),
             dtype |-> reactor_step_result_frame_dtype(r, i - 1, j - 1),
             shape |-> reactor_step_result_frame_shape(r, i - 1, j - 1),
             data |-> reactor_step_result_frame_data(r, i - 1, j - 1),
             metadata |-> reactor_step_result_frame_metadata(r, i - 1, j - 1),
             time |-> reactor_step_result_frame_capture_time_us(r, i - 1, j - 1)]]]]]

\* typed_array(): the bytes grouped as the dtype's elements; unknown ones stay bytes.
ElementSize(dtype) ==
    IF dtype \in {"int8", "uint16", "int16", "uint32", "int32", "float32", "float64"}
    THEN DtypeSize(dtype) ELSE 1
TypedArray(dtype, data) ==
    LET n == ElementSize(dtype)
    IN [k \in 1..(Len(data) \div n) |-> SubSeq(data, n * (k - 1) + 1, n * k)]

\* `as f64` of a 64-bit integer: past Exact the doubles lie Gap(n) apart, and n
\* becomes the nearest, of two as near the even one.
Gap(n) == 2 * Min({2^k : k \in {k \in 0..10 : n <= 2 * Exact * 2^k}})
AsF64(n) ==
    IF n <= Exact THEN n
    ELSE LET below == n \div Gap(n)
             twice == 2 * (n % Gap(n))
             up == twice > Gap(n) \/ (twice = Gap(n) /\ below % 2 = 1)
         IN (IF up THEN below + 1 ELSE below) * Gap(n)

\* output_to_js() with file_to_js(), track_to_js() and frame_to_js(): a step's number,
\* a file's size and a frame's time are integers of 64 bits, and numbers here.
FrameToJs(f) == [f EXCEPT !.data = TypedArray(f.dtype, @), !.time = Optional(@, AsF64)]
TrackToJs(t) == [t EXCEPT !.frames = [j \in DOMAIN @ |-> FrameToJs(@[j])]]
FileToJs(f) == [f EXCEPT !.size = AsF64(@)]
OutputToJs(r) ==
    [step |-> AsF64(r.step), elapsed |-> r.elapsed, error |-> r.error,
     files |-> [i \in DOMAIN r.files |-> FileToJs(r.files[i])],
     tracks |-> [i \in DOMAIN r.tracks |-> TrackToJs(r.tracks[i])]]

\* What the host reads of the step it was told about, a null result too.
Read(s) ==
    LET out == IF s.outcome = "output" THEN s.answer.result ELSE Null
    IN IF Native THEN ReadNatively(Optional(out, ReactorStepResult)) ELSE Optional(out, OutputToJs)

\* StepCompletion::resolve on the control thread: the result is the host's, to read
\* and free; without a completion it is freed there.  In the browser a promise settles.
TellStep(k) ==
    /\ steps[k].phase = "decided"
    /\ Update(k, [steps[k] EXCEPT !.phase = "told", !.outcome = "none", !.answer = Null])
    /\ OnlyAStep

----------------------------------------------------------------------------
(* The session around the steps.                                           *)

\* teardown() begins, whatever the status is: everything waiting is failed while it
\* still says what it said.
FailAll(recoverable) ==
    /\ ending.at = "none"
    /\ IF session.ready THEN UNCHANGED work ELSE Works(StepWork)
    /\ ending' = [at |-> "failed", recoverable |-> recoverable]
    /\ steps' = [k \in DOMAIN steps |-> IF steps[k].phase = "sent"
                                        THEN Decided(steps[k], "DISCONNECTED") ELSE steps[k]]
    /\ UNCHANGED <<vars, mode, session, link, paused, landing, log>>

\* Without a connection max_message_bytes() is what it is before one.
ClosePeer ==
    /\ ending.at = "failed"
    /\ ending' = [ending EXCEPT !.at = "closed"]
    /\ link' = [link EXCEPT !.open = FALSE]
    /\ budget' = Default
    /\ UNCHANGED <<buffer, pushed, limits, entered, mode, session, paused, landing, log, steps, work>>

\* Frames buffered for a session that is gone.
DropsFrames == Take /\ log' = <<>>

\* The state is cleared under its lock; a session that is over takes the frames along.
ClearState ==
    /\ ending.at = "closed"
    /\ ending' = [ending EXCEPT !.at = "cleared"]
    /\ paused' = {}
    /\ \/ /\ ending.recoverable
          /\ UNCHANGED <<vars, session, landing, log>>
       \/ /\ ~ending.recoverable
          /\ session' = [session EXCEPT !.current = 0, !.ended = @ \union ({session.current} \ {0})]
          /\ DropsFrames
          /\ landing' = IF landing = Null THEN Null ELSE [landing EXCEPT !.torn = TRUE]
    /\ UNCHANGED <<mode, link, steps, work>>

EndTeardown ==
    /\ ending.at = "cleared"
    /\ ending' = NotEnding
    /\ session' = [session EXCEPT !.ready = FALSE]
    /\ UNCHANGED <<vars, mode, link, paused, landing, log, steps, work>>

\* connect() to a new session, whatever the last one left in the buffer, or
\* reconnect() to the session kept; the message size is negotiated anew.
Connect ==
    /\ ~session.ready /\ ending.at = "none" /\ Works(StepWork)
    /\ \/ session' = [session EXCEPT !.current = session.made + 1, !.made = @ + 1, !.ready = TRUE]
       \/ session.current # 0 /\ session' = [session EXCEPT !.ready = TRUE]
    /\ link' = [open |-> TRUE, number |-> link.number + 1]
    /\ budget' \in Budgets
    /\ UNCHANGED <<buffer, pushed, limits, entered, mode, ending, paused, landing, log, steps>>

Answering == \E k \in DOMAIN steps :
    \/ SendStep(k)
    \/ RuntimeRuns(k)
    \/ \E r \in Replies : StepReply(k, r)
    \/ StepTimeout(k)
    \/ TellStep(k)

Next ==
    \/ \E i \in Inputs : PushCheck(i) \/ PushBrowser(i)
    \/ PushLand
    \/ \E t \in Tracks : PauseTrack(t)
    \/ ClearStepInputs
    \/ \E a \in Asks : BeginStep(a)
    \/ Answering
    \/ \E recoverable \in BOOLEAN : FailAll(recoverable)
    \/ ClosePeer
    \/ ClearState
    \/ EndTeardown
    \/ Connect

MaxSteps == MaxWork \div StepWork
Fairness == \A k \in 1..MaxSteps :
    /\ WF_allVars(k \in DOMAIN steps /\ SendStep(k))
    /\ WF_allVars(k \in DOMAIN steps /\ StepTimeout(k))
    /\ WF_allVars(k \in DOMAIN steps /\ TellStep(k))

Spec == StartExchange /\ [][Next]_allVars /\ Fairness

----------------------------------------------------------------------------
(* Properties.                                                             *)

\* What the host reads of an output is what the runtime sent, all of it: text without
\* its NULs on a native host, integers up to 2^53 in the browser (a larger one is the
\* double it rounds to there).
SameText(got, text) == got = IF Native THEN CString(text) ELSE text
SameNumber(got, n) == (Native \/ n <= Exact) => got = n
SameFile(got, f) ==
    /\ SameText(got.name, f.name) /\ SameText(got.content_type, f.content_type)
    /\ SameNumber(got.size, f.size)
SameFrame(got, f) ==
    /\ got.encoding = f.encoding /\ got.dtype = f.dtype /\ got.shape = f.shape
    /\ (IF Native THEN got.data ELSE FlattenSeq(got.data)) = f.data
    /\ got.metadata = f.metadata
    /\ IF f.time = Null THEN got.time = Null ELSE SameNumber(got.time, f.time)
SameTrack(got, t) ==
    /\ SameText(got.name, t.name) /\ got.kind = t.kind /\ got.rate = t.rate
    /\ Len(got.frames) = Len(t.frames)
    /\ \A j \in DOMAIN t.frames : SameFrame(got.frames[j], t.frames[j])
ReadWhole(got, r) ==
    /\ SameNumber(got.step, r.step) /\ got.elapsed = r.elapsed
    /\ IF r.error = Null THEN got.error = Null ELSE SameText(got.error, r.error)
    /\ Len(got.files) = Len(r.files)
    /\ \A i \in DOMAIN r.files : SameFile(got.files[i], r.files[i])
    /\ Len(got.tracks) = Len(r.tracks)
    /\ \A i \in DOMAIN r.tracks : SameTrack(got.tracks[i], r.tracks[i])

NotRun == {"step_refused", "step_not_ready", "step_command_failed",
           "MESSAGE_TOO_LARGE", "INVALID_STATE", "TRANSPORT_ERROR"}

\* What the host is told of a step is what became of it, whatever replies, timeouts
\* and teardowns crossed: what decides it is the runtime's answer to that very step,
\* or no answer at all; an output is of a step that ran, and is read whole; a step
\* told as refused, not ready, failed in a command, unsendable or invalid did not run,
\* unless the runtime itself answered it with an Error of that code, which passes
\* through unread; a failed step reads as nothing.
OutcomeTold == \A k \in DOMAIN steps : LET s == steps[k] IN
    s.phase = "decided" =>
      /\ s.answer # Null => s.answer.of = k
      /\ s.outcome = "output" => s.answer # Null /\ s.ran /\ ReadWhole(Read(s), s.answer.result)
      /\ s.outcome \in NotRun /\ s.ran =>
           s.answer # Null /\ s.answer.result.payload = "error" /\ s.answer.result.code = s.outcome
      /\ s.outcome # "output" /\ Native => Read(s).tracks = <<>> /\ Read(s).step = 0

\* held are the newest frames of all, and every one when at every push what had been
\* pushed by then fit one message.
Carries(held, all) ==
    LET frames == [n \in DOMAIN all |-> all[n].frame]
        Fits(n) == Cost(SubSeq(frames, 1, n), n) <= all[n].max IN
    /\ held = {n \in DOMAIN all : n > Len(all) - Cardinality(held)}
    /\ (\A n \in DOMAIN all : Fits(n)) => held = DOMAIN all

\* A frame rides the first step begun after it, and no other: a step that passes its
\* checks carries the newest frames since the last step that did or the last clear,
\* all of them when they fit one message; a step its checks refused took none; and a
\* frame of a session that disconnect() ended rides none, unless its push was under
\* way as the session ended.
FramesRideOnce ==
    /\ \A k \in DOMAIN steps : steps[k].phase = "begun" => Carries(steps[k].media, steps[k].offered)
    /\ Carries(Held, log)
    /\ \A n \in DOMAIN log : log[n].session \in session.ended => log[n].torn

\* Every step is told, whatever becomes of the connection: sent, it is answered, failed
\* or timed out; a step sent between a teardown's fail_all() and its close() only by
\* its timeout.
StepsEnd == \A k \in 1..MaxSteps :
    k \in DOMAIN steps ~> k \in DOMAIN steps /\ steps[k].phase = "told"
=============================================================================
