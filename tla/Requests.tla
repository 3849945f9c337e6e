------------------------------ MODULE Requests ------------------------------
(***************************************************************************)
(* What the client asks over HTTP (core/src/http.rs, error.rs, backoff.rs, *)
(* coordinator.rs, signaling.rs, auth.rs, recording.rs; the entry points   *)
(* of ffi/src/lib.rs): the session, its polls and its end; and the calls a *)
(* host makes beside it, a token, an upload, a clip and its download.      *)
(*                                                                         *)
(* A server answers every request, or the request is lost.  A wait is      *)
(* counted in units of 200 ms, the shortest one there is, and a session is *)
(* its number.  A behaviour has one client, one connect(), reconnect() or  *)
(* disconnect() of it at a time, and one call beside it, which runs while  *)
(* the client connects, is dropped, leaves and connects elsewhere.         *)
(***************************************************************************)
EXTENDS Naturals, Integers, Sequences, FiniteSets

CONSTANTS
    SessionPoll,    \* PollConfig::session(): longest delay and attempts
    SdpPoll,        \* PollConfig::sdp(), or the caller's max_sdp_attempts
    MaxDuration,    \* Duration::MAX
    Token,          \* what the auth provider yields: a bearer token or none
    Playlists,      \* what a playlist may hold: sequences of lines
    Hints,          \* what a Retry-After header may hold, Unreadable included
    Graces,         \* what ready_timeout_seconds may be; below zero is no bound
    Predictions,    \* predicted_ready_at_ms less now_ms(); below zero is past or none
    MaxSessions     \* bound: sessions that exist in a behaviour

ASSUME RequestBounds ==
    /\ SessionPoll.max \in Nat \ {0} /\ SessionPoll.attempts \in Nat \ {0}
    /\ SdpPoll.max \in Nat \ {0} /\ SdpPoll.attempts \in Nat \ {0}
    /\ MaxDuration \in Nat /\ MaxSessions \in Nat
    /\ Hints \subseteq Int /\ Graces \subseteq Int /\ Predictions \subseteq Int

\* A playlist's line: a map and a segment have an origin, home's or the storage's.
Lines == [kind : {"blank", "comment", "map", "segment"}, origin : {"none", "home", "storage"},
          absolute : BOOLEAN, fragment : BOOLEAN]

ASSUME TokenAssumption == Token \in {"bearer", "none"}
ASSUME PlaylistsAssumption == Playlists \subseteq Seq(Lines)

None == [none |-> TRUE]
Unreadable == -1        \* no header, an HTTP-date, less than zero
NoBound == -1
Least(a, b) == IF a < b THEN a ELSE b

----------------------------------------------------------------------------
(* Errors: CoreError, with the code of the variants that carry one.        *)

Error(variant) == [variant |-> variant, status |-> 0, code |-> "", retry |-> Unreadable]
Ok == Error("Ok")
StatusError(s, retry) == [Error("Status") EXCEPT !.status = s, !.retry = retry]
Recording(code) == [Error("Recording") EXCEPT !.code = code]

----------------------------------------------------------------------------
(* HTTP: a response, or a request that was lost.                           *)

Statuses == {200, 202, 426, 503}
Lost == [status |-> 0, hint |-> Unreadable]

\* parse_retry_after_ms(): the delta-seconds form only, finite, not negative.
ParseRetryAfter(h) == IF h >= 0 THEN h ELSE Unreadable

IsSuccess(r) == r.status \in 200..299

\* check_status(), and the transport's own failure before it.
CheckStatus(r) ==
    CASE r.status = 0 -> Error("Http")
      [] IsSuccess(r) -> None
      [] r.status \in {426, 501} -> Error("VersionMismatch")
      [] OTHER -> StatusError(r.status, ParseRetryAfter(r.hint))

\* A response worth telling apart where only its class matters.
Answer == {Lost} \union {[status |-> s, hint |-> Unreadable] : s \in Statuses}

----------------------------------------------------------------------------
VARIABLES
    local,     \* CoordinatorConfig::local
    served,    \* sessions the platform has: their states; locally, the last is served
    client,    \* the connection under way: where it is, which session, its poll
    cache,     \* CoordinatorClient::local_session
    known,     \* history: the sessions this client created or asked for, and has not ended
    call,      \* the host's other call: its kind, where it is, its arguments, its file
    sent       \* the request the last step made: its destination and credential

connection == <<local, served, client, cache, known>>
vars == <<local, served, client, cache, known, call, sent>>

NoFile == [there |-> FALSE, parts |-> <<>>]

Nobody == [to |-> "nobody", credential |-> "none"]
Silent == sent' = Nobody
Sends(to, credential) == sent' = [to |-> to, credential |-> credential]

\* headers(): the provider's token when it has one; local_headers() has none.
Credential == IF local THEN "none" ELSE Token

----------------------------------------------------------------------------
(* The session: create_session(), poll_session_ready(), the SDP answer,    *)
(* the teardowns and terminate_session().                                  *)

\* asked is State::session_id, session the one whose answer to the poll the
\* connection goes by, owner created_session, again a reconnect(), up a Ready status.
Idle == [at |-> "idle", asked |-> 0, session |-> 0, owner |-> FALSE, again |-> FALSE, up |-> FALSE,
         attempt |-> 0, delay |-> 0]

Backoff == 1
\* Backoff: the first delay is one unit, then it doubles up to the longest.
NextDelay(delay, poll) == Least(2 * delay, poll.max)

\* A new connection: to the session it creates, or to the one it was given.
Polls(s, owner) == [Idle EXCEPT !.at = "polling", !.asked = s, !.owner = owner, !.attempt = 1,
                                !.delay = Backoff]
\* The session the poll settles on, and what comes next: the offer and its answer.
Settled(s) == [client EXCEPT !.at = "answering", !.session = s, !.attempt = 1, !.delay = Backoff]
\* The attempt failed: connect() gives the session up, reconnect() keeps it.
Failed == [client EXCEPT !.at = IF client.again THEN "losing" ELSE "leaving", !.attempt = 0, !.delay = 0]

\* connect() without a session: POST /sessions, or POST /start_session.  One that
\* fails tears down what an earlier connection has left.
CreateSession ==
    /\ client.at = "idle" /\ Len(served) < MaxSessions
    /\ Sends("coordinator", Credential)
    /\ \/ \E r \in Answer :
            /\ CheckStatus(r) = None
            /\ served' = Append(served, "starting")
            /\ client' = Polls(Len(served'), TRUE)
            /\ cache' = IF local THEN Len(served') ELSE cache
            /\ known' = known \union {Len(served')}
       \/ /\ \E r \in Answer : CheckStatus(r) # None
          /\ client' = Failed
          /\ UNCHANGED <<served, cache, known>>
    /\ UNCHANGED <<local, call>>

\* connect() to a session another client made, or one left in an earlier connection.
JoinSession ==
    /\ client.at = "idle"
    /\ \E s \in 1..Len(served) : client' = Polls(s, FALSE) /\ known' = known \union {s}
    /\ Silent /\ UNCHANGED <<local, served, cache, call>>

\* Locally, the session in the cache is the answer, whichever was asked for.
CachedSession == client' = Settled(cache) /\ Silent /\ UNCHANGED cache

\* local_get_session(): the id is compared, a session that ended is refused.
Adoptable(s) == s = client.asked /\ served[s] # "closed"
LocalGetSession ==
    /\ Sends("coordinator", Credential)
    /\ \E r \in Answer :
         IF CheckStatus(r) = None /\ Adoptable(Len(served))
         THEN client' = Settled(Len(served)) /\ cache' = Len(served)
         ELSE client' = Failed /\ UNCHANGED cache

\* One GET /sessions/{id}: ended, ready, or not yet, which sleeps and counts.
GetSession ==
    /\ Sends("coordinator", Credential)
    /\ UNCHANGED cache
    /\ \E r \in Answer :
         client' = IF CheckStatus(r) # None \/ served[client.asked] = "closed" THEN Failed
                   ELSE IF served[client.asked] = "ready" THEN Settled(client.asked)
                   ELSE [client EXCEPT !.at = "poll_sleep"]

PollSessionReady ==
    /\ client.at = "polling"
    /\ IF ~local THEN GetSession ELSE IF cache # 0 THEN CachedSession ELSE LocalGetSession
    /\ UNCHANGED <<local, served, known, call>>

\* poll_sdp_answer(): a 202 sleeps and counts, any other status settles it.
PollSdpAnswer ==
    /\ client.at = "answering"
    /\ Sends("coordinator", Token)
    /\ \E r \in Answer :
         client' = IF r.status = 202 THEN [client EXCEPT !.at = "answer_sleep"]
                   ELSE IF CheckStatus(r) # None THEN Failed
                   ELSE [client EXCEPT !.at = "ready", !.up = TRUE, !.attempt = 0, !.delay = 0]
    /\ UNCHANGED <<local, served, cache, known, call>>

\* The sleep is over: another attempt, or after the last one a Timeout.
GivesUp(attempt, poll) == attempt >= poll.attempts
Awake(poll, at) ==
    client' = IF GivesUp(client.attempt, poll) THEN Failed
              ELSE [client EXCEPT !.at = at, !.attempt = @ + 1, !.delay = NextDelay(@, poll)]
Wake ==
    /\ \/ client.at = "poll_sleep" /\ Awake(SessionPoll, "polling")
       \/ client.at = "answer_sleep" /\ Awake(SdpPoll, "answering")
    /\ Silent /\ UNCHANGED <<local, served, cache, known, call>>

\* ControlCorrelator::fail_all(): a clip that is waited for is refused.
Rejected ==
    IF call.at = "awaiting"
    THEN [call EXCEPT !.at = "resolved", !.result = [Error("ControlRequest") EXCEPT !.code = "DISCONNECTED"]]
    ELSE call

\* disconnect(): a teardown that gives the session up, whatever the status.
Disconnect ==
    /\ client.at \in {"idle", "ready"}
    /\ client' = [client EXCEPT !.at = "leaving"]
    /\ call' = Rejected
    /\ Silent /\ UNCHANGED <<local, served, cache, known>>

\* A recoverable teardown: the connection was lost, or reconnect() replaces it.
Drop ==
    /\ client.at = "ready"
    /\ client' = [client EXCEPT !.at = "losing"]
    /\ call' = Rejected
    /\ Silent /\ UNCHANGED <<local, served, cache, known>>

\* It leaves the session, who created it, and locally what is cached.
SessionKept ==
    /\ client.at = "losing"
    /\ client' = [client EXCEPT !.at = "idle", !.again = FALSE, !.up = FALSE]
    /\ Silent /\ UNCHANGED <<local, served, cache, known, call>>

\* reconnect(): the offer and its answer at once, for the session that was kept.
Reconnect ==
    /\ client.at = "idle" /\ client.asked # 0
    /\ client' = [client EXCEPT !.at = "answering", !.again = TRUE, !.attempt = 1, !.delay = Backoff]
    /\ Silent /\ UNCHANGED <<local, served, cache, known, call>>

\* Mutant: the local session stays cached.
KeepsCache(kept) == kept
ClearedCache(kept) == IF local THEN 0 ELSE kept
\* A teardown that gives the session up: the creator terminates it, and a failure
\* to is only logged.  Locally the cache is cleared even if the request was lost.
TerminateSession ==
    /\ client.at = "leaving"
    /\ client' = Idle
    /\ IF client.owner
       THEN /\ Sends("coordinator", Credential)
            /\ cache' = ClearedCache(cache)
            /\ known' = known \ {client.asked}
            /\ \/ served' = [served EXCEPT ![client.asked] = "closed"]
               \/ UNCHANGED served
       ELSE Silent /\ UNCHANGED <<cache, served, known>>
    /\ UNCHANGED <<local, call>>

\* The platform: a session starts running, ends, or is made by another client.
Platform ==
    /\ \/ \E s \in 1..Len(served) :
            \/ served[s] = "starting" /\ served' = [served EXCEPT ![s] = "ready"]
            \/ served[s] # "closed" /\ served' = [served EXCEPT ![s] = "closed"]
       \/ Len(served) < MaxSessions /\ served' = Append(served, "ready")
    /\ Silent /\ UNCHANGED <<local, client, cache, known, call>>

----------------------------------------------------------------------------
(* A host's call: its completion fires once, with what it resolved to.     *)

\* status() = Ready, which it is until a teardown ends, and status() # Disconnected.
Ready == client.up
Connected == client.at # "idle"

Started(kind, at) ==
    [kind |-> kind, at |-> at, result |-> Ok, session |-> 0, left |-> NoBound, handle |-> FALSE, todo |-> <<>>,
     asked |-> None, file |-> NoFile, kept |-> FALSE]
NoCall == Started("none", "none")

Resolved(result) ==
    [call EXCEPT !.at = "resolved", !.result = result, !.left = NoBound, !.todo = <<>>,
                 !.handle = FALSE]

\* Completion::resolve(), on the blocking pool when no handle owns the call.
Fire ==
    /\ call.at = "resolved"
    /\ call' = [NoCall EXCEPT !.at = "done"]
    /\ Silent /\ UNCHANGED connection

\* An argument is refused before anything is spawned.
Refused(kind) ==
    /\ call.at = "none"
    /\ call' = [Started(kind, "resolved") EXCEPT !.result = Error("InvalidState")]
    /\ Silent /\ UNCHANGED connection

----------------------------------------------------------------------------
(* fetch_jwt().                                                            *)

\* Whether a list of models and a number of sessions are given.
TokenRequests == [models : BOOLEAN, sessions : BOOLEAN]

\* TokenRequest::body(): the detail that scopes the token, or nothing at all.
Scoped(q) == q.models \/ q.sessions
TokenBody(q) ==
    [scope |-> IF ~Scoped(q) THEN "open" ELSE IF q.models THEN "models" ELSE "all",
     bound |-> Scoped(q) /\ q.sessions]

reactor_fetch_jwt ==
    \/ Refused("fetch_jwt")                    \* a null url or key, or an unknown option
    \/ /\ call.at = "none"
       /\ \E q \in TokenRequests :
            call' = [Started("fetch_jwt", "asking") EXCEPT !.asked = q]
       /\ Silent /\ UNCHANGED connection

FetchJwt ==
    /\ call.kind = "fetch_jwt" /\ call.at = "asking"
    /\ sent' = [to |-> "tokens", credential |-> "key", asked |-> call.asked,
                body |-> TokenBody(call.asked)]
    /\ \E r \in Answer, empty \in BOOLEAN :
         LET e == CheckStatus(r) IN
         call' = [Resolved(IF e # None THEN e ELSE IF empty THEN Error("Decode") ELSE Ok)
                    EXCEPT !.asked = None]
    /\ UNCHANGED connection

----------------------------------------------------------------------------
(* upload_file() and upload_bytes().                                       *)

reactor_upload ==
    \/ (~Ready /\ Refused("upload"))
    \/ Refused("upload")                       \* an empty file
    \/ /\ call.at = "none" /\ Ready
       /\ call' = [Started("upload", "asking") EXCEPT !.session = client.asked]
       /\ Silent /\ UNCHANGED connection

CreateUpload ==
    /\ call.kind = "upload" /\ call.at = "asking"
    /\ Sends("coordinator", Token)
    /\ \E r \in Answer :
         call' = IF CheckStatus(r) # None THEN Resolved(CheckStatus(r))
                 ELSE [call EXCEPT !.at = "putting"]
    /\ UNCHANGED connection

\* The presigned PUT carries no credential.  The notice goes to whichever
\* session the client is connected to by then.
PutUpload ==
    /\ call.kind = "upload" /\ call.at = "putting"
    /\ \E r \in Answer :
         LET e == CheckStatus(r) IN
         /\ call' = Resolved(IF e # None THEN e ELSE Ok)
         /\ sent' = [to |-> "storage", credential |-> "none", uploadedTo |-> call.session,
                     told |-> IF e = None /\ Ready THEN client.asked ELSE 0]
    /\ UNCHANGED connection

----------------------------------------------------------------------------
(* request_clip() and request_recording() (Correlation has the correlator).*)

\* clip_failed_code(): the reason of a ClipFailed is matched for the recorder.
ClipFailed == {Recording(code) : code \in {"RECORDER_DISABLED", "INTERNAL_ERROR"}}
\* An Error reply's own code is handed on; another reply cannot be one to a clip.
ClipResults == {Ok, Recording("PLATFORM"), Error("Decode")} \union ClipFailed

\* A length that is none is refused, then a status that is not Ready, then what the
\* channel does not take.
reactor_request_clip ==
    /\ call.at = "none"
    /\ \/ \E e \in {Recording("BAD_REQUEST")} \union
                     (IF Ready THEN {Error("InvalidState"), Error("Peer")} ELSE {Recording("INVALID_STATE")}) :
            call' = [Started("clip", "resolved") EXCEPT !.result = e]
       \/ Ready /\ call' = Started("clip", "awaiting")
    /\ Silent /\ UNCHANGED connection

\* The reply, or the timer, whose error is a recorder's with the code of a timeout.
DispatchClipRequest ==
    /\ call.at = "awaiting"
    /\ \E e \in ClipResults \union {Recording("REQUEST_TIMEOUT")} : call' = Resolved(e)
    /\ Silent /\ UNCHANGED connection

----------------------------------------------------------------------------
(* download_clip().                                                        *)

\* readiness_timeout(): a NaN is refused, less than zero and infinity are no
\* bound, and more than a Duration holds is all that it holds.
ReadinessTimeout(g) == IF g >= 0 THEN Least(g, MaxDuration) ELSE NoBound
Saturating(a, b) == Least(a + b, MaxDuration)
Ahead(p) == IF p >= 0 THEN Least(p, MaxDuration) ELSE 0

\* The grace runs from the prediction while that is ahead.
Remaining(g, p) ==
    IF ReadinessTimeout(g) = NoBound THEN NoBound ELSE Saturating(ReadinessTimeout(g), Ahead(p))

reactor_download_clip ==
    \/ Refused("download")                     \* a null path or url, or a NaN
    \/ /\ call.at = "none"
       /\ \E g \in Graces, p \in Predictions, h \in BOOLEAN :
            call' = [Started("download", "opening") EXCEPT
                       !.left = Remaining(g, p), !.handle = h]
       /\ Silent /\ UNCHANGED connection

\* A failed download removes its file, when it can.
RemoveFile(removed) == [NoFile EXCEPT !.there = ~removed]
Fails(e) ==
    \E removed \in BOOLEAN :
       call' = [Resolved(e) EXCEPT !.file = RemoveFile(removed), !.kept = ~removed,
                                   !.asked = None]

OpenFile ==
    /\ call.kind = "download" /\ call.at = "opening"
    /\ \/ call' = [call EXCEPT !.at = "asking", !.file.there = TRUE]
       \/ call' = Resolved(Error("Http"))
    /\ Silent /\ UNCHANGED connection

MinRetryDelay == 1
MaxRetryDelay == 10
\* Mutant: a hint of no time at all is taken at its word.
Unclamped(h) == IF h >= 0 THEN Least(h, MaxRetryDelay) ELSE MaxRetryDelay
\* retry_delay(): a readable hint, clamped, or the longest delay.
RetryDelay(h) ==
    IF h < 0 THEN MaxRetryDelay
    ELSE IF h < MinRetryDelay THEN MinRetryDelay ELSE Least(h, MaxRetryDelay)

\* A finite hint longer than a Duration panics in the task: no completion follows.
Overflows(h) == h > MaxDuration

\* A 202: the session must be alive, the budget not used up; then sleep.
NotYet(h) ==
    IF call.handle /\ ~Connected THEN Fails(Error("Timeout"))
    ELSE IF Overflows(h) THEN call' = [call EXCEPT !.at = "panicked"]
    ELSE IF call.left = NoBound THEN call' = [call EXCEPT !.at = "sleeping"]
    ELSE IF call.left = 0 THEN Fails(Error("Timeout"))
    ELSE call' = [call EXCEPT !.at = "sleeping", !.left = @ - Least(RetryDelay(h), @)]

\* parse_playlist(): the last map line with a URI first, then the segments;
\* fragments cannot do without the init segment.
InitLines(p) == {i \in DOMAIN p : p[i].kind = "map" /\ p[i].origin # "none"}
IsSegment(line) == line.kind = "segment"
IsFragment(line) == line.fragment
\* The segments among the first lines, one line after the other.
Gathered(p) ==
    LET upto[n \in 0..Len(p)] ==
          IF n = 0 THEN <<>>
          ELSE IF IsSegment(p[n]) THEN Append(upto[n - 1], p[n]) ELSE upto[n - 1]
    IN upto
Segments(p) == Gathered(p)[Len(p)]
Unplayable(p) ==
    \/ Segments(p) = <<>>
    \/ InitLines(p) = {} /\ \E i \in DOMAIN p : IsSegment(p[i]) /\ IsFragment(p[i])
InitSegment(p) ==
    IF InitLines(p) = {} THEN <<>>
    ELSE <<p[CHOOSE i \in InitLines(p) : \A j \in InitLines(p) : j <= i]>>
\* Mutant: the fragments come first.
InitLast(p) == Segments(p) \o InitSegment(p)
ParsePlaylist(p) == InitSegment(p) \o Segments(p)

\* clip_segment_requests(): with the playlist the budget and the handle are done with.
AskPlaylist ==
    /\ call.kind = "download" /\ call.at = "asking"
    /\ Sends("home", Token)
    /\ \/ \E h \in Hints : NotYet(h)
       \/ \E r \in Answer : CheckStatus(r) # None /\ Fails(CheckStatus(r))
       \/ \E p \in Playlists :
            IF Unplayable(p) THEN Fails(Error("Decode"))
            ELSE call' = [call EXCEPT !.at = "fetching", !.todo = ParsePlaylist(p),
                                      !.asked = [playlist |-> p], !.left = 0, !.handle = FALSE]
    /\ UNCHANGED connection

WakeDownload ==
    /\ call.kind = "download" /\ call.at = "sleeping"
    /\ call' = [call EXCEPT !.at = "asking"]
    /\ Silent /\ UNCHANGED connection

\* join_url(): a segment that is not absolute is where the playlist is.
JoinUrl(segment) == IF segment.absolute THEN segment.origin ELSE "home"
\* Mutant: every segment gets the token.
EveryOrigin(origin) == TRUE
SameOrigin(origin) == origin = "home"

\* One segment: asked with the token only at the playlist's origin, and written.
FetchSegment ==
    /\ call.kind = "download" /\ call.at = "fetching" /\ call.todo # <<>>
    /\ LET origin == JoinUrl(Head(call.todo)) IN
       Sends(origin, IF SameOrigin(origin) THEN Token ELSE "none")
    /\ \E r \in Answer :
         IF CheckStatus(r) # None THEN Fails(CheckStatus(r))
         ELSE \/ call' = [call EXCEPT !.todo = Tail(@),
                                       !.file.parts = Append(@, Head(call.todo))]
              \/ Fails(Error("Http"))
    /\ UNCHANGED connection

Flush ==
    /\ call.kind = "download" /\ call.at = "fetching" /\ call.todo = <<>>
    /\ \/ call' = Resolved(Ok)
       \/ Fails(Error("Http"))
    /\ Silent /\ UNCHANGED connection

----------------------------------------------------------------------------
Init ==
    /\ local \in BOOLEAN
    /\ served = <<>> /\ client = Idle /\ cache = 0 /\ known = {}
    /\ call = NoCall
    /\ sent = Nobody

Connection == CreateSession \/ JoinSession \/ PollSessionReady \/ PollSdpAnswer \/ Wake
                \/ Disconnect \/ TerminateSession \/ Drop \/ SessionKept \/ Reconnect
Download == OpenFile \/ AskPlaylist \/ WakeDownload \/ FetchSegment \/ Flush
Task == FetchJwt \/ CreateUpload \/ PutUpload \/ DispatchClipRequest \/ Download \/ Fire
Host == reactor_fetch_jwt \/ reactor_upload \/ reactor_request_clip \/ reactor_download_clip

Next == Connection \/ Platform \/ Host \/ Task

\* Every request is answered or lost, every sleep ends, spawned tasks run on.
Fairness ==
    /\ WF_vars(Task)
    /\ WF_vars(PollSessionReady \/ PollSdpAnswer \/ Wake \/ TerminateSession \/ SessionKept)

Spec == Init /\ [][Next]_vars /\ Fairness

----------------------------------------------------------------------------
\* After as many parts as lead, a file's parts are the lines of a playlist that are
\* segments: every one of them, each once and in the playlist's order.
SegmentsFollow(parts, lead, lines) ==
    LET wanted == {i \in DOMAIN lines : IsSegment(lines[i])} IN
    \E from \in [1..(Len(parts) - lead) -> wanted] :
      /\ \A i \in wanted : \E k \in DOMAIN from : from[k] = i
      /\ \A k, m \in DOMAIN from : k < m => from[k] < from[m]
      /\ \A k \in DOMAIN from : parts[lead + k] = lines[from[k]]

\* The parts are the last map line with a URI, if there is one, and then the segments.
\* Fragments are parsed against a map, so they cannot be without one.
IsWhole(parts, lines) ==
    IF InitLines(lines) = {}
    THEN /\ SegmentsFollow(parts, 0, lines)
         /\ \A i \in DOMAIN parts : ~IsFragment(parts[i])
    ELSE /\ SegmentsFollow(parts, 1, lines)
         /\ \E i \in InitLines(lines) : parts[1] = lines[i] /\ \A j \in InitLines(lines) : j <= i

\* A download that succeeded has left the whole clip in its file, part for part what
\* the playlist names; one that failed at any part has left no file, unless removing
\* it failed too (download_clip_to_file(), write_segments(), parse_playlist()).
WholeClipOrNone ==
    call.kind = "download" /\ call.at = "resolved" =>
      /\ call.result = Ok => call.file.there /\ IsWhole(call.file.parts, call.asked.playlist)
      /\ call.result # Ok => ~call.file.there \/ call.kept

\* Credentials stay where they belong: the API key goes to the token endpoint
\* alone, the token to the coordinator and to the playlist's own origin, and a
\* request to mint a scoped or bound token is never sent as an open one.
CredentialsStayHome ==
    /\ sent.credential = "bearer" => sent.to \in {"coordinator", "home"}
    /\ sent.credential = "key" <=> sent.to = "tokens"
    /\ sent.to = "tokens" =>
         /\ sent.asked.models => sent.body.scope = "models"
         /\ sent.asked.sessions => sent.body.scope # "open" /\ sent.body.bound

\* A connection goes by the answer of the session it asked for.  In local mode alone it
\* may go by another one's, the one in the cache, and that is one this client created or
\* asked for and has not ended since: it was dropped from it, or left it to its creator.
\* It is never one the client ended, nor another one that the runtime serves, and who
\* created a session always has its own (poll_session_ready(), local_get_session(),
\* terminate_session(); teardown() keeps the session when it is recoverable).
AnswersTheAsked ==
    client.session # 0 /\ client.session # client.asked =>
        local /\ ~client.owner /\ client.session \in known

\* What is bounded ends: a poll for a session or an answer gives up, and every
\* call completes, a clip sent while a teardown is under way and a download with a
\* budget or whose session is gone included, whatever the server's hints but for one
\* that no Duration holds.
WaitsEnd ==
    /\ (client.at \in {"polling", "poll_sleep", "answering", "answer_sleep"})
         ~> (client.at \in {"idle", "ready"})
    /\ (call.kind # "none" /\ (call.kind = "download" => call.left # NoBound))
         ~> (call.at \in {"done", "panicked"})
    /\ [](call.kind = "download" /\ call.handle => <>(Connected \/ call.at \in {"done", "panicked"}))
=============================================================================
