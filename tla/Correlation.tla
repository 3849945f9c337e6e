---------------------------- MODULE Correlation ----------------------------
(***************************************************************************)
(* Request/reply correlation on the data and control channels: the maps of *)
(* DataCorrelator and ControlCorrelator, the calls awaiting a reply, the   *)
(* pump that resolves them, their timeouts, callers that are dropped       *)
(* half-way, and the fail_all() of a teardown.                             *)
(*                                                                         *)
(* Request ids come from a counter and are never reused, so a request is   *)
(* its id.  A command forgets itself when its future is dropped            *)
(* (ForgetOnDrop); steps and control requests do not.  A reply is "ok" (to *)
(* a step: its StepResult, whatever it says) or "error", an Error payload. *)
(* One action is one critical section of a map, or one poll of a future.   *)
(***************************************************************************)
EXTENDS Naturals

CONSTANTS
    Commands, Steps, Controls,  \* the requests, by kind
    MaxTeardowns                \* bound: times the connection is torn down

ASSUME KindsAssumption ==
    Commands \cap Steps = {} /\ Commands \cap Controls = {} /\ Steps \cap Controls = {}
ASSUME TeardownsAssumption == MaxTeardowns \in Nat

Requests == Commands \cup Steps \cup Controls

VARIABLES
    pending,    \* the two maps: requests with a sender waiting
    arrivals,   \* DataCorrelator.arrivals
    receivers,  \* requests whose receiver is alive
    slot,       \* the oneshot of each request: what was sent through it
    pc,         \* where each call is
    outcome,    \* what each call returned
    answered,   \* the reply the runtime sent to each request
    found,      \* history: where the call was when its reply came
    emitted,    \* requests an error event was published for
    doomed,     \* requests fail_all() took and has not rejected yet
    teardown,   \* how far the teardown is
    teardowns   \* teardowns so far

maps == <<pending, arrivals, doomed>>
oneshots == <<receivers, slot>>
replies == <<answered, found>>
vars == <<maps, oneshots, pc, outcome, replies, emitted, teardown, teardowns>>

Labels == {"idle", "checked", "begun", "refused", "awaiting", "late", "abandoned",
           "returning", "done"}
Unsent == {"too_large", "send_failed"}
Results == {"none", "ok", "error", "disconnected", "timeout", "dropped"} \cup Unsent

Init ==
    /\ pending = {} /\ arrivals = {} /\ doomed = {}
    /\ receivers = {}
    /\ slot = [r \in Requests |-> "none"]
    /\ pc = [r \in Requests |-> "idle"]
    /\ outcome = [r \in Requests |-> "none"]
    /\ answered = [r \in Requests |-> "none"]
    /\ found = [r \in Requests |-> "none"]
    /\ emitted = {}
    /\ teardown = "up"
    /\ teardowns = 0

Step(r, from, to) == pc[r] = from /\ pc' = [pc EXCEPT ![r] = to]
Give(r, result) == outcome' = [outcome EXCEPT ![r] = result]

----------------------------------------------------------------------------
(* A call: send_command(), send_step() or control_request().               *)

\* ensure_ready(): until the teardown has set the status, the client is ready.
Check(r) ==
    /\ Step(r, "idle", "checked")
    /\ teardown # "down"
    /\ UNCHANGED <<maps, oneshots, outcome, replies, emitted, teardown, teardowns>>

Begin(r) ==
    /\ Step(r, "checked", "begun")
    /\ pending' = pending \cup {r}
    /\ receivers' = receivers \cup {r}
    /\ UNCHANGED <<arrivals, doomed, slot, outcome, replies, emitted, teardown, teardowns>>

Send(r) ==
    /\ Step(r, "begun", "awaiting")
    /\ teardown \in {"up", "failing", "failed"}
    /\ UNCHANGED <<maps, oneshots, outcome, replies, emitted, teardown, teardowns>>

\* The message outgrows the channel, or the channel does not take it.
SendFails(r) ==
    /\ Step(r, "begun", "refused")
    /\ \E failure \in Unsent : Give(r, failure)
    /\ UNCHANGED <<maps, oneshots, replies, emitted, teardown, teardowns>>

\* The oneshot is polled before the timer: a result that is there wins.
Receive(r) ==
    /\ Step(r, "awaiting", "returning")
    /\ slot[r] # "none"
    /\ Give(r, slot[r])
    /\ receivers' = receivers \ {r}
    /\ UNCHANGED <<maps, slot, replies, emitted, teardown, teardowns>>

\* Mutant: a request's timer runs only while the connection is up.
ExpiresConnected(r) == slot[r] = "none" /\ teardown = "up"
\* select() polls the oneshot first, and the timer whatever became of the peer.
Expires(r) == slot[r] = "none"

\* The timer won the poll; the receiver may be dropped by now or not, and the
\* request is not yet forgotten.
TimeOut(r) ==
    /\ Step(r, "awaiting", "late")
    /\ Expires(r)
    /\ Give(r, "timeout")
    /\ receivers' \in {receivers, receivers \ {r}}
    /\ UNCHANGED <<maps, slot, replies, emitted, teardown, teardowns>>

\* The caller drops the call's future: its receiver first, then its guard.
Drop(r) ==
    /\ Step(r, "awaiting", "abandoned")
    /\ Give(r, "dropped")
    /\ receivers' = receivers \ {r}
    /\ UNCHANGED <<maps, slot, replies, emitted, teardown, teardowns>>

\* Who cancels: a call that failed to send or timed out, and a command's guard.
Forgets(r) == pc[r] \in {"late", "refused"} \/ r \in Commands

\* cancel(): the pending map first, the arrivals after it.
Cancel(r) ==
    /\ pc[r] \in {"late", "refused", "abandoned"}
    /\ pc' = [pc EXCEPT ![r] = "returning"]
    /\ pending' = IF Forgets(r) THEN pending \ {r} ELSE pending
    /\ receivers' = receivers \ {r}
    /\ UNCHANGED <<arrivals, doomed, slot, outcome, replies, emitted, teardown, teardowns>>

\* Mutant: only a command that succeeded takes its arrival back.
TakesIfOk(r) == IF outcome[r] = "ok" THEN {r} ELSE {}
\* take_arrival(), which commands alone call, or the second half of cancel().
Takes(r) == IF r \in Commands \/ outcome[r] \in Unsent \cup {"timeout"} THEN {r} ELSE {}

\* send_pending() publishes the error it is about to return, but for a message that was
\* too large; control_request() publishes nothing.
Announces(r) == r \notin Controls /\ outcome[r] = "send_failed"

Return(r) ==
    /\ Step(r, "returning", "done")
    /\ arrivals' = arrivals \ Takes(r)
    /\ emitted' = IF Announces(r) THEN emitted \cup {r} ELSE emitted
    /\ UNCHANGED <<pending, doomed, oneshots, outcome, replies, teardown, teardowns>>

----------------------------------------------------------------------------
(* Replies.                                                                *)

\* The reply says when it arrived: every reply on the data channel but a
\* step's result, which goes to its call alone.
Notes(r, reply) == r \in Commands \/ (r \in Steps /\ reply = "error")

\* Mutant: an error is published whether or not a call was given it.
PublishesAlways(r, reply) == r \notin Controls /\ reply = "error"
\* An Error nobody was waiting for is published; a late step result and a
\* late control reply are dropped.
Publishes(r, reply) == r \notin Controls /\ reply = "error" /\ r \notin pending

\* handle_message_at(), under the lock of the pending map throughout: the
\* arrival is noted, the reply sent, and the arrival removed again when no
\* receiver is left.
Reply(r, reply) ==
    /\ pc[r] \notin {"idle", "checked", "begun", "refused"}
    /\ outcome[r] \notin Unsent /\ answered[r] = "none"
    /\ teardown \in {"up", "failing", "failed"}
    /\ answered' = [answered EXCEPT ![r] = reply]
    /\ found' = [found EXCEPT ![r] = pc[r]]
    /\ pending' = pending \ {r}
    /\ slot' = IF r \in pending \cap receivers THEN [slot EXCEPT ![r] = reply] ELSE slot
    /\ arrivals' = IF r \in pending \cap receivers /\ Notes(r, reply)
                     THEN arrivals \cup {r} ELSE arrivals
    /\ emitted' = IF Publishes(r, reply) THEN emitted \cup {r} ELSE emitted
    /\ UNCHANGED <<doomed, receivers, pc, outcome, teardown, teardowns>>

----------------------------------------------------------------------------
(* The teardown: fail_all() on both maps, close, status; then a reconnect. *)

FailAll ==
    /\ teardown = "up" /\ teardowns < MaxTeardowns
    /\ teardown' = "failing"
    /\ teardowns' = teardowns + 1
    /\ doomed' = pending
    /\ pending' = {}
    /\ UNCHANGED <<arrivals, oneshots, pc, outcome, replies, emitted>>

Reject(r) ==
    /\ teardown = "failing" /\ r \in doomed
    /\ doomed' = doomed \ {r}
    /\ slot' = IF r \in receivers THEN [slot EXCEPT ![r] = "disconnected"] ELSE slot
    /\ UNCHANGED <<pending, arrivals, receivers, pc, outcome, replies, emitted,
                   teardown, teardowns>>

AllRejected ==
    /\ teardown = "failing" /\ doomed = {}
    /\ teardown' = "failed"
    /\ UNCHANGED <<maps, oneshots, pc, outcome, replies, emitted, teardowns>>

Close ==
    /\ teardown \in {"failed", "closed"}
    /\ teardown' = IF teardown = "failed" THEN "closed" ELSE "down"
    /\ UNCHANGED <<maps, oneshots, pc, outcome, replies, emitted, teardowns>>

Reconnect ==
    /\ teardown = "down"
    /\ teardown' = "up"
    /\ UNCHANGED <<maps, oneshots, pc, outcome, replies, emitted, teardowns>>

----------------------------------------------------------------------------
Calling(r) == Begin(r) \/ Send(r) \/ SendFails(r) \/ Receive(r) \/ TimeOut(r)
              \/ Cancel(r) \/ Return(r)
Teardown == FailAll \/ (\E r \in Requests : Reject(r)) \/ AllRejected \/ Close \/ Reconnect

Next ==
    \/ \E r \in Requests :
         \/ Check(r) \/ Calling(r) \/ Drop(r)
         \/ \E reply \in {"ok", "error"} : Reply(r, reply)
    \/ Teardown

\* Calls are polled and timers fire; nobody owes a reply.
Fairness == \A r \in Requests : WF_vars(Calling(r))

Spec == Init /\ [][Next]_vars /\ Fairness

----------------------------------------------------------------------------
(* Properties.                                                             *)

\* Every variable keeps its type.
TypeOK ==
    /\ pending \subseteq Requests
    /\ arrivals \subseteq Commands \cup {r \in Steps : answered[r] = "error"}
    /\ doomed \subseteq Requests
    /\ receivers \subseteq Requests
    /\ slot \in [Requests -> {"none", "ok", "error", "disconnected"}]
    /\ pc \in [Requests -> Labels]
    /\ outcome \in [Requests -> Results]
    /\ answered \in [Requests -> {"none", "ok", "error"}]
    /\ found \in [Requests -> Labels \cup {"none"}]
    /\ emitted \subseteq Commands \cup Steps
    /\ teardown \in {"up", "failing", "failed", "closed", "down"}
    /\ teardowns \in Nat

\* A finished call leaves nothing behind in the correlators, however it ended
\* and whatever raced its end: a reply, a timeout, a dropped future, a teardown.
\* (Steps and control requests have no guard: dropped, they stay pending, and
\* the arrival of an Error sent to a step is never taken.)
NoLeftovers ==
    /\ \A r \in arrivals : pc[r] = "done" => r \in Steps /\ answered[r] = "error"
    /\ \A r \in pending : pc[r] = "done" => r \notin Commands /\ outcome[r] = "dropped"

\* An error reply is not reported twice, to the call and as an error event
\* (HandledMessage::correlated: "would double-report it").  A send that fails is: it is
\* returned, and published unless the message was too large.
NotReportedTwice == \A r \in emitted : outcome[r] # "error" /\ slot[r] # "error"

\* An error reply on the data channel is given to its call or published as an error
\* event, whenever it comes: a call that timed out, was dropped or lost its request to a
\* teardown has it published (on_data_message: the event "is the only signal callers
\* get").  Two replies have nobody to go to: one that a dropped call had been given and
\* not looked at, and one that came when its call was over but its request still in the
\* map, so that it counts as correlated - until cancel(), or for good if the call was a
\* dropped step, which has no guard.
ErrorsAreReported ==
    \A r \in Commands \cup Steps : answered[r] = "error" =>
        \/ r \in emitted
        \/ slot[r] = "error" /\ outcome[r] \in {"none", "error", "dropped"}
        \/ found[r] \in {"late", "abandoned"}
        \/ found[r] \in {"returning", "done"} /\ outcome[r] = "dropped" /\ r \in Steps

\* Each error reply is reported exactly once: to its call, or as an error event.
ReportedOnce == NotReportedTwice /\ ErrorsAreReported

\* Every call returns, also one made while the connection is torn down.
CallsReturn == \A r \in Requests : (pc[r] = "begun") ~> (pc[r] = "done")
=============================================================================
