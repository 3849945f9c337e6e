----------------------------- MODULE IceTrickle -----------------------------
(***************************************************************************)
(* ICE trickling in reactor-core: the peer-event pump buffers candidates,  *)
(* and two tasks flush the buffer to the coordinator, the connection       *)
(* attempt once it has a connection id and the run_ice_flush() loop after  *)
(* that, woken through a channel that holds one signal.                    *)
(*                                                                         *)
(* A candidate is <<peer, n>>, the n-th one peer connection `peer` found.  *)
(* One action is one lock acquisition.  A session or connection id is the  *)
(* number of the attempt that stored it last; 0 is None.  One connect() or *)
(* reconnect() at a time; a teardown of any other task may cross it.       *)
(***************************************************************************)
EXTENDS Naturals, Sequences, FiniteSets

CONSTANTS
    MaxAttempts,    \* bound: connection attempts
    MaxCandidates   \* bound: candidates a peer connection finds

ASSUME BoundsAssumption == MaxAttempts \in Nat /\ MaxCandidates \in Nat

Flushers == {"attempt", "loop"}
Tasks == Flushers \cup {"pump", "other"}

VARIABLES
    buffer,     \* State.ice_buffer
    flags,      \* of State: "ready" (ice_ready), "gathered", "final" (ice_final_sent)
    session,    \* State.session_id
    connection, \* State.connection_id
    up,         \* whether the status is Ready
    wake,       \* the signal in the ice_flush channel: 0 or 1
    pc,         \* where the attempt, the flush loop, the pump and another task are
    url,        \* the session id the flush loop has read and will post under
    homes,      \* history: the session of each attempt begun
    peer,       \* the attempt whose peer connection is gathering; 0: none
    found,      \* candidates it has found
    events,     \* the pump's queue
    posted,     \* history: the batches posted, in order
    env         \* what the environment grants: {} or {"prompt"}

ice == <<buffer, flags>>
ids == <<session, connection, up>>
engine == <<peer, found, env>>
vars == <<ice, ids, wake, pc, url, homes, engine, events, posted>>

Init ==
    /\ buffer = {} /\ flags = {}
    /\ session = 0 /\ connection = 0 /\ up = FALSE
    /\ wake = 0
    /\ pc = [t \in Tasks |-> "idle"]
    /\ url = 0
    /\ homes = <<>>
    /\ peer = 0 /\ found = 0
    /\ events = <<>>
    /\ posted = <<>>
    /\ env \in SUBSET {"prompt"}

\* The attempt under way, or the last one.
attempt == Len(homes)

Step(t, from, to) == pc[t] = from /\ pc' = [pc EXCEPT ![t] = to]

Clear == buffer' = {} /\ flags' = {}

----------------------------------------------------------------------------
(* The connection attempt, and teardowns.                                  *)

\* In a "prompt" environment the pump has handled a connection's last event before
\* a teardown clears the state and before the next attempt begins...
CaughtUp == "prompt" \in env => events = <<>> /\ pc["pump"] = "idle"
\* ... the session id does not change while the flush loop is between reading it and
\* taking the buffer (there is no await between the two, so in the browser it cannot;
\* another thread can)...
Unbroken == "prompt" \in env => pc["loop"] # "flush"
\* ... and no other task's teardown is half done when an attempt succeeds.
Settled == "prompt" \in env => pc["other"] = "idle"

\* connect() past its guard: it relies on the last teardown for a clean state.
Connect ==
    /\ Step("attempt", "idle", "create")
    /\ ~up /\ attempt < MaxAttempts
    /\ CaughtUp
    /\ homes' = Append(homes, attempt + 1)
    /\ UNCHANGED <<ice, ids, wake, url, engine, events, posted>>

\* The session it created, or was given, is stored.
StoreSession ==
    /\ Step("attempt", "create", "prepare")
    /\ Unbroken
    /\ session' = attempt
    /\ UNCHANGED <<ice, connection, up, wake, url, homes, engine, events, posted>>

\* reconnect(), past the teardown of a live connection: the session is kept, the
\* transport state reset.
Reconnect ==
    /\ Step("attempt", "idle", "prepare")
    /\ ~up /\ session # 0 /\ attempt < MaxAttempts
    /\ CaughtUp
    /\ homes' = Append(homes, session)
    /\ Clear
    /\ UNCHANGED <<ids, wake, url, engine, events, posted>>

\* peer.prepare(): the engine begins to gather, discarding the last connection.
Prepare ==
    /\ Step("attempt", "prepare", "register")
    /\ peer' = attempt /\ found' = 0
    /\ UNCHANGED <<ice, ids, wake, url, homes, env, events, posted>>

\* The connection id is known: candidates may go out.
Register ==
    /\ Step("attempt", "register", "flush")
    /\ connection' = attempt
    /\ flags' = flags \cup {"ready"}
    /\ UNCHANGED <<buffer, session, up, wake, url, homes, engine, events, posted>>

\* The SDP answer may reassign the connection id, whatever became of it meanwhile.
Reassign ==
    /\ pc["attempt"] = "open" /\ connection # attempt
    /\ connection' = attempt
    /\ UNCHANGED <<ice, session, up, wake, pc, url, homes, engine, events, posted>>

\* The transport is ready: set_status(Ready).
Succeed ==
    /\ Step("attempt", "open", "idle")
    /\ Settled
    /\ up' = TRUE
    /\ UNCHANGED <<ice, session, connection, wake, url, homes, engine, events, posted>>

\* teardown(): by an attempt that fails, keeping the session if it was a reconnect(),
\* or by another task of either kind while an attempt goes on or a connection is up.
\* Closing the peer connection and ending the session are awaited before the state
\* is cleared, and the status is set after that.
Recoverable == homes[attempt] # attempt
ClosePeer(t) ==
    /\ \/ /\ t = "attempt" /\ pc[t] \in {"create", "prepare", "register", "open"}
          /\ pc' = [pc EXCEPT ![t] = IF Recoverable THEN "keep" ELSE "end"]
       \/ /\ t = "other" /\ pc[t] = "idle" /\ attempt > 0
          /\ \E to \in {"keep", "end"} : pc' = [pc EXCEPT ![t] = to]
    /\ peer' = 0 /\ found' = 0
    /\ UNCHANGED <<ice, ids, wake, url, homes, env, events, posted>>

ClearState(t) ==
    /\ pc[t] \in {"keep", "end"}
    /\ CaughtUp /\ Unbroken
    /\ pc' = [pc EXCEPT ![t] = "status"]
    /\ Clear
    /\ IF pc[t] = "end" THEN session' = 0 /\ connection' = 0 ELSE UNCHANGED <<session, connection>>
    /\ UNCHANGED <<up, wake, url, homes, engine, events, posted>>

\* set_status(Disconnected).
EndTeardown(t) ==
    /\ Step(t, "status", "idle")
    /\ up' = FALSE
    /\ UNCHANGED <<ice, session, connection, wake, url, homes, engine, events, posted>>

----------------------------------------------------------------------------
(* Flushing.                                                               *)

\* run_ice_flush(): the signal is gone before the session id is read.
Wake ==
    /\ Step("loop", "idle", "read")
    /\ wake = 1 /\ wake' = 0
    /\ UNCHANGED <<ice, ids, url, homes, engine, events, posted>>

\* flush_ice_current_session(): without a session the buffer is not looked at; with
\* one, its id is the address of the POST, whatever happens before the next lock.
ReadSession ==
    /\ pc["loop"] = "read"
    /\ url' = session
    /\ pc' = [pc EXCEPT !["loop"] = IF session = 0 THEN "idle" ELSE "flush"]
    /\ UNCHANGED <<ice, ids, wake, homes, engine, events, posted>>

IsFinal == "gathered" \in flags /\ "final" \notin flags

\* The session a flusher posts under, and what it does afterwards.
Home(f) == IF f = "attempt" THEN homes[attempt] ELSE url
After(f) == IF f = "attempt" THEN "open" ELSE "idle"
Forget(f) == url' = IF f = "loop" THEN 0 ELSE url
NothingToSend == connection = 0 \/ "ready" \notin flags \/ (buffer = {} /\ ~IsFinal)

\* Mutant: the batch is a copy of the buffer.
LeftInBuffer == buffer
LeftAfterTake == {}

\* flush_ice: take the whole buffer and POST it.
Flush(f) ==
    /\ Step(f, "flush", "post")
    /\ ~NothingToSend
    /\ posted' = Append(posted, [session |-> Home(f), connection |-> connection,
                                 candidates |-> buffer, final |-> IsFinal])
    /\ buffer' = LeftAfterTake
    /\ flags' = IF IsFinal THEN flags \cup {"final"} ELSE flags
    /\ Forget(f)
    /\ UNCHANGED <<ids, wake, homes, engine, events>>

FlushNothing(f) ==
    /\ Step(f, "flush", After(f))
    /\ NothingToSend
    /\ Forget(f)
    /\ UNCHANGED <<ice, ids, wake, homes, engine, events, posted>>

\* The POST is answered, or fails: a failure is logged, and nothing is put back.
Posted(f) ==
    /\ Step(f, "post", After(f))
    /\ UNCHANGED <<ice, ids, wake, url, homes, engine, events, posted>>

----------------------------------------------------------------------------
(* The engine and the pump.                                                *)

Gather ==
    /\ peer # 0 /\ found < MaxCandidates
    /\ found' = found + 1
    /\ events' = Append(events, [kind |-> "candidate", item |-> <<peer, found + 1>>])
    /\ UNCHANGED <<ice, ids, wake, pc, url, homes, peer, env, posted>>

GatheringComplete ==
    /\ peer # 0 /\ found <= MaxCandidates
    /\ found' = MaxCandidates + 1
    /\ events' = Append(events, [kind |-> "complete", item |-> <<peer, 0>>])
    /\ UNCHANGED <<ice, ids, wake, pc, url, homes, peer, env, posted>>

\* handle_peer_event: the pump reads `ready` under the lock and signals after it.
HandleIce ==
    /\ pc["pump"] = "idle" /\ events # <<>>
    /\ IF Head(events).kind = "candidate"
         THEN buffer' = buffer \cup {Head(events).item} /\ UNCHANGED flags
         ELSE flags' = flags \cup {"gathered"} /\ UNCHANGED buffer
    /\ events' = Tail(events)
    /\ pc' = [pc EXCEPT !["pump"] = IF "ready" \in flags THEN "notify" ELSE "idle"]
    /\ UNCHANGED <<ids, wake, url, homes, engine, posted>>

\* Mutant: no signal is left while the loop is busy.
SignalsIdleLoop == IF pc["loop"] = "idle" THEN 1 ELSE wake
\* try_send: a full slot means a signal is pending already.
Signal == 1

NotifyFlush ==
    /\ Step("pump", "notify", "idle")
    /\ wake' = Signal
    /\ UNCHANGED <<ice, ids, url, homes, engine, events, posted>>

----------------------------------------------------------------------------
Flusher(f) == Flush(f) \/ FlushNothing(f) \/ Posted(f)
Loop == Wake \/ ReadSession
Teardown(t) == ClosePeer(t) \/ ClearState(t) \/ EndTeardown(t)
Begin == Connect \/ Reconnect
Attempt == StoreSession \/ Prepare \/ Register \/ Reassign \/ Succeed \/ Teardown("attempt")
Engine == Gather \/ GatheringComplete

Next == Begin \/ Attempt \/ Teardown("other") \/ Loop \/ (\E f \in Flushers : Flusher(f))
        \/ Engine \/ HandleIce \/ NotifyFlush

\* Tasks that can run do, and requests are answered, so that an attempt ends; the
\* engine owes nothing, and nobody has to connect or disconnect.
Fairness ==
    /\ WF_vars(Loop) /\ WF_vars(HandleIce) /\ WF_vars(NotifyFlush) /\ WF_vars(Attempt)
    /\ \A f \in Flushers : WF_vars(Flusher(f))

Spec == Init /\ [][Next]_vars /\ Fairness

----------------------------------------------------------------------------
(* Properties.                                                             *)

\* What the coordinator is still to be told.
Owed == buffer # {} \/ IsFinal

\* A candidate buffered once candidates may go out is not stranded while State holds a
\* session id: a signal is in the channel, or a task is on its way to a flush, to
\* signalling or, as an attempt, to clearing the buffer (notify_ice_flush: "a dropped
\* signal loses nothing").  Where a disconnect() took the id from under an attempt that
\* goes on, flush_ice_current_session() returns early and the signal is lost.
NothingStranded ==
    "ready" \in flags /\ session # 0 /\ Owed =>
        \/ wake = 1
        \/ pc["pump"] = "notify"
        \/ pc["loop"] \in {"read", "flush"}
        \/ pc["attempt"] \in {"create", "prepare", "register", "flush", "keep", "end"}

\* No candidate is posted twice, whichever of the two tasks takes it and whatever
\* is torn down meanwhile.
NoDuplicates ==
    \A i, j \in DOMAIN posted :
        i # j => posted[i].candidates \cap posted[j].candidates = {}

\* The end of gathering is announced once at most for each connection.
FinalOnce ==
    \A i, j \in DOMAIN posted :
        posted[i].final /\ posted[j].final /\ i # j =>
            posted[i].connection # posted[j].connection

\* A connection is only sent the candidates of its own peer connection, and under the
\* session it was made in.
OwnCandidates ==
    \A i \in DOMAIN posted :
        /\ posted[i].session = homes[posted[i].connection]
        /\ \A c \in posted[i].candidates : c[1] = posted[i].connection

\* What the coordinator is told, it is told once and under the right connection and
\* session: no candidate is posted twice, whatever runs when; and in a prompt
\* environment there is one end of gathering for each connection, and no candidate of
\* another connection or under another session (flush_ice takes the buffer and the
\* flag in one lock acquisition; teardown() and reconnect() clear both).
ToldOnceToTheRight ==
    NoDuplicates /\ ("prompt" \in env => FinalOnce /\ OwnCandidates)

\* What may go out does go out, or its connection or session ends: again and again
\* nothing is owed.
EverythingGoesOut == []<>~("ready" \in flags /\ session # 0 /\ Owed)
=============================================================================
