---------------------------- MODULE ClientStats ----------------------------
(***************************************************************************)
(* run_client_stats(), the loop that reports how a connection is doing,    *)
(* and the stage times it reports: StageTimes and MessageTimes, filled by  *)
(* the threads that move frames and commands while connections come and    *)
(* go.                                                                     *)
(*                                                                         *)
(* An item is one frame or one command whose time is to be counted in a    *)
(* window, of frames or of messages.  Reporter n is spawned for the n-th   *)
(* connection, and first polled at any time after that.  The host connects *)
(* and disconnects one connection after another; connecting may fail.  One *)
(* action is one critical section, or one poll up to an await.             *)
(***************************************************************************)
EXTENDS Naturals

CONSTANTS
    Frames, Messages,  \* the items that are timed, by window
    MaxConnections     \* bound: connect() and reconnect() calls

ASSUME ItemsAssumption == Frames \cap Messages = {}
ASSUME ConnectionsAssumption == MaxConnections \in Nat

Items == Frames \cup Messages
Windows == {"frames", "messages"}
Window(i) == IF i \in Frames THEN "frames" ELSE "messages"
Of(w) == IF w = "frames" THEN Frames ELSE Messages
Reporters == 1..MaxConnections

VARIABLES
    epoch,     \* State.heartbeat_epoch
    phase,     \* "down", "frames", "messages" (begin_connection due), "connecting", "ready"
    gen,       \* the generation of each window
    totals,    \* the items in the windows
    tag,       \* the generation each item was tagged with
    started,   \* items whose timing started
    timed,     \* items whose timing ended
    pc,        \* where each reporter is
    mine,      \* the epoch each reporter captured
    taken,     \* the generations each reporter captured
    hand,      \* what each reporter took and has not sent or given back
    reported   \* how often each item was counted in a batch that went out

connection == <<epoch, phase, gen>>
items == <<tag, started, timed>>
reporters == <<pc, mine, taken>>
vars == <<connection, totals, items, reporters, hand, reported>>

Labels == {"none", "spawned", "frames", "messages", "sleep", "read", "take",
           "taking", "send", "leave", "give", "giving", "exited"}

Init ==
    /\ epoch = 0 /\ phase = "down"
    /\ gen = [w \in Windows |-> 0]
    /\ totals = {}
    /\ tag = [i \in Items |-> 0] /\ started = {} /\ timed = {}
    /\ pc = [r \in Reporters |-> "none"]
    /\ mine = [r \in Reporters |-> 0]
    /\ taken = [x \in Reporters \X Windows |-> 0]
    /\ hand = [r \in Reporters |-> {}]
    /\ reported = [i \in Items |-> 0]

Goto(r, label) == pc' = [pc EXCEPT ![r] = label]
Step(r, from, to) == pc[r] = from /\ Goto(r, to)

----------------------------------------------------------------------------
(* connect(), reconnect() and the end of a connection.                     *)

Connect ==
    /\ phase = "down" /\ epoch < MaxConnections
    /\ epoch' = epoch + 1
    /\ phase' = "frames"
    /\ UNCHANGED <<gen, totals, items, reporters, hand, reported>>

Cleared(w) == totals \ Of(w)

Advanced(w) == [gen EXCEPT ![w] = @ + 1]

\* begin_connection(), of the frames' window and then of the messages'.
BeginWindow(w) ==
    /\ phase = w
    /\ phase' = IF w = "frames" THEN "messages" ELSE "connecting"
    /\ totals' = Cleared(w)
    /\ gen' = Advanced(w)
    /\ UNCHANGED <<epoch, items, reporters, hand, reported>>

\* The call succeeds, and the binding spawns the connection's reporter.
Ready ==
    /\ phase = "connecting"
    /\ phase' = "ready"
    /\ pc' = [r \in Reporters |-> IF r = epoch THEN "spawned" ELSE pc[r]]
    /\ UNCHANGED <<epoch, gen, totals, items, mine, taken, hand, reported>>

\* The call fails, or the connection is torn down.
Disconnect ==
    /\ phase \in {"connecting", "ready"}
    /\ phase' = "down"
    /\ UNCHANGED <<epoch, gen, totals, items, reporters, hand, reported>>

----------------------------------------------------------------------------
(* Timing: tagged when it starts, on one thread, and added when it ends.   *)

StartTiming(i) ==
    /\ i \notin started
    /\ started' = started \cup {i}
    /\ tag' = [tag EXCEPT ![i] = gen[Window(i)]]
    /\ UNCHANGED <<connection, totals, timed, reporters, hand, reported>>

\* add_from(): an item of an earlier connection is left out.
Counts(i) == gen[Window(i)] = tag[i]

EndTiming(i) ==
    /\ i \in started \ timed
    /\ timed' = timed \cup {i}
    /\ totals' = IF Counts(i) THEN totals \cup {i} ELSE totals
    /\ UNCHANGED <<connection, tag, started, reporters, hand, reported>>

----------------------------------------------------------------------------
(* run_client_stats().                                                     *)

\* Mutant: a reporter outlives its connection when the next one is ready.
CurrentReady(r) == phase = "ready"
Current(r) == mine[r] = epoch /\ phase = "ready"

\* The first poll captures the epoch.
Start(r) ==
    /\ Step(r, "spawned", "frames")
    /\ mine' = [mine EXCEPT ![r] = epoch]
    /\ UNCHANGED <<connection, totals, items, taken, hand, reported>>

\* The generations are captured one after the other, after the epoch.
Capture(r, w) ==
    /\ Step(r, w, IF w = "frames" THEN "messages" ELSE "sleep")
    /\ taken' = [taken EXCEPT ![<<r, w>>] = gen[w]]
    /\ UNCHANGED <<connection, totals, items, mine, hand, reported>>

Tick(r) ==
    /\ Step(r, "sleep", IF Current(r) THEN "read" ELSE "exited")
    /\ UNCHANGED <<connection, totals, items, mine, taken, hand, reported>>

\* get_stats() was awaited, so the connection is looked at again; a failed read
\* skips the tick.
Read(r) ==
    /\ \/ Step(r, "read", IF Current(r) THEN "take" ELSE "exited")
       \/ Step(r, "read", "sleep")
    /\ UNCHANGED <<connection, totals, items, mine, taken, hand, reported>>

\* Mutants: a window is copied, not taken; or it is taken for any reporter.
Copied(w) == totals
Emptied(w) == totals \ Of(w)
OwnsAny(r, w) == TRUE
Owns(r, w) == gen[w] = taken[<<r, w>>]

Take(r, w) ==
    /\ Owns(r, w)
    /\ hand' = [hand EXCEPT ![r] = @ \cup (totals \cap Of(w))]
    /\ totals' = Emptied(w)
    /\ UNCHANGED <<connection, items, mine, taken, reported>>

TakeFrames(r) == Step(r, "take", "taking") /\ Take(r, "frames")
TakeMessages(r) == Step(r, "taking", "send") /\ Take(r, "messages")

GivesBack(r) == "leave"

\* A newer connection's window is not this reporter's: it ends, and gives back
\* the frames it already has.
TakesNone(r) ==
    /\ \/ Step(r, "take", "exited") /\ ~Owns(r, "frames")
       \/ Step(r, "taking", GivesBack(r)) /\ ~Owns(r, "messages")
    /\ UNCHANGED <<connection, totals, items, mine, taken, hand, reported>>

\* The batch goes out, but for the frames of tracks the engine has no reading of
\* yet; or there is nothing to say, or the send fails.
SendBatch(r) ==
    /\ Step(r, "send", "give")
    /\ \E unread \in SUBSET (hand[r] \cap Frames) :
         /\ reported' = [i \in Items |->
                           IF i \in hand[r] \ unread THEN reported[i] + 1 ELSE reported[i]]
         /\ hand' = [hand EXCEPT ![r] = unread]
    /\ UNCHANGED <<connection, totals, items, mine, taken>>

SendsNothing(r) ==
    /\ Step(r, "send", "give")
    /\ UNCHANGED <<connection, totals, items, mine, taken, hand, reported>>

\* give_back(): into the window it came from, or nowhere once that has ended.
Give(r, w) ==
    /\ totals' = IF Owns(r, w) THEN totals \cup (hand[r] \cap Of(w)) ELSE totals
    /\ hand' = [hand EXCEPT ![r] = @ \ Of(w)]
    /\ UNCHANGED <<connection, items, mine, taken, reported>>

GiveFrames(r) ==
    /\ \/ Step(r, "give", "giving")
       \/ Step(r, "leave", "exited")
    /\ Give(r, "frames")
GiveMessages(r) == Step(r, "giving", "sleep") /\ Give(r, "messages")

----------------------------------------------------------------------------
Reporting(r) ==
    \/ Start(r) \/ (\E w \in Windows : Capture(r, w)) \/ Tick(r) \/ Read(r)
    \/ TakeFrames(r) \/ TakeMessages(r) \/ TakesNone(r)
    \/ SendBatch(r) \/ SendsNothing(r) \/ GiveFrames(r) \/ GiveMessages(r)

Next ==
    \/ Connect \/ Ready \/ Disconnect
    \/ \E w \in Windows : BeginWindow(w)
    \/ \E i \in Items : StartTiming(i) \/ EndTiming(i)
    \/ \E r \in Reporters : Reporting(r)

\* A reporter that is spawned runs and its timer fires; the host and the items owe
\* nothing.
Fairness == \A r \in Reporters : WF_vars(Reporting(r))

Spec == Init /\ [][Next]_vars /\ Fairness

----------------------------------------------------------------------------
(* Properties.                                                             *)

TypeOK ==
    /\ epoch \in 0..MaxConnections
    /\ phase \in {"down", "connecting", "ready"} \cup Windows
    /\ gen \in [Windows -> 0..MaxConnections]
    /\ totals \subseteq Items
    /\ tag \in [Items -> 0..MaxConnections] /\ started \subseteq Items /\ timed \subseteq Items
    /\ pc \in [Reporters -> Labels]
    /\ mine \in [Reporters -> 0..MaxConnections]
    /\ taken \in [Reporters \X Windows -> 0..MaxConnections]
    /\ hand \in [Reporters -> SUBSET Items]
    /\ reported \in [Items -> Nat]

\* No time is counted in two batches, whatever failed to go out, was given back
\* or was taken by the reporter of another connection.
CountedOnce == \A i \in Items : reported[i] <= 1

\* A window holds times of its own connection only: neither a late frame nor a
\* late give_back() brings in an earlier one's.
OwnWindow == \A i \in totals : tag[i] = gen[Window(i)]

\* While its window lasts, no time is lost: it waits in the window or in the hands
\* of a reporter that has yet to send it or give it back, or it was reported.
NothingLost ==
    \A i \in timed : tag[i] = gen[Window(i)] =>
        \/ i \in totals \/ reported[i] = 1
        \/ \E r \in Reporters : i \in hand[r] /\ pc[r] \notin {"sleep", "exited"}

\* Every time is accounted for: in one batch, or on its way to one.
Accounted == CountedOnce /\ NothingLost

\* The reporter of a connection that is over ends.
ReportersEnd == \A r \in Reporters :
    (pc[r] \notin {"none", "spawned"} /\ mine[r] # epoch) ~> (pc[r] = "exited")
=============================================================================
