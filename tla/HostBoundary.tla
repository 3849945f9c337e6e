---------------------------- MODULE HostBoundary ----------------------------
(***************************************************************************)
(* The boundary where reactor-ffi calls back into the host: CallbackGate,  *)
(* the HostThreads that call host pointers, the tokio tasks a handle owns, *)
(* and reactor_destroy(), which must stop all of them before the host may  *)
(* free what its callback pointers refer to.                               *)
(*                                                                         *)
(* A thread is a worker <<client, kind>> or an application thread.  Host   *)
(* code runs on application threads and inside callbacks, and may destroy  *)
(* any live client from either.  A queue is the number of events in it: an *)
(* overflow, whichever end it drops, leaves that number as it is.  One     *)
(* action is one critical section of the gate, of a queue or of the task   *)
(* set, or one host call.                                                  *)
(***************************************************************************)
EXTENDS Naturals

CONSTANTS
    Clients,       \* handles made by reactor_create()
    Kinds,         \* the worker threads of each: "control", "video" and "audio"
    Apps,          \* application threads
    NoClient,      \* "not destroying"
    Connecting,    \* bound: the clients on which the host calls connect()
    AudioDepth,    \* AUDIO_QUEUE_DEPTH
    MaxPending     \* bound: events queued for a control thread (unbounded in the code)

ASSUME ThreadsAssumption == Apps \cap UNION {{c} \X Kinds[c] : c \in Clients} = {}
ASSUME NoClientAssumption == NoClient \notin Clients
ASSUME DepthAssumption == AudioDepth \in Nat /\ MaxPending \in Nat

WorkersOf(c) == {c} \X Kinds[c]
Workers == UNION {WorkersOf(c) : c \in Clients}
Threads == Workers \cup Apps
Control(c) == <<c, "control">>

VARIABLES
    live,      \* handles not yet passed to reactor_destroy()
    retired,   \* clients whose gate is closed (`open` is false)
    inflight,  \* GateState: the guards each worker holds on its client's gate
    at,        \* where each thread is
    target,    \* the client a destroying thread is destroying
    verdict,   \* what retire() said of each client
    reported,  \* clients whose reactor_destroy() returned
    queued,    \* events in each worker's queue
    closed,    \* workers whose queue is closed
    job,       \* what a worker popped
    body,      \* the connect() each client has in flight, as a tokio task
    tracked,   \* TaskSet: heartbeat and stats loops reactor_destroy() will abort
    running    \* the loops that are running

gate == <<retired, inflight, verdict>>
queues == <<queued, closed>>
tasks == <<tracked, running>>
hostVars == <<live, gate, at, target, reported, queues, job, body, tasks>>

Loops == {"heartbeat", "stats"}
InDestroy == {"retire", "wait", "abort", "release"}
InHost == {"host"} \cup InDestroy
HostLabels == {"pop", "popped", "admitted", "unwind", "notify", "exited"} \cup InHost

\* The host frees a client's callback context once destroy returned 0 for it.
Freed == {c \in reported : verdict[c] = "complete"}

Capacity(w) == CASE w[2] = "video" -> 1
                 [] w[2] = "audio" -> AudioDepth
                 [] OTHER -> MaxPending

HostInit ==
    /\ live = Clients
    /\ retired = {}
    /\ inflight = [w \in Workers |-> 0]
    /\ at = [t \in Threads |-> IF t \in Workers THEN "pop" ELSE "host"]
    /\ target = [t \in Threads |-> NoClient]
    /\ verdict = [c \in Clients |-> "none"]
    /\ reported = {}
    /\ queued = [w \in Workers |-> 0]
    /\ closed = {}
    /\ job = [w \in Workers |-> "none"]
    /\ body = [c \in Clients |-> "none"]
    /\ tracked = [c \in Clients |-> {}]
    /\ running = [c \in Clients |-> {}]

Goto(t, label) == at' = [at EXCEPT ![t] = label]
Move(t, from, to) == at[t] = from /\ Goto(t, to)

\* A job that was dropped unrun takes the completion it carried with it.
Lose(w) == body' = IF job[w] = "completion" THEN [body EXCEPT ![w[1]] = "lost"] ELSE body

----------------------------------------------------------------------------
(* Queues and the worker loop of HostThread::spawn.                        *)

\* A tokio or media thread hands over an event; a closed queue ignores it.
Push(w) ==
    /\ w \notin closed
    /\ queued[w] < Capacity(w)
    /\ queued' = [queued EXCEPT ![w] = @ + 1]
    /\ UNCHANGED <<live, gate, at, target, reported, closed, job, body, tasks>>

Pop(w) ==
    /\ Move(w, "pop", "popped")
    /\ \/ /\ queued[w] > 0
          /\ queued' = [queued EXCEPT ![w] = @ - 1]
          /\ job' = [job EXCEPT ![w] = "event"]
          /\ UNCHANGED body
       \/ /\ w = Control(w[1]) /\ body[w[1]] = "queued"
          /\ body' = [body EXCEPT ![w[1]] = "popped"]
          /\ job' = [job EXCEPT ![w] = "completion"]
          /\ UNCHANGED queued
    /\ UNCHANGED <<live, gate, target, reported, closed, tasks>>

Exit(w) ==
    /\ Move(w, "pop", "exited")
    /\ w \in closed /\ queued[w] = 0
    /\ UNCHANGED <<live, gate, target, reported, queues, job, body, tasks>>

\* Mutant: the gate is not consulted again after the item was popped.
AdmitsAlways(w) == TRUE
\* CallbackGate::enter, under the gate's lock.
Admits(w) == w[1] \notin retired

Enter(w) ==
    /\ at[w] = "popped"
    /\ IF Admits(w)
         THEN /\ Goto(w, "admitted")
              /\ inflight' = [inflight EXCEPT ![w] = @ + 1]
              /\ UNCHANGED <<job, body>>
         ELSE /\ Goto(w, "exited")
              /\ Lose(w)
              /\ job' = [job EXCEPT ![w] = "none"]
              /\ UNCHANGED inflight
    /\ UNCHANGED <<live, retired, verdict, target, reported, queues, tasks>>

\* deliver(item): a media worker calls the host; a control job passes the gate
\* a second time around the pointer it calls.
Fire(w) ==
    /\ at[w] = "admitted"
    /\ IF w[2] # "control"
         THEN Goto(w, "host") /\ UNCHANGED <<inflight, body>>
         ELSE IF Admits(w)
           THEN /\ Goto(w, "host")
                /\ inflight' = [inflight EXCEPT ![w] = @ + 1]
                /\ body' = IF job[w] = "completion"
                             THEN [body EXCEPT ![w[1]] = "fired"] ELSE body
           ELSE Goto(w, "unwind") /\ Lose(w) /\ UNCHANGED inflight
    /\ job' = [job EXCEPT ![w] = "none"]
    /\ UNCHANGED <<live, retired, verdict, target, reported, queues, tasks>>

\* An event the host registered no callback for.
Skip(w) ==
    /\ Move(w, "admitted", "unwind")
    /\ w[2] = "control" /\ job[w] = "event"
    /\ job' = [job EXCEPT ![w] = "none"]
    /\ UNCHANGED <<live, gate, target, reported, queues, body, tasks>>

HostReturns(w) ==
    /\ Move(w, "host", "unwind")
    /\ UNCHANGED <<live, gate, target, reported, queues, job, body, tasks>>

Released(n) == n - 1

\* GateGuard::drop, under the lock; then notify_all, after it.
Unguard(w) ==
    /\ Move(w, "unwind", "notify")
    /\ inflight' = [inflight EXCEPT ![w] = Released(@)]
    /\ UNCHANGED <<live, retired, verdict, target, reported, queues, job, body, tasks>>

\* Mutant: the drop of a guard tells nobody.
WakesNobody(c) == {}
Woken(c) == {t \in Threads : at[t] = "wait" /\ target[t] = c}

Notify(w) ==
    /\ at[w] = "notify"
    /\ at' = [t \in Threads |->
                CASE t = w -> IF inflight[w] > 0 THEN "unwind" ELSE "pop"
                  [] t \in Woken(w[1]) -> "retire"
                  [] OTHER -> at[t]]
    /\ UNCHANGED <<live, gate, target, reported, queues, job, body, tasks>>

----------------------------------------------------------------------------
(* Operations: connect() as a task the handle owns.                        *)

Call(t, c) ==
    /\ at[t] = "host" /\ c \in live \cap Connecting
    /\ body[c] = "none"
    /\ body' = [body EXCEPT ![c] = "await"]
    /\ UNCHANGED <<live, gate, at, target, reported, queues, job, tasks>>

\* connect().await resolves; from here to its end the task is one poll, which
\* an abort no longer interrupts.
Resume(c) ==
    /\ body[c] = "await"
    /\ body' \in {[body EXCEPT ![c] = b] : b \in {"heartbeat", "send"}}
    /\ UNCHANGED <<live, gate, at, target, reported, queues, job, tasks>>

SpawnLoop(c) ==
    /\ body[c] \in Loops
    /\ running' = [running EXCEPT ![c] = @ \cup {body[c]}]
    /\ tracked' = [tracked EXCEPT ![c] = @ \cup {body[c]}]
    /\ body' = [body EXCEPT ![c] = IF @ = "heartbeat" THEN "stats" ELSE "send"]
    /\ UNCHANGED <<live, gate, at, target, reported, queues, job>>

SendCompletion(c) ==
    /\ body[c] = "send"
    /\ body' = [body EXCEPT ![c] = IF Control(c) \in closed THEN "lost" ELSE "queued"]
    /\ UNCHANGED <<live, gate, at, target, reported, queues, job, tasks>>

----------------------------------------------------------------------------
(* reactor_destroy(), by thread t.                                         *)

Destroy(t, c) ==
    /\ Move(t, "host", "retire")
    /\ c \in live
    /\ live' = live \ {c}
    /\ target' = [target EXCEPT ![t] = c]
    /\ retired' = retired \cup {c}
    /\ UNCHANGED <<inflight, verdict, reported, queues, job, body, tasks>>

\* GateState::own, and total() > own: other threads are inside a callback.
Own(t, c) == IF t \in WorkersOf(c) THEN inflight[t] ELSE 0
Busy(t, c) == \E w \in WorkersOf(c) \ {t} : inflight[w] > 0

Wait(t) ==
    /\ Move(t, "retire", "wait")
    /\ Busy(t, target[t])
    /\ UNCHANGED <<live, gate, target, reported, queues, job, body, tasks>>

Quiesce(t) ==
    /\ Move(t, "retire", "abort")
    /\ ~Busy(t, target[t])
    /\ verdict' = [verdict EXCEPT ![target[t]] =
                     IF Own(t, target[t]) > 0 THEN "incomplete" ELSE "complete"]
    /\ UNCHANGED <<live, retired, inflight, target, reported, queues, job, body, tasks>>

\* wait_timeout timed out, whatever the count is by then.  (A spurious wake-up
\* only tests the count again and is left out.)
Timeout(t) ==
    /\ Move(t, "wait", "abort")
    /\ verdict' = [verdict EXCEPT ![target[t]] = "incomplete"]
    /\ UNCHANGED <<live, retired, inflight, target, reported, queues, job, body, tasks>>

\* Draining the task set aborts what is tracked; a body inside its last poll runs on.
AbortTasks(t) ==
    LET c == target[t] IN
    /\ Move(t, "abort", "release")
    /\ running' = [running EXCEPT ![c] = @ \ tracked[c]]
    /\ tracked' = [tracked EXCEPT ![c] = {}]
    /\ body' = IF body[c] = "await" THEN [body EXCEPT ![c] = "lost"] ELSE body
    /\ UNCHANGED <<live, gate, target, reported, queues, job>>

\* Mutant: destroy() joins no thread.
JoinsNever(t, w) == TRUE
\* Abandoned threads are detached; the others are joined, except by themselves.
Joined(t, w) == verdict[target[t]] = "complete" => (w = t \/ at[w] = "exited")

\* Mutant: teardown closes no queue it does not join.
ClosesJoined(w) == IF verdict[w[1]] = "complete" THEN closed \cup {w} ELSE closed
CloseQueue(w) == closed \cup {w}

\* HostThread::abandon, or HostThread::drop one thread at a time (in any order,
\* which covers the order of the fields).
ReleaseThread(t) ==
    /\ at[t] = "release"
    /\ \A v \in WorkersOf(target[t]) \cap closed : Joined(t, v)
    /\ \E w \in WorkersOf(target[t]) \ closed :
         /\ closed' = CloseQueue(w)
         /\ queued' = [queued EXCEPT ![w] = 0]
         /\ body' = IF w = Control(w[1]) /\ body[w[1]] = "queued"
                      THEN [body EXCEPT ![w[1]] = "lost"] ELSE body
    /\ UNCHANGED <<live, gate, at, target, reported, job, tasks>>

DestroyReturns(t) ==
    /\ Move(t, "release", "host")
    /\ WorkersOf(target[t]) \subseteq closed
    /\ \A v \in WorkersOf(target[t]) : Joined(t, v)
    /\ reported' = reported \cup {target[t]}
    /\ target' = [target EXCEPT ![t] = NoClient]
    /\ UNCHANGED <<live, gate, queues, job, body, tasks>>

----------------------------------------------------------------------------
Worker(w) == Pop(w) \/ Exit(w) \/ Enter(w) \/ Fire(w) \/ Skip(w) \/ Unguard(w) \/ Notify(w)
Operation(c) == Resume(c) \/ SpawnLoop(c) \/ SendCompletion(c)
Destroying(t) == Wait(t) \/ Quiesce(t) \/ Timeout(t) \/ AbortTasks(t)
                 \/ ReleaseThread(t) \/ DestroyReturns(t)

HostNext ==
    \/ \E w \in Workers : Push(w) \/ Worker(w) \/ HostReturns(w)
    \/ \E c \in Clients : Operation(c)
    \/ \E t \in Threads :
         \/ Destroying(t)
         \/ \E c \in Clients : Call(t, c) \/ Destroy(t, c)

\* The library's own threads run; the host owes nothing, so a callback may
\* never return.
HostFairness ==
    /\ \A w \in Workers : WF_hostVars(Worker(w))
    /\ \A c \in Clients : WF_hostVars(Operation(c))
    /\ \A t \in Threads : WF_hostVars(Destroying(t))

HostSpec == HostInit /\ [][HostNext]_hostVars /\ HostFairness

----------------------------------------------------------------------------
(* Properties.                                                             *)

\* Every variable keeps its type.
HostTypeOK ==
    /\ live \subseteq Clients
    /\ retired \subseteq Clients
    /\ inflight \in [Workers -> Nat]
    /\ at \in [Threads -> HostLabels]
    /\ target \in [Threads -> Clients \cup {NoClient}]
    /\ verdict \in [Clients -> {"none", "complete", "incomplete"}]
    /\ reported \subseteq Clients
    /\ queued \in [Workers -> Nat]
    /\ closed \subseteq Workers
    /\ job \in [Workers -> {"none", "event", "completion"}]
    /\ body \in [Clients -> {"none", "await", "send", "queued", "popped", "fired",
                             "lost"} \cup Loops]
    /\ tracked \in [Clients -> SUBSET Loops]
    /\ running \in [Clients -> SUBSET Loops]

\* From the moment retire() decides on Quiescence::Complete, no thread is inside
\* one of the client's callbacks or past the gate on its way into one, and none
\* gets there again: what makes it safe for the host to free its pointers when
\* reactor_destroy() returns 0 (callbacks.rs, the module comment).
CompleteMeansQuiet ==
    \A c \in Clients : verdict[c] = "complete" =>
        \A w \in WorkersOf(c) : at[w] \notin InHost \cup {"admitted"}

\* retire() never sleeps on a wake-up that was already sent: while it waits,
\* a callback it waits for is running or is about to notify it.
NoLostWakeup ==
    \A t \in Threads : at[t] = "wait" =>
        \E w \in WorkersOf(target[t]) \ {t} : inflight[w] > 0 \/ at[w] = "notify"

\* A destroy that returned 0 joined the client's threads: no delivery outlives
\* the call (the comment in reactor_destroy() before drop(handle)).
NoThreadOutlivesDestroy ==
    \A c \in Freed : \A w \in WorkersOf(c) : at[w] = "exited"

\* reactor_destroy() returns although callbacks may never return, also when two
\* clients' callbacks destroy each other; and if callbacks do return, every thread
\* of a destroyed client ends, the abandoned ones included (HostThread::abandon).
CallbacksReturn == \A w \in Workers : WF_hostVars(HostReturns(w))
DestroyEnds ==
    /\ \A c \in Clients : (c \notin live) ~> (c \in reported)
    /\ CallbacksReturn => \A w \in Workers : (w[1] \notin live) ~> (at[w] = "exited")
=============================================================================
