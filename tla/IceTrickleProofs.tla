-------------------------- MODULE IceTrickleProofs --------------------------
(***************************************************************************)
(* Proofs about IceTrickle, for any number of attempts and candidates: no  *)
(* candidate is stranded or posted twice, and where the pump keeps up each *)
(* connection is told its own candidates and the end of gathering once,    *)
(* under its own session.                                                  *)
(***************************************************************************)
EXTENDS IceTrickle, TLAPS

\* The tasks' labels, the signal and the numbers, as far as the argument needs them; a
\* connection whose candidates may go out has an id.
TasksOK ==
    /\ pc \in [Tasks -> {"idle", "create", "prepare", "register", "flush", "post", "open",
                         "keep", "end", "status", "read", "notify"}]
    /\ wake \in {0, 1}
    /\ flags \subseteq {"ready", "gathered", "final"}
    /\ homes \in Seq(Nat) /\ session \in Nat /\ connection \in Nat
    /\ pc["attempt"] # "idle" => attempt # 0
    /\ "ready" \in flags => connection # 0

Inv == TasksOK /\ NothingStranded

\* An attempt is counted when its session is added to the history.
LEMMA Begun ==
    ASSUME homes \in Seq(Nat), NEW h \in Nat, homes' = Append(homes, h)
    PROVE  /\ homes' \in Seq(Nat) /\ attempt \in Nat /\ attempt' = attempt + 1
  BY DEF attempt

\* Every action keeps the labels and the numbers.
LEMMA TasksStep ==
    ASSUME TasksOK, [Next]_vars
    PROVE  TasksOK'
<1> USE DEF TasksOK, Tasks, Flushers
<1>0. attempt \in Nat /\ (UNCHANGED homes => UNCHANGED attempt)
  BY DEF attempt
<1>1. CASE Connect
  <2>1. homes' \in Seq(Nat) /\ attempt' = attempt + 1
    BY <1>1, <1>0, Begun DEF Connect
  <2> QED
    BY <1>1, <1>0, <2>1 DEF Connect, Step, ice, ids
<1>2. CASE Reconnect
  <2>1. homes' \in Seq(Nat) /\ attempt' = attempt + 1
    BY <1>2, <1>0, Begun DEF Reconnect
  <2> QED
    BY <1>2, <1>0, <2>1 DEF Reconnect, Step, Clear, ids
<1>3. CASE StoreSession
  BY <1>3, <1>0 DEF StoreSession, Step, ice, ids, engine
<1>4. CASE Prepare
  BY <1>4, <1>0 DEF Prepare, Step, ice, ids, engine
<1>5. CASE Register
  BY <1>5, <1>0 DEF Register, Step, ice, ids, engine
<1>6. CASE Reassign
  BY <1>6, <1>0 DEF Reassign, ice, ids, engine
<1>7. CASE Succeed
  BY <1>7, <1>0 DEF Succeed, Step, ice, ids, engine
<1>8. ASSUME NEW t \in {"attempt", "other"}, ClosePeer(t)
      PROVE  TasksOK'
  BY <1>8, <1>0 DEF ClosePeer, ice, ids, engine
<1>9. ASSUME NEW t \in {"attempt", "other"}, ClearState(t)
      PROVE  TasksOK'
  BY <1>9, <1>0 DEF ClearState, Clear, ice, ids, engine
<1>10. ASSUME NEW t \in {"attempt", "other"}, EndTeardown(t)
      PROVE  TasksOK'
  BY <1>10, <1>0 DEF EndTeardown, Step, ice, ids, engine
<1>11. CASE Wake
  BY <1>11, <1>0 DEF Wake, Step, ice, ids, engine
<1>12. CASE ReadSession
  BY <1>12, <1>0 DEF ReadSession, ice, ids, engine
<1>13. ASSUME NEW f \in Flushers, Flush(f)
      PROVE  TasksOK'
  BY <1>13, <1>0 DEF Flush, Step, LeftAfterTake, NothingToSend, Forget, ice, ids, engine
<1>14. ASSUME NEW f \in Flushers, FlushNothing(f)
      PROVE  TasksOK'
  BY <1>14, <1>0 DEF FlushNothing, Step, NothingToSend, After, Forget, ice, ids, engine
<1>15. ASSUME NEW f \in Flushers, Posted(f)
      PROVE  TasksOK'
  BY <1>15, <1>0 DEF Posted, Step, After, ice, ids, engine
<1>16. CASE Gather
  BY <1>16, <1>0 DEF Gather, ice, ids, engine
<1>17. CASE GatheringComplete
  BY <1>17, <1>0 DEF GatheringComplete, ice, ids, engine
<1>18. CASE HandleIce
  <2>1. pc'["attempt"] = pc["attempt"] /\ flags' \in {flags, flags \cup {"gathered"}}
    BY <1>18 DEF HandleIce
  <2> QED
    BY <1>18, <1>0, <2>1 DEF HandleIce, ids
<1>19. CASE NotifyFlush
  BY <1>19, <1>0 DEF NotifyFlush, Step, Signal, ice, ids, engine
<1>20. CASE UNCHANGED vars
  BY <1>20, <1>0 DEF vars, ice, ids, engine
<1> QED
  BY <1>1, <1>2, <1>3, <1>4, <1>5, <1>6, <1>7, <1>8, <1>9, <1>10,
     <1>11, <1>12, <1>13, <1>14, <1>15, <1>16, <1>17, <1>18, <1>19, <1>20
     DEF Next, Begin, Attempt, Teardown, Loop, Flusher, Engine

\* A step that leaves the buffer and the flags owes nothing new; one that consumes a
\* signal, or leaves "read", "flush" or "notify", discharges it.
LEMMA StrandedStep ==
    ASSUME TasksOK, NothingStranded, [Next]_vars
    PROVE  NothingStranded'
<1> USE DEF TasksOK, Tasks, Flushers, NothingStranded, Owed, IsFinal
<1>1. CASE Connect
  BY <1>1 DEF Connect, Step, ice, ids, engine
<1>2. CASE Reconnect
  BY <1>2 DEF Reconnect, Step, Clear, ice, ids, engine
<1>3. CASE StoreSession
  BY <1>3 DEF StoreSession, Step, ice, ids, engine
<1>4. CASE Prepare
  BY <1>4 DEF Prepare, Step, ice, ids, engine
<1>5. CASE Register
  BY <1>5 DEF Register, Step, ice, ids, engine
<1>6. CASE Reassign
  BY <1>6 DEF Reassign, ice, ids, engine
<1>7. CASE Succeed
  BY <1>7 DEF Succeed, Step, ice, ids, engine
<1>8. ASSUME NEW t \in {"attempt", "other"}, ClosePeer(t)
      PROVE  NothingStranded'
  BY <1>8 DEF ClosePeer, ice, ids, engine
<1>9. ASSUME NEW t \in {"attempt", "other"}, ClearState(t)
      PROVE  NothingStranded'
  BY <1>9 DEF ClearState, Clear, ice, ids, engine
<1>10. ASSUME NEW t \in {"attempt", "other"}, EndTeardown(t)
      PROVE  NothingStranded'
  BY <1>10 DEF EndTeardown, Step, ice, ids, engine
<1>11. CASE Wake
  BY <1>11 DEF Wake, Step, ice, ids, engine
<1>12. CASE ReadSession
  BY <1>12 DEF ReadSession, ice, ids, engine
<1>13. ASSUME NEW f \in Flushers, Flush(f)
      PROVE  NothingStranded'
  BY <1>13 DEF Flush, Step, LeftAfterTake, NothingToSend, Forget, ice, ids, engine
<1>14. ASSUME NEW f \in Flushers, FlushNothing(f)
      PROVE  NothingStranded'
  BY <1>14 DEF FlushNothing, Step, NothingToSend, After, Forget, ice, ids, engine
<1>15. ASSUME NEW f \in Flushers, Posted(f)
      PROVE  NothingStranded'
  BY <1>15 DEF Posted, Step, After, ice, ids, engine
<1>16. CASE Gather
  BY <1>16 DEF Gather, ice, ids, engine
<1>17. CASE GatheringComplete
  BY <1>17 DEF GatheringComplete, ice, ids, engine
<1>18. CASE HandleIce
  BY <1>18 DEF HandleIce, ice, ids, engine
<1>19. CASE NotifyFlush
  BY <1>19 DEF NotifyFlush, Step, Signal, ice, ids, engine
<1>20. CASE UNCHANGED vars
  BY <1>20 DEF vars, ice, ids, engine
<1> QED
  BY <1>1, <1>2, <1>3, <1>4, <1>5, <1>6, <1>7, <1>8, <1>9, <1>10,
     <1>11, <1>12, <1>13, <1>14, <1>15, <1>16, <1>17, <1>18, <1>19, <1>20
     DEF Next, Begin, Attempt, Teardown, Loop, Flusher, Engine

\* The one-slot signal is enough: whatever the pump, the attempt, the flush loop
\* and teardowns do, what may go out is never left in the buffer unnoticed while State
\* holds a session id.
THEOREM CandidatesAreNotStranded == Spec => []NothingStranded
<1>1. Init => Inv
  BY DEF Init, Inv, TasksOK, NothingStranded, Owed, IsFinal, Tasks, Flushers, attempt
<1>2. Inv /\ [Next]_vars => Inv'
  BY TasksStep, StrandedStep DEF Inv
<1>3. Inv => NothingStranded
  BY DEF Inv
<1> QED
  BY <1>1, <1>2, <1>3, PTL DEF Spec

----------------------------------------------------------------------------
(* Told once, under the right connection and session.                      *)

Candidates == Nat \X Nat
Batches == [session : Nat, connection : Nat, candidates : SUBSET Candidates, final : BOOLEAN]
Events == [kind : {"candidate", "complete"}, item : Candidates]

Preparing == pc["attempt"] \in {"create", "prepare"}

\* The data, and which peer connection may be gathering: an attempt that has not
\* prepared its own has at most an earlier one.
DataOK ==
    /\ peer \in 0..attempt /\ found \in Nat /\ url \in Nat
    /\ Preparing => peer < attempt
    /\ buffer \subseteq Candidates
    /\ posted \in Seq(Batches)
    /\ events \in Seq(Events)
    /\ env \subseteq {"prompt"}

\* A candidate that exists was found: its peer connection is not one to come, and
\* its number is not one to come.
Old(c) ==
    /\ c[1] # 0 /\ c[1] <= attempt
    /\ Preparing => c[1] < attempt
    /\ c[1] = peer => c[2] <= found

Queued(i) == events[i].kind = "candidate"

AllOld ==
    /\ \A i \in DOMAIN events : Queued(i) => Old(events[i].item)
    /\ \A c \in buffer : Old(c)
    /\ \A i \in DOMAIN posted : \A c \in posted[i].candidates : Old(c)

\* A candidate is in one place: in the pump's queue, in the buffer or posted.
Apart ==
    /\ \A i, j \in DOMAIN events :
         Queued(i) /\ Queued(j) /\ i # j => events[i].item # events[j].item
    /\ \A i \in DOMAIN events : Queued(i) =>
         /\ events[i].item \notin buffer
         /\ \A j \in DOMAIN posted : events[i].item \notin posted[j].candidates
    /\ \A i \in DOMAIN posted : buffer \cap posted[i].candidates = {}
    /\ NoDuplicates

\* Nothing is left of a connection.
Clean == peer = 0 /\ events = <<>> /\ buffer = {} /\ flags = {}

\* In a prompt environment, what is queued or buffered is of the current attempt, an
\* attempt begins clean, and candidates go out to its connection; a teardown that was
\* left alone has closed the peer connection.
Current ==
    /\ peer \in {0, attempt}
    /\ \A i \in DOMAIN events : events[i].item[1] = attempt
    /\ \A c \in buffer : c[1] = attempt
    /\ pc["attempt"] \in {"create", "prepare", "status"} => Clean
    /\ pc["attempt"] \in {"keep", "end"} => peer = 0
    /\ pc["attempt"] = "idle" =>
         /\ pc["other"] \in {"keep", "end"} => peer = 0
         /\ pc["other"] = "status" \/ ~up => Clean
    /\ pc["attempt"] = "register" => "ready" \notin flags
    /\ up => pc["attempt"] = "idle"
    /\ "ready" \in flags => connection = attempt

\* In a prompt environment, the session id is the attempt's from when it has one, and
\* what the loop has read is still the session id.
Homed ==
    /\ session # 0 /\ ("ready" \in flags \/ pc["attempt"] \in {"prepare", "register"})
         => session = homes[attempt]
    /\ pc["attempt"] = "create" => homes[attempt] = attempt
    /\ pc["loop"] = "flush" => url = session /\ url # 0

\* Every batch is of a connection that was made, and its own.
Owned ==
    /\ \A i \in DOMAIN posted : posted[i].connection \in 1..attempt
    /\ OwnCandidates

\* Of one connection, the end of gathering is still to come, queued, flagged or posted:
\* one of these, and once.
NotSent == \A i \in DOMAIN posted : posted[i].final => posted[i].connection # attempt

Ends ==
    /\ Preparing => NotSent
    /\ peer # 0 /\ found <= MaxCandidates =>
         NotSent /\ "gathered" \notin flags /\ \A i \in DOMAIN events : Queued(i)
    /\ \A i \in DOMAIN events : ~Queued(i) =>
         NotSent /\ "gathered" \notin flags /\ \A j \in DOMAIN events : i # j => Queued(j)
    /\ IsFinal => NotSent
    /\ FinalOnce

ToldInv ==
    /\ TasksOK /\ DataOK /\ AllOld /\ Apart
    /\ "prompt" \in env => Current /\ Homed /\ Owned /\ Ends

\* What the numbers in the data are.
LEMMA Numbers ==
    ASSUME TasksOK, DataOK
    PROVE  /\ attempt \in Nat /\ peer \in Nat /\ peer <= attempt /\ found \in Nat
           /\ Preparing => peer < attempt
           /\ \A i \in DOMAIN events :
                /\ events[i] \in Events
                /\ events[i].item[1] \in Nat /\ events[i].item[2] \in Nat
           /\ \A c \in buffer : c[1] \in Nat /\ c[2] \in Nat
           /\ \A i \in DOMAIN posted :
                /\ posted[i] \in Batches
                /\ posted[i].connection \in Nat /\ posted[i].session \in Nat
                /\ posted[i].final \in BOOLEAN
                /\ \A c \in posted[i].candidates : c[1] \in Nat /\ c[2] \in Nat
<1>1. \A i \in DOMAIN events : events[i] \in Events
  BY DEF DataOK
<1>2. \A i \in DOMAIN posted : posted[i] \in Batches
  BY DEF DataOK
<1>3. attempt \in Nat
  BY DEF TasksOK, attempt
<1> QED
  BY <1>1, <1>2, <1>3 DEF DataOK, Candidates, Batches, Events

\* An attempt begins by adding its session to the history: connect() one to come...
LEMMA ConnectEffect ==
    ASSUME homes \in Seq(Nat), Connect
    PROVE  /\ attempt' = attempt + 1 /\ attempt' \in Nat
           /\ homes'[attempt'] = attempt + 1
           /\ \A i \in 1..attempt : homes'[i] = homes[i]
<1>1. attempt \in Nat
  BY DEF attempt
<1> DEFINE h == attempt + 1
<1>2. h \in Nat /\ homes' = Append(homes, h)
  BY <1>1 DEF Connect
<1> HIDE DEF h
<1>3. /\ attempt' = attempt + 1 /\ attempt' \in Nat /\ homes'[attempt'] = h
      /\ \A i \in 1..attempt : homes'[i] = homes[i]
  BY <1>1, <1>2 DEF attempt
<1> QED
  BY <1>3 DEF h

\* ... and reconnect() the one it keeps.
LEMMA ReconnectEffect ==
    ASSUME homes \in Seq(Nat), session \in Nat, Reconnect
    PROVE  /\ attempt' = attempt + 1 /\ attempt' \in Nat
           /\ homes'[attempt'] = session
           /\ \A i \in 1..attempt : homes'[i] = homes[i]
<1>1. attempt \in Nat
  BY DEF attempt
<1> DEFINE h == session
<1>2. h \in Nat /\ homes' = Append(homes, h)
  BY <1>1 DEF Reconnect
<1> HIDE DEF h
<1>3. /\ attempt' = attempt + 1 /\ attempt' \in Nat /\ homes'[attempt'] = h
      /\ \A i \in 1..attempt : homes'[i] = homes[i]
  BY <1>1, <1>2 DEF attempt
<1> QED
  BY <1>3 DEF h

\* Sequences, as functions on their indices.
Added(n, old, new, e) ==
    /\ n \notin DOMAIN old /\ DOMAIN new = DOMAIN old \cup {n}
    /\ new[n] = e
    /\ \A i \in DOMAIN old : new[i] = old[i]

\* An appended sequence is a well-typed one with the new element added at its end.
LEMMA Appended ==
    ASSUME NEW S, NEW s \in Seq(S), NEW e \in S
    PROVE  Append(s, e) \in Seq(S) /\ \E n : Added(n, s, Append(s, e), e)
<1>1. Added(Len(s) + 1, s, Append(s, e), e)
  BY DEF Added
<1> QED
  BY <1>1

Moved(i, old, new) == i \in Nat /\ i + 1 \in DOMAIN old /\ new[i] = old[i + 1]

\* A tail holds the elements after the first, each one place earlier.
LEMMA Shortened ==
    ASSUME NEW S, NEW s \in Seq(S), s # <<>>
    PROVE  /\ Tail(s) \in Seq(S) /\ 1 \in DOMAIN s /\ Head(s) = s[1]
           /\ \A i \in DOMAIN Tail(s) : i # 0 /\ Moved(i, s, Tail(s))
  BY DEF Moved

\* What the steps that queue, take or post do, index by index.
Queues(e) == events' \in Seq(Events) /\ \E n : Added(n, events, events', e)

\* A found candidate is queued, and is the newest of its peer connection.
LEMMA GatherEffect ==
    ASSUME TasksOK, DataOK, Gather
    PROVE  /\ peer # 0 /\ found < MaxCandidates /\ found' = found + 1
           /\ UNCHANGED <<buffer, flags, session, connection, up, wake, pc, url, homes, attempt,
                          peer, env, posted>>
           /\ Queues([kind |-> "candidate", item |-> <<peer, found + 1>>])
<1>1. [kind |-> "candidate", item |-> <<peer, found + 1>>] \in Events
  BY Numbers DEF Events, Candidates
<1> QED
  BY <1>1, Appended DEF Gather, DataOK, Queues, ice, ids, attempt

\* The end of gathering queues one event and finds no more candidates.
LEMMA CompleteEffect ==
    ASSUME TasksOK, DataOK, GatheringComplete
    PROVE  /\ peer # 0 /\ found <= MaxCandidates /\ found' = MaxCandidates + 1
           /\ UNCHANGED <<buffer, flags, session, connection, up, wake, pc, url, homes, attempt,
                          peer, env, posted>>
           /\ Queues([kind |-> "complete", item |-> <<peer, 0>>])
<1>1. [kind |-> "complete", item |-> <<peer, 0>>] \in Events
  BY Numbers DEF Events, Candidates
<1> QED
  BY <1>1, Appended DEF GatheringComplete, DataOK, Queues, ice, ids, attempt

\* The pump takes the first event, and keeps its candidate or notes the end.
LEMMA HandleEffect ==
    ASSUME TasksOK, DataOK, HandleIce
    PROVE  /\ 1 \in DOMAIN events
           /\ IF events[1].kind = "candidate"
                THEN buffer' = buffer \cup {events[1].item} /\ UNCHANGED flags
                ELSE flags' = flags \cup {"gathered"} /\ UNCHANGED buffer
           /\ events' \in Seq(Events)
           /\ \A i \in DOMAIN events' : i # 0 /\ Moved(i, events, events')
           /\ \A i, j \in DOMAIN events' :
                /\ i + 1 \in DOMAIN events /\ i + 1 # 1 /\ events'[i] = events[i + 1]
                /\ i # j => i + 1 # j + 1
           /\ \A t \in Tasks \ {"pump"} : pc'[t] = pc[t]
           /\ UNCHANGED <<session, connection, up, wake, url, homes, attempt, peer, found, env, posted>>
<1>1. /\ events' \in Seq(Events) /\ 1 \in DOMAIN events /\ Head(events) = events[1]
      /\ \A i \in DOMAIN events' : i # 0 /\ Moved(i, events, events')
  BY Shortened DEF HandleIce, DataOK
<1>2. \A t \in Tasks \ {"pump"} : pc'[t] = pc[t]
  BY DEF HandleIce, TasksOK
<1>3. \A i, j \in DOMAIN events' :
        /\ i + 1 \in DOMAIN events /\ i + 1 # 1 /\ events'[i] = events[i + 1]
        /\ i # j => i + 1 # j + 1
  BY <1>1 DEF Moved
<1> QED
  BY <1>1, <1>2, <1>3 DEF HandleIce, engine, ids, attempt

\* A flush takes the whole buffer and posts it.
LEMMA FlushEffect ==
    ASSUME TasksOK, DataOK, NEW f \in Flushers, Flush(f)
    PROVE  /\ pc[f] = "flush" /\ pc'[f] = "post" /\ \A t \in Tasks \ {f} : pc'[t] = pc[t]
           /\ "ready" \in flags /\ connection # 0 /\ buffer' = {}
           /\ flags' = IF IsFinal THEN flags \cup {"final"} ELSE flags
           /\ url' = IF f = "loop" THEN 0 ELSE url
           /\ UNCHANGED <<session, connection, up, wake, homes, attempt, peer, found, env, events>>
           /\ posted' \in Seq(Batches)
           /\ \E n, b : /\ Added(n, posted, posted', b)
                        /\ b.session = Home(f) /\ b.connection = connection
                        /\ b.candidates = buffer /\ b.final = IsFinal
<1> DEFINE b == [session |-> Home(f), connection |-> connection,
                 candidates |-> buffer, final |-> IsFinal]
<1>1. Home(f) \in Nat
  <2>1. CASE f = "loop"
    BY <2>1 DEF Home, DataOK
  <2>2. CASE f = "attempt"
    <3>1. attempt \in DOMAIN homes
      BY <2>2 DEF Flush, Step, TasksOK, attempt
    <3> QED
      BY <3>1, <2>2 DEF Home, TasksOK
  <2> QED
    BY <2>1, <2>2 DEF Flushers
<1>2. b \in Batches
  BY <1>1 DEF Batches, DataOK, TasksOK, IsFinal
<1>3. posted' = Append(posted, b)
  BY DEF Flush
<1>4. posted' \in Seq(Batches) /\ \E n : Added(n, posted, posted', b)
  BY <1>2, <1>3, Appended DEF DataOK
<1>5. \E n, c : /\ Added(n, posted, posted', c)
                /\ c.session = Home(f) /\ c.connection = connection
                /\ c.candidates = buffer /\ c.final = IsFinal
  BY <1>4
<1> HIDE DEF b
<1>6. url' = IF f = "loop" THEN 0 ELSE url
  BY DEF Flush, Forget
<1>7. pc[f] = "flush" /\ pc'[f] = "post" /\ \A t \in Tasks \ {f} : pc'[t] = pc[t]
  BY DEF Flush, Step, TasksOK, Tasks
<1> QED
  BY <1>4, <1>5, <1>6, <1>7 DEF Flush, NothingToSend, LeftAfterTake, ids, engine, attempt

\* Every action keeps the data.
LEMMA DataStep ==
    ASSUME TasksOK, DataOK, [Next]_vars
    PROVE  DataOK'
<1> USE DEF Tasks, Flushers, TasksOK, DataOK, Preparing
<1>0. /\ attempt \in Nat /\ peer \in Nat /\ peer <= attempt /\ found \in Nat
      /\ Preparing => peer < attempt
      /\ UNCHANGED homes => UNCHANGED attempt
      /\ \A i \in DOMAIN events : events[i].item[1] \in Nat /\ events[i].item[2] \in Nat
      /\ \A c \in buffer : c[1] \in Nat /\ c[2] \in Nat
      /\ \A i \in DOMAIN posted :
           /\ posted[i].connection \in Nat /\ posted[i].final \in BOOLEAN
           /\ \A c \in posted[i].candidates : c[1] \in Nat /\ c[2] \in Nat
  BY Numbers DEF attempt
<1>1. CASE Connect
  <2>1. attempt' = attempt + 1 /\ attempt' \in Nat /\ homes' \in Seq(Nat)
    BY <1>1, <1>0, Begun DEF Connect, Reconnect
  <2> QED
    BY <1>1, <1>0, <2>1 DEF Connect, Step, Clear, CaughtUp, ice, ids, engine
<1>2. CASE Reconnect
  <2>1. attempt' = attempt + 1 /\ attempt' \in Nat /\ homes' \in Seq(Nat)
    BY <1>2, <1>0, Begun DEF Connect, Reconnect
  <2> QED
    BY <1>2, <1>0, <2>1 DEF Reconnect, Step, Clear, CaughtUp, ice, ids, engine
<1>3. CASE StoreSession
  BY <1>3, <1>0 DEF StoreSession, Step, ice, ids, engine
<1>4. CASE Prepare
  BY <1>4, <1>0 DEF Prepare, Step, ice, ids, engine
<1>5. CASE Register
  BY <1>5, <1>0 DEF Register, Step, ice, ids, engine
<1>6. CASE Reassign
  BY <1>6, <1>0 DEF Reassign, ice, ids, engine
<1>7. CASE Succeed
  BY <1>7, <1>0 DEF Succeed, Step, ice, ids, engine
<1>8. ASSUME NEW t \in {"attempt", "other"}, ClosePeer(t)
      PROVE  DataOK'
  BY <1>8, <1>0 DEF ClosePeer, ice, ids, engine
<1>9. ASSUME NEW t \in {"attempt", "other"}, ClearState(t)
      PROVE  DataOK'
  BY <1>9, <1>0 DEF ClearState, Clear, ice, ids, engine
<1>10. ASSUME NEW t \in {"attempt", "other"}, EndTeardown(t)
      PROVE  DataOK'
  BY <1>10, <1>0 DEF EndTeardown, Step, ice, ids, engine
<1>11. CASE Wake
  BY <1>11, <1>0 DEF Wake, Step, ice, ids, engine
<1>12. CASE ReadSession
  BY <1>12, <1>0 DEF ReadSession, ice, ids, engine
<1>13. ASSUME NEW f \in Flushers, Flush(f)
      PROVE  DataOK'
  <2>1. posted' \in Seq(Batches) /\ buffer' = {} /\ url' \in Nat
    BY <1>13, FlushEffect
  <2>2. UNCHANGED <<attempt, peer, found, env, events>>
    BY <1>13, FlushEffect
  <2>3. Preparing' => Preparing
    BY <1>13, FlushEffect
  <2> QED
    BY <2>1, <2>2, <2>3
<1>14. ASSUME NEW f \in Flushers, FlushNothing(f)
      PROVE  DataOK'
  BY <1>14, <1>0 DEF FlushNothing, Step, NothingToSend, After, Forget, ice, ids, engine
<1>15. ASSUME NEW f \in Flushers, Posted(f)
      PROVE  DataOK'
  BY <1>15, <1>0 DEF Posted, Step, After, ice, ids, engine
<1>16. CASE Gather
  <2>1. events' \in Seq(Events) /\ found' \in Nat
    BY <1>16, <1>0, GatherEffect DEF Queues
  <2>2. UNCHANGED <<pc, buffer, url, attempt, peer, env, posted>>
    BY <1>16, GatherEffect
  <2> QED
    BY <2>1, <2>2
<1>17. CASE GatheringComplete
  <2>1. events' \in Seq(Events) /\ found' \in Nat
    BY <1>17, <1>0, CompleteEffect, BoundsAssumption DEF Queues
  <2>2. UNCHANGED <<pc, buffer, url, attempt, peer, env, posted>>
    BY <1>17, CompleteEffect
  <2> QED
    BY <2>1, <2>2
<1>18. CASE HandleIce
  <2>1. events[1].item \in Candidates /\ buffer' \subseteq Candidates
    BY <1>18, HandleEffect, Numbers DEF Events
  <2> QED
    BY <1>18, <2>1, <1>0, HandleEffect
<1>19. CASE NotifyFlush
  BY <1>19, <1>0 DEF NotifyFlush, Step, Signal, ice, ids, engine
<1>20. CASE UNCHANGED vars
  BY <1>20, <1>0 DEF vars, ice, ids, engine
<1> QED
  BY <1>1, <1>2, <1>3, <1>4, <1>5, <1>6, <1>7, <1>8, <1>9, <1>10,
     <1>11, <1>12, <1>13, <1>14, <1>15, <1>16, <1>17, <1>18, <1>19, <1>20
     DEF Next, Begin, Attempt, Teardown, Loop, Flusher, Engine

\* Every action keeps candidates old: one is new only when it is found.
LEMMA OldStep ==
    ASSUME TasksOK, DataOK, AllOld, [Next]_vars
    PROVE  AllOld'
<1> USE DEF Tasks, Flushers, TasksOK, AllOld, Old, Queued, Preparing
<1>0. /\ attempt \in Nat /\ peer \in Nat /\ peer <= attempt /\ found \in Nat
      /\ Preparing => peer < attempt
      /\ UNCHANGED homes => UNCHANGED attempt
      /\ \A i \in DOMAIN events : events[i].item[1] \in Nat /\ events[i].item[2] \in Nat
      /\ \A c \in buffer : c[1] \in Nat /\ c[2] \in Nat
      /\ \A i \in DOMAIN posted :
           /\ posted[i].connection \in Nat /\ posted[i].final \in BOOLEAN
           /\ \A c \in posted[i].candidates : c[1] \in Nat /\ c[2] \in Nat
  BY Numbers DEF attempt
<1>1. CASE Connect
  <2>1. attempt' = attempt + 1 /\ attempt' \in Nat /\ homes' \in Seq(Nat)
    BY <1>1, <1>0, Begun DEF Connect, Reconnect
  <2> QED
    BY <1>1, <1>0, <2>1 DEF Connect, Step, Clear, CaughtUp, ice, ids, engine
<1>2. CASE Reconnect
  <2>1. attempt' = attempt + 1 /\ attempt' \in Nat /\ homes' \in Seq(Nat)
    BY <1>2, <1>0, Begun DEF Connect, Reconnect
  <2> QED
    BY <1>2, <1>0, <2>1 DEF Reconnect, Step, Clear, CaughtUp, ice, ids, engine
<1>3. CASE StoreSession
  BY <1>3, <1>0 DEF StoreSession, Step, ice, ids, engine
<1>4. CASE Prepare
  BY <1>4, <1>0 DEF Prepare, Step, ice, ids, engine
<1>5. CASE Register
  BY <1>5, <1>0 DEF Register, Step, ice, ids, engine
<1>6. CASE Reassign
  BY <1>6, <1>0 DEF Reassign, ice, ids, engine
<1>7. CASE Succeed
  BY <1>7, <1>0 DEF Succeed, Step, ice, ids, engine
<1>8. ASSUME NEW t \in {"attempt", "other"}, ClosePeer(t)
      PROVE  AllOld'
  BY <1>8, <1>0 DEF ClosePeer, ice, ids, engine
<1>9. ASSUME NEW t \in {"attempt", "other"}, ClearState(t)
      PROVE  AllOld'
  BY <1>9, <1>0 DEF ClearState, Clear, ice, ids, engine
<1>10. ASSUME NEW t \in {"attempt", "other"}, EndTeardown(t)
      PROVE  AllOld'
  BY <1>10, <1>0 DEF EndTeardown, Step, ice, ids, engine
<1>11. CASE Wake
  BY <1>11, <1>0 DEF Wake, Step, ice, ids, engine
<1>12. CASE ReadSession
  BY <1>12, <1>0 DEF ReadSession, ice, ids, engine
<1>13. ASSUME NEW f \in Flushers, Flush(f)
      PROVE  AllOld'
  <2>1. PICK n, b : /\ Added(n, posted, posted', b)
                    /\ b.session = Home(f) /\ b.connection = connection
                    /\ b.candidates = buffer /\ b.final = IsFinal
    BY <1>13, FlushEffect
  <2> QED
    BY <1>13, <2>1, <1>0, FlushEffect DEF Added, NothingToSend
<1>14. ASSUME NEW f \in Flushers, FlushNothing(f)
      PROVE  AllOld'
  BY <1>14, <1>0 DEF FlushNothing, Step, NothingToSend, After, Forget, ice, ids, engine
<1>15. ASSUME NEW f \in Flushers, Posted(f)
      PROVE  AllOld'
  BY <1>15, <1>0 DEF Posted, Step, After, ice, ids, engine
<1>16. CASE Gather
  <2>1. PICK n : Added(n, events, events', [kind |-> "candidate", item |-> <<peer, found + 1>>])
    BY <1>16, GatherEffect DEF Queues
  <2>2. /\ peer # 0 /\ UNCHANGED <<pc, buffer, flags, session, connection, up, url, homes, attempt,
                                   peer, posted>>
        /\ found < MaxCandidates /\ found' = found + 1
    BY <1>16, GatherEffect
  <2> QED
    BY <2>1, <2>2, <1>0 DEF Added
<1>17. CASE GatheringComplete
  <2>1. PICK n : Added(n, events, events', [kind |-> "complete", item |-> <<peer, 0>>])
    BY <1>17, CompleteEffect DEF Queues
  <2>2. /\ peer # 0 /\ UNCHANGED <<pc, buffer, flags, session, connection, up, url, homes, attempt,
                                   peer, posted>>
        /\ found <= MaxCandidates /\ found' = MaxCandidates + 1
    BY <1>17, CompleteEffect
  <2> QED
    BY <2>1, <2>2, <1>0, BoundsAssumption DEF Added
<1>18. CASE HandleIce
  <2>1. /\ 1 \in DOMAIN events
        /\ \A i, j \in DOMAIN events' :
             /\ i + 1 \in DOMAIN events /\ i + 1 # 1 /\ events'[i] = events[i + 1]
             /\ i # j => i + 1 # j + 1
        /\ UNCHANGED <<session, connection, up, url, homes, attempt, peer, found, posted>>
        /\ \A t \in {"attempt", "loop", "other"} : pc'[t] = pc[t]
    BY <1>18, HandleEffect
  <2>2. CASE events[1].kind = "candidate"
    <3>1. buffer' = buffer \cup {events[1].item} /\ flags' = flags
      BY <1>18, <2>2, HandleEffect
    <3> QED
      BY <2>1, <2>2, <3>1, <1>0
  <2>3. CASE events[1].kind # "candidate"
    <3>1. flags' = flags \cup {"gathered"} /\ buffer' = buffer
      BY <1>18, <2>3, HandleEffect
    <3> QED
      BY <2>1, <2>3, <3>1, <1>0
  <2> QED
    BY <2>2, <2>3
<1>19. CASE NotifyFlush
  BY <1>19, <1>0 DEF NotifyFlush, Step, Signal, ice, ids, engine
<1>20. CASE UNCHANGED vars
  BY <1>20, <1>0 DEF vars, ice, ids, engine
<1> QED
  BY <1>1, <1>2, <1>3, <1>4, <1>5, <1>6, <1>7, <1>8, <1>9, <1>10,
     <1>11, <1>12, <1>13, <1>14, <1>15, <1>16, <1>17, <1>18, <1>19, <1>20
     DEF Next, Begin, Attempt, Teardown, Loop, Flusher, Engine

\* Every action keeps a candidate in one place.
LEMMA ApartStep ==
    ASSUME TasksOK, DataOK, AllOld, Apart, [Next]_vars
    PROVE  Apart'
<1> USE DEF Tasks, Flushers, TasksOK, Apart, NoDuplicates, Queued
<1>0. /\ attempt \in Nat /\ peer \in Nat /\ peer <= attempt /\ found \in Nat
      /\ Preparing => peer < attempt
      /\ UNCHANGED homes => UNCHANGED attempt
      /\ \A i \in DOMAIN events : events[i].item[1] \in Nat /\ events[i].item[2] \in Nat
      /\ \A c \in buffer : c[1] \in Nat /\ c[2] \in Nat
      /\ \A i \in DOMAIN posted :
           /\ posted[i].connection \in Nat /\ posted[i].final \in BOOLEAN
           /\ \A c \in posted[i].candidates : c[1] \in Nat /\ c[2] \in Nat
  BY Numbers DEF attempt
<1>1. CASE Connect
  <2>1. attempt' = attempt + 1 /\ attempt' \in Nat /\ homes' \in Seq(Nat)
    BY <1>1, <1>0, Begun DEF Connect, Reconnect
  <2> QED
    BY <1>1, <1>0, <2>1 DEF Connect, Step, Clear, CaughtUp, ice, ids, engine
<1>2. CASE Reconnect
  <2>1. attempt' = attempt + 1 /\ attempt' \in Nat /\ homes' \in Seq(Nat)
    BY <1>2, <1>0, Begun DEF Connect, Reconnect
  <2> QED
    BY <1>2, <1>0, <2>1 DEF Reconnect, Step, Clear, CaughtUp, ice, ids, engine
<1>3. CASE StoreSession
  BY <1>3, <1>0 DEF StoreSession, Step, ice, ids, engine
<1>4. CASE Prepare
  BY <1>4, <1>0 DEF Prepare, Step, ice, ids, engine
<1>5. CASE Register
  BY <1>5, <1>0 DEF Register, Step, ice, ids, engine
<1>6. CASE Reassign
  BY <1>6, <1>0 DEF Reassign, ice, ids, engine
<1>7. CASE Succeed
  BY <1>7, <1>0 DEF Succeed, Step, ice, ids, engine
<1>8. ASSUME NEW t \in {"attempt", "other"}, ClosePeer(t)
      PROVE  Apart'
  BY <1>8, <1>0 DEF ClosePeer, ice, ids, engine
<1>9. ASSUME NEW t \in {"attempt", "other"}, ClearState(t)
      PROVE  Apart'
  BY <1>9, <1>0 DEF ClearState, Clear, ice, ids, engine
<1>10. ASSUME NEW t \in {"attempt", "other"}, EndTeardown(t)
      PROVE  Apart'
  BY <1>10, <1>0 DEF EndTeardown, Step, ice, ids, engine
<1>11. CASE Wake
  BY <1>11, <1>0 DEF Wake, Step, ice, ids, engine
<1>12. CASE ReadSession
  BY <1>12, <1>0 DEF ReadSession, ice, ids, engine
<1>13. ASSUME NEW f \in Flushers, Flush(f)
      PROVE  Apart'
  <2>1. PICK n, b : /\ Added(n, posted, posted', b)
                    /\ b.session = Home(f) /\ b.connection = connection
                    /\ b.candidates = buffer /\ b.final = IsFinal
    BY <1>13, FlushEffect
  <2> QED
    BY <1>13, <2>1, <1>0, FlushEffect DEF Added, NothingToSend
<1>14. ASSUME NEW f \in Flushers, FlushNothing(f)
      PROVE  Apart'
  BY <1>14, <1>0 DEF FlushNothing, Step, NothingToSend, After, Forget, ice, ids, engine
<1>15. ASSUME NEW f \in Flushers, Posted(f)
      PROVE  Apart'
  BY <1>15, <1>0 DEF Posted, Step, After, ice, ids, engine
<1>16. CASE Gather
  <2>1. PICK n : Added(n, events, events', [kind |-> "candidate", item |-> <<peer, found + 1>>])
    BY <1>16, GatherEffect DEF Queues
  <2>2. /\ peer # 0 /\ UNCHANGED <<pc, buffer, flags, session, connection, up, url, homes, attempt,
                                   peer, posted>>
        /\ found < MaxCandidates /\ found' = found + 1
    BY <1>16, GatherEffect
  <2> QED
    BY <2>1, <2>2, <1>0 DEF Added, AllOld, Old
<1>17. CASE GatheringComplete
  <2>1. PICK n : Added(n, events, events', [kind |-> "complete", item |-> <<peer, 0>>])
    BY <1>17, CompleteEffect DEF Queues
  <2>2. /\ peer # 0 /\ UNCHANGED <<pc, buffer, flags, session, connection, up, url, homes, attempt,
                                   peer, posted>>
        /\ found <= MaxCandidates /\ found' = MaxCandidates + 1
    BY <1>17, CompleteEffect
  <2> QED
    BY <2>1, <2>2, <1>0 DEF Added
<1>18. CASE HandleIce
  <2>1. /\ 1 \in DOMAIN events
        /\ \A i, j \in DOMAIN events' :
             /\ i + 1 \in DOMAIN events /\ i + 1 # 1 /\ events'[i] = events[i + 1]
             /\ i # j => i + 1 # j + 1
        /\ UNCHANGED <<session, connection, up, url, homes, attempt, peer, found, posted>>
        /\ \A t \in {"attempt", "loop", "other"} : pc'[t] = pc[t]
    BY <1>18, HandleEffect
  <2>2. CASE events[1].kind = "candidate"
    <3>1. buffer' = buffer \cup {events[1].item} /\ flags' = flags
      BY <1>18, <2>2, HandleEffect
    <3> QED
      BY <2>1, <2>2, <3>1, <1>0
  <2>3. CASE events[1].kind # "candidate"
    <3>1. flags' = flags \cup {"gathered"} /\ buffer' = buffer
      BY <1>18, <2>3, HandleEffect
    <3> QED
      BY <2>1, <2>3, <3>1, <1>0
  <2> QED
    BY <2>2, <2>3
<1>19. CASE NotifyFlush
  BY <1>19, <1>0 DEF NotifyFlush, Step, Signal, ice, ids, engine
<1>20. CASE UNCHANGED vars
  BY <1>20, <1>0 DEF vars, ice, ids, engine
<1> QED
  BY <1>1, <1>2, <1>3, <1>4, <1>5, <1>6, <1>7, <1>8, <1>9, <1>10,
     <1>11, <1>12, <1>13, <1>14, <1>15, <1>16, <1>17, <1>18, <1>19, <1>20
     DEF Next, Begin, Attempt, Teardown, Loop, Flusher, Engine

\* In a prompt environment, every action keeps connections apart.
LEMMA CurrentStep ==
    ASSUME "prompt" \in env, TasksOK, DataOK, Current, [Next]_vars
    PROVE  Current'
<1> USE DEF Tasks, Flushers, TasksOK, Current, Clean
<1>0. /\ attempt \in Nat /\ peer \in Nat /\ peer <= attempt /\ found \in Nat
      /\ Preparing => peer < attempt
      /\ UNCHANGED homes => UNCHANGED attempt
      /\ \A i \in DOMAIN events : events[i].item[1] \in Nat /\ events[i].item[2] \in Nat
      /\ \A c \in buffer : c[1] \in Nat /\ c[2] \in Nat
      /\ \A i \in DOMAIN posted :
           /\ posted[i].connection \in Nat /\ posted[i].final \in BOOLEAN
           /\ \A c \in posted[i].candidates : c[1] \in Nat /\ c[2] \in Nat
  BY Numbers DEF attempt
<1>1. CASE Connect
  <2>1. /\ attempt' = attempt + 1 /\ attempt' \in Nat
        /\ homes'[attempt'] = attempt + 1
        /\ \A i \in 1..attempt : homes'[i] = homes[i]
    BY <1>1, ConnectEffect
  <2> QED
    BY <1>1, <1>0, <2>1 DEF Connect, Step, Clear, CaughtUp, ice, ids, engine
<1>2. CASE Reconnect
  <2>1. /\ attempt' = attempt + 1 /\ attempt' \in Nat
        /\ homes'[attempt'] = session
        /\ \A i \in 1..attempt : homes'[i] = homes[i]
    BY <1>2, ReconnectEffect
  <2> QED
    BY <1>2, <1>0, <2>1 DEF Reconnect, Step, Clear, CaughtUp, ice, ids, engine
<1>3. CASE StoreSession
  BY <1>3, <1>0 DEF StoreSession, Step, CaughtUp, Unbroken, ice, ids, engine
<1>4. CASE Prepare
  BY <1>4, <1>0 DEF Prepare, Step, ice, ids, engine
<1>5. CASE Register
  BY <1>5, <1>0 DEF Register, Step, ice, ids, engine
<1>6. CASE Reassign
  BY <1>6, <1>0 DEF Reassign, ice, ids, engine
<1>7. CASE Succeed
  BY <1>7, <1>0 DEF Succeed, Step, Settled, ice, ids, engine
<1>8. ASSUME NEW t \in {"attempt", "other"}, ClosePeer(t)
      PROVE  Current'
  BY <1>8, <1>0 DEF ClosePeer, ice, ids, engine
<1>9. ASSUME NEW t \in {"attempt", "other"}, ClearState(t)
      PROVE  Current'
  BY <1>9, <1>0 DEF ClearState, Clear, CaughtUp, Unbroken, ice, ids, engine
<1>10. ASSUME NEW t \in {"attempt", "other"}, EndTeardown(t)
      PROVE  Current'
  BY <1>10, <1>0 DEF EndTeardown, Step, ice, ids, engine
<1>11. CASE Wake
  BY <1>11, <1>0 DEF Wake, Step, ice, ids, engine
<1>12. CASE ReadSession
  BY <1>12, <1>0 DEF ReadSession, ice, ids, engine
<1>13. ASSUME NEW f \in Flushers, Flush(f)
      PROVE  Current'
  <2>1. PICK n, b : /\ Added(n, posted, posted', b)
                    /\ b.session = Home(f) /\ b.connection = connection
                    /\ b.candidates = buffer /\ b.final = IsFinal
    BY <1>13, FlushEffect
  <2> QED
    BY <1>13, <2>1, <1>0, FlushEffect DEF Added, NothingToSend
<1>14. ASSUME NEW f \in Flushers, FlushNothing(f)
      PROVE  Current'
  BY <1>14, <1>0 DEF FlushNothing, Step, NothingToSend, After, Forget, ice, ids, engine
<1>15. ASSUME NEW f \in Flushers, Posted(f)
      PROVE  Current'
  BY <1>15, <1>0 DEF Posted, Step, After, ice, ids, engine
<1>16. CASE Gather
  <2>1. PICK n : Added(n, events, events', [kind |-> "candidate", item |-> <<peer, found + 1>>])
    BY <1>16, GatherEffect DEF Queues
  <2>2. /\ peer # 0 /\ UNCHANGED <<pc, buffer, flags, session, connection, up, url, homes, attempt,
                                   peer, posted>>
        /\ found < MaxCandidates /\ found' = found + 1
    BY <1>16, GatherEffect
  <2> QED
    BY <2>1, <2>2, <1>0 DEF Added
<1>17. CASE GatheringComplete
  <2>1. PICK n : Added(n, events, events', [kind |-> "complete", item |-> <<peer, 0>>])
    BY <1>17, CompleteEffect DEF Queues
  <2>2. /\ peer # 0 /\ UNCHANGED <<pc, buffer, flags, session, connection, up, url, homes, attempt,
                                   peer, posted>>
        /\ found <= MaxCandidates /\ found' = MaxCandidates + 1
    BY <1>17, CompleteEffect
  <2> QED
    BY <2>1, <2>2, <1>0 DEF Added
<1>18. CASE HandleIce
  <2>1. /\ 1 \in DOMAIN events
        /\ \A i, j \in DOMAIN events' :
             /\ i + 1 \in DOMAIN events /\ i + 1 # 1 /\ events'[i] = events[i + 1]
             /\ i # j => i + 1 # j + 1
        /\ UNCHANGED <<session, connection, up, url, homes, attempt, peer, found, posted>>
        /\ \A t \in {"attempt", "loop", "other"} : pc'[t] = pc[t]
    BY <1>18, HandleEffect
  <2>2. CASE events[1].kind = "candidate"
    <3>1. buffer' = buffer \cup {events[1].item} /\ flags' = flags
      BY <1>18, <2>2, HandleEffect
    <3> QED
      BY <2>1, <2>2, <3>1, <1>0
  <2>3. CASE events[1].kind # "candidate"
    <3>1. flags' = flags \cup {"gathered"} /\ buffer' = buffer
      BY <1>18, <2>3, HandleEffect
    <3> QED
      BY <2>1, <2>3, <3>1, <1>0
  <2> QED
    BY <2>2, <2>3
<1>19. CASE NotifyFlush
  BY <1>19, <1>0 DEF NotifyFlush, Step, Signal, ice, ids, engine
<1>20. CASE UNCHANGED vars
  BY <1>20, <1>0 DEF vars, ice, ids, engine
<1> QED
  BY <1>1, <1>2, <1>3, <1>4, <1>5, <1>6, <1>7, <1>8, <1>9, <1>10,
     <1>11, <1>12, <1>13, <1>14, <1>15, <1>16, <1>17, <1>18, <1>19, <1>20
     DEF Next, Begin, Attempt, Teardown, Loop, Flusher, Engine

\* In a prompt environment, every action keeps to the attempt's session.
LEMMA HomedStep ==
    ASSUME "prompt" \in env, TasksOK, DataOK, Current, Homed, [Next]_vars
    PROVE  Homed'
<1> USE DEF Tasks, Flushers, TasksOK, Homed, Current, Clean
<1>0. /\ attempt \in Nat /\ peer \in Nat /\ peer <= attempt /\ found \in Nat
      /\ Preparing => peer < attempt
      /\ UNCHANGED homes => UNCHANGED attempt
      /\ \A i \in DOMAIN events : events[i].item[1] \in Nat /\ events[i].item[2] \in Nat
      /\ \A c \in buffer : c[1] \in Nat /\ c[2] \in Nat
      /\ \A i \in DOMAIN posted :
           /\ posted[i].connection \in Nat /\ posted[i].final \in BOOLEAN
           /\ \A c \in posted[i].candidates : c[1] \in Nat /\ c[2] \in Nat
  BY Numbers DEF attempt
<1>1. CASE Connect
  <2>1. /\ attempt' = attempt + 1 /\ attempt' \in Nat
        /\ homes'[attempt'] = attempt + 1
        /\ \A i \in 1..attempt : homes'[i] = homes[i]
    BY <1>1, ConnectEffect
  <2> QED
    BY <1>1, <1>0, <2>1 DEF Connect, Step, Clear, CaughtUp, ice, ids, engine
<1>2. CASE Reconnect
  <2>1. /\ attempt' = attempt + 1 /\ attempt' \in Nat
        /\ homes'[attempt'] = session
        /\ \A i \in 1..attempt : homes'[i] = homes[i]
    BY <1>2, ReconnectEffect
  <2> QED
    BY <1>2, <1>0, <2>1 DEF Reconnect, Step, Clear, CaughtUp, ice, ids, engine
<1>3. CASE StoreSession
  BY <1>3, <1>0 DEF StoreSession, Step, CaughtUp, Unbroken, ice, ids, engine
<1>4. CASE Prepare
  BY <1>4, <1>0 DEF Prepare, Step, ice, ids, engine
<1>5. CASE Register
  BY <1>5, <1>0 DEF Register, Step, ice, ids, engine
<1>6. CASE Reassign
  BY <1>6, <1>0 DEF Reassign, ice, ids, engine
<1>7. CASE Succeed
  BY <1>7, <1>0 DEF Succeed, Step, Settled, ice, ids, engine
<1>8. ASSUME NEW t \in {"attempt", "other"}, ClosePeer(t)
      PROVE  Homed'
  BY <1>8, <1>0 DEF ClosePeer, ice, ids, engine
<1>9. ASSUME NEW t \in {"attempt", "other"}, ClearState(t)
      PROVE  Homed'
  BY <1>9, <1>0 DEF ClearState, Clear, CaughtUp, Unbroken, ice, ids, engine
<1>10. ASSUME NEW t \in {"attempt", "other"}, EndTeardown(t)
      PROVE  Homed'
  BY <1>10, <1>0 DEF EndTeardown, Step, ice, ids, engine
<1>11. CASE Wake
  BY <1>11, <1>0 DEF Wake, Step, ice, ids, engine
<1>12. CASE ReadSession
  BY <1>12, <1>0 DEF ReadSession, ice, ids, engine
<1>13. ASSUME NEW f \in Flushers, Flush(f)
      PROVE  Homed'
  <2>1. PICK n, b : /\ Added(n, posted, posted', b)
                    /\ b.session = Home(f) /\ b.connection = connection
                    /\ b.candidates = buffer /\ b.final = IsFinal
    BY <1>13, FlushEffect
  <2> QED
    BY <1>13, <2>1, <1>0, FlushEffect DEF Added, NothingToSend
<1>14. ASSUME NEW f \in Flushers, FlushNothing(f)
      PROVE  Homed'
  BY <1>14, <1>0 DEF FlushNothing, Step, NothingToSend, After, Forget, ice, ids, engine
<1>15. ASSUME NEW f \in Flushers, Posted(f)
      PROVE  Homed'
  BY <1>15, <1>0 DEF Posted, Step, After, ice, ids, engine
<1>16. CASE Gather
  <2>1. PICK n : Added(n, events, events', [kind |-> "candidate", item |-> <<peer, found + 1>>])
    BY <1>16, GatherEffect DEF Queues
  <2>2. /\ peer # 0 /\ UNCHANGED <<pc, buffer, flags, session, connection, up, url, homes, attempt,
                                   peer, posted>>
        /\ found < MaxCandidates /\ found' = found + 1
    BY <1>16, GatherEffect
  <2> QED
    BY <2>1, <2>2, <1>0 DEF Added
<1>17. CASE GatheringComplete
  <2>1. PICK n : Added(n, events, events', [kind |-> "complete", item |-> <<peer, 0>>])
    BY <1>17, CompleteEffect DEF Queues
  <2>2. /\ peer # 0 /\ UNCHANGED <<pc, buffer, flags, session, connection, up, url, homes, attempt,
                                   peer, posted>>
        /\ found <= MaxCandidates /\ found' = MaxCandidates + 1
    BY <1>17, CompleteEffect
  <2> QED
    BY <2>1, <2>2, <1>0 DEF Added
<1>18. CASE HandleIce
  <2>1. /\ 1 \in DOMAIN events
        /\ \A i, j \in DOMAIN events' :
             /\ i + 1 \in DOMAIN events /\ i + 1 # 1 /\ events'[i] = events[i + 1]
             /\ i # j => i + 1 # j + 1
        /\ UNCHANGED <<session, connection, up, url, homes, attempt, peer, found, posted>>
        /\ \A t \in {"attempt", "loop", "other"} : pc'[t] = pc[t]
    BY <1>18, HandleEffect
  <2>2. CASE events[1].kind = "candidate"
    <3>1. buffer' = buffer \cup {events[1].item} /\ flags' = flags
      BY <1>18, <2>2, HandleEffect
    <3> QED
      BY <2>1, <2>2, <3>1, <1>0
  <2>3. CASE events[1].kind # "candidate"
    <3>1. flags' = flags \cup {"gathered"} /\ buffer' = buffer
      BY <1>18, <2>3, HandleEffect
    <3> QED
      BY <2>1, <2>3, <3>1, <1>0
  <2> QED
    BY <2>2, <2>3
<1>19. CASE NotifyFlush
  BY <1>19, <1>0 DEF NotifyFlush, Step, Signal, ice, ids, engine
<1>20. CASE UNCHANGED vars
  BY <1>20, <1>0 DEF vars, ice, ids, engine
<1> QED
  BY <1>1, <1>2, <1>3, <1>4, <1>5, <1>6, <1>7, <1>8, <1>9, <1>10,
     <1>11, <1>12, <1>13, <1>14, <1>15, <1>16, <1>17, <1>18, <1>19, <1>20
     DEF Next, Begin, Attempt, Teardown, Loop, Flusher, Engine

\* In a prompt environment, every batch is its connection's own.
LEMMA OwnedStep ==
    ASSUME "prompt" \in env, TasksOK, DataOK, Current, Homed, Owned, [Next]_vars
    PROVE  Owned'
<1> USE DEF Tasks, Flushers, TasksOK, Owned, OwnCandidates, Current, Homed
<1>0. /\ attempt \in Nat /\ peer \in Nat /\ peer <= attempt /\ found \in Nat
      /\ Preparing => peer < attempt
      /\ UNCHANGED homes => UNCHANGED attempt
      /\ \A i \in DOMAIN events : events[i].item[1] \in Nat /\ events[i].item[2] \in Nat
      /\ \A c \in buffer : c[1] \in Nat /\ c[2] \in Nat
      /\ \A i \in DOMAIN posted :
           /\ posted[i].connection \in Nat /\ posted[i].final \in BOOLEAN
           /\ \A c \in posted[i].candidates : c[1] \in Nat /\ c[2] \in Nat
  BY Numbers DEF attempt
<1>1. CASE Connect
  <2>1. /\ attempt' = attempt + 1 /\ attempt' \in Nat
        /\ homes'[attempt'] = attempt + 1
        /\ \A i \in 1..attempt : homes'[i] = homes[i]
    BY <1>1, ConnectEffect
  <2>2. \A i \in DOMAIN posted : homes'[posted[i].connection] = homes[posted[i].connection]
    BY <2>1
  <2>3. posted' = posted
    BY <1>1 DEF Connect, Reconnect
  <2> QED
    BY <1>0, <2>1, <2>2, <2>3
<1>2. CASE Reconnect
  <2>1. /\ attempt' = attempt + 1 /\ attempt' \in Nat
        /\ homes'[attempt'] = session
        /\ \A i \in 1..attempt : homes'[i] = homes[i]
    BY <1>2, ReconnectEffect
  <2>2. \A i \in DOMAIN posted : homes'[posted[i].connection] = homes[posted[i].connection]
    BY <2>1
  <2>3. posted' = posted
    BY <1>2 DEF Connect, Reconnect
  <2> QED
    BY <1>0, <2>1, <2>2, <2>3
<1>3. CASE StoreSession
  BY <1>3, <1>0 DEF StoreSession, Step, CaughtUp, Unbroken, ice, ids, engine
<1>4. CASE Prepare
  BY <1>4, <1>0 DEF Prepare, Step, ice, ids, engine
<1>5. CASE Register
  BY <1>5, <1>0 DEF Register, Step, ice, ids, engine
<1>6. CASE Reassign
  BY <1>6, <1>0 DEF Reassign, ice, ids, engine
<1>7. CASE Succeed
  BY <1>7, <1>0 DEF Succeed, Step, Settled, ice, ids, engine
<1>8. ASSUME NEW t \in {"attempt", "other"}, ClosePeer(t)
      PROVE  Owned'
  BY <1>8, <1>0 DEF ClosePeer, ice, ids, engine
<1>9. ASSUME NEW t \in {"attempt", "other"}, ClearState(t)
      PROVE  Owned'
  BY <1>9, <1>0 DEF ClearState, Clear, CaughtUp, Unbroken, ice, ids, engine
<1>10. ASSUME NEW t \in {"attempt", "other"}, EndTeardown(t)
      PROVE  Owned'
  BY <1>10, <1>0 DEF EndTeardown, Step, ice, ids, engine
<1>11. CASE Wake
  BY <1>11, <1>0 DEF Wake, Step, ice, ids, engine
<1>12. CASE ReadSession
  BY <1>12, <1>0 DEF ReadSession, ice, ids, engine
<1>13. ASSUME NEW f \in Flushers, Flush(f)
      PROVE  Owned'
  <2>1. PICK n, b : /\ Added(n, posted, posted', b)
                    /\ b.session = Home(f) /\ b.connection = connection
                    /\ b.candidates = buffer /\ b.final = IsFinal
    BY <1>13, FlushEffect
  <2>2. /\ connection = attempt /\ attempt \in 1..attempt
        /\ UNCHANGED <<attempt, homes>>
    BY <1>13, <1>0, FlushEffect
  <2>3. Home(f) = homes[attempt]
    <3>1. session # 0 /\ pc["loop"] = "flush" => url = homes[attempt]
      BY <1>13, FlushEffect
    <3> QED
      BY <1>13, <3>1, FlushEffect DEF Home
  <2>4. b.session = homes[b.connection] /\ \A c \in b.candidates : c[1] = b.connection
    BY <2>1, <2>2, <2>3
  <2> QED
    BY <2>1, <2>2, <2>4 DEF Added
<1>14. ASSUME NEW f \in Flushers, FlushNothing(f)
      PROVE  Owned'
  BY <1>14, <1>0 DEF FlushNothing, Step, NothingToSend, After, Forget, ice, ids, engine
<1>15. ASSUME NEW f \in Flushers, Posted(f)
      PROVE  Owned'
  BY <1>15, <1>0 DEF Posted, Step, After, ice, ids, engine
<1>16. CASE Gather
  <2>1. PICK n : Added(n, events, events', [kind |-> "candidate", item |-> <<peer, found + 1>>])
    BY <1>16, GatherEffect DEF Queues
  <2>2. /\ peer # 0 /\ UNCHANGED <<pc, buffer, flags, session, connection, up, url, homes, attempt,
                                   peer, posted>>
        /\ found < MaxCandidates /\ found' = found + 1
    BY <1>16, GatherEffect
  <2> QED
    BY <2>1, <2>2, <1>0 DEF Added
<1>17. CASE GatheringComplete
  <2>1. PICK n : Added(n, events, events', [kind |-> "complete", item |-> <<peer, 0>>])
    BY <1>17, CompleteEffect DEF Queues
  <2>2. /\ peer # 0 /\ UNCHANGED <<pc, buffer, flags, session, connection, up, url, homes, attempt,
                                   peer, posted>>
        /\ found <= MaxCandidates /\ found' = MaxCandidates + 1
    BY <1>17, CompleteEffect
  <2> QED
    BY <2>1, <2>2, <1>0 DEF Added
<1>18. CASE HandleIce
  <2>1. /\ 1 \in DOMAIN events
        /\ \A i, j \in DOMAIN events' :
             /\ i + 1 \in DOMAIN events /\ i + 1 # 1 /\ events'[i] = events[i + 1]
             /\ i # j => i + 1 # j + 1
        /\ UNCHANGED <<session, connection, up, url, homes, attempt, peer, found, posted>>
        /\ \A t \in {"attempt", "loop", "other"} : pc'[t] = pc[t]
    BY <1>18, HandleEffect
  <2>2. CASE events[1].kind = "candidate"
    <3>1. buffer' = buffer \cup {events[1].item} /\ flags' = flags
      BY <1>18, <2>2, HandleEffect
    <3> QED
      BY <2>1, <2>2, <3>1, <1>0
  <2>3. CASE events[1].kind # "candidate"
    <3>1. flags' = flags \cup {"gathered"} /\ buffer' = buffer
      BY <1>18, <2>3, HandleEffect
    <3> QED
      BY <2>1, <2>3, <3>1, <1>0
  <2> QED
    BY <2>2, <2>3
<1>19. CASE NotifyFlush
  BY <1>19, <1>0 DEF NotifyFlush, Step, Signal, ice, ids, engine
<1>20. CASE UNCHANGED vars
  BY <1>20, <1>0 DEF vars, ice, ids, engine
<1> QED
  BY <1>1, <1>2, <1>3, <1>4, <1>5, <1>6, <1>7, <1>8, <1>9, <1>10,
     <1>11, <1>12, <1>13, <1>14, <1>15, <1>16, <1>17, <1>18, <1>19, <1>20
     DEF Next, Begin, Attempt, Teardown, Loop, Flusher, Engine

\* In a prompt environment, every action keeps the end of gathering in one place.
LEMMA EndsStep ==
    ASSUME "prompt" \in env, TasksOK, DataOK, Current, Owned, Ends, [Next]_vars
    PROVE  Ends'
<1> USE DEF Tasks, Flushers, TasksOK, Ends, NotSent, IsFinal, FinalOnce, Queued, Preparing, Current, Clean, Owned
<1>0. /\ attempt \in Nat /\ peer \in Nat /\ peer <= attempt /\ found \in Nat
      /\ Preparing => peer < attempt
      /\ UNCHANGED homes => UNCHANGED attempt
      /\ \A i \in DOMAIN events : events[i].item[1] \in Nat /\ events[i].item[2] \in Nat
      /\ \A c \in buffer : c[1] \in Nat /\ c[2] \in Nat
      /\ \A i \in DOMAIN posted :
           /\ posted[i].connection \in Nat /\ posted[i].final \in BOOLEAN
           /\ \A c \in posted[i].candidates : c[1] \in Nat /\ c[2] \in Nat
  BY Numbers DEF attempt
<1>1. CASE Connect
  <2>1. /\ attempt' = attempt + 1 /\ attempt' \in Nat
        /\ homes'[attempt'] = attempt + 1
        /\ \A i \in 1..attempt : homes'[i] = homes[i]
    BY <1>1, ConnectEffect
  <2> QED
    BY <1>1, <1>0, <2>1 DEF Connect, Step, Clear, CaughtUp, ice, ids, engine
<1>2. CASE Reconnect
  <2>1. /\ attempt' = attempt + 1 /\ attempt' \in Nat
        /\ homes'[attempt'] = session
        /\ \A i \in 1..attempt : homes'[i] = homes[i]
    BY <1>2, ReconnectEffect
  <2> QED
    BY <1>2, <1>0, <2>1 DEF Reconnect, Step, Clear, CaughtUp, ice, ids, engine
<1>3. CASE StoreSession
  BY <1>3, <1>0 DEF StoreSession, Step, CaughtUp, Unbroken, ice, ids, engine
<1>4. CASE Prepare
  BY <1>4, <1>0 DEF Prepare, Step, ice, ids, engine
<1>5. CASE Register
  BY <1>5, <1>0 DEF Register, Step, ice, ids, engine
<1>6. CASE Reassign
  BY <1>6, <1>0 DEF Reassign, ice, ids, engine
<1>7. CASE Succeed
  BY <1>7, <1>0 DEF Succeed, Step, Settled, ice, ids, engine
<1>8. ASSUME NEW t \in {"attempt", "other"}, ClosePeer(t)
      PROVE  Ends'
  BY <1>8, <1>0 DEF ClosePeer, ice, ids, engine
<1>9. ASSUME NEW t \in {"attempt", "other"}, ClearState(t)
      PROVE  Ends'
  BY <1>9, <1>0 DEF ClearState, Clear, CaughtUp, Unbroken, ice, ids, engine
<1>10. ASSUME NEW t \in {"attempt", "other"}, EndTeardown(t)
      PROVE  Ends'
  BY <1>10, <1>0 DEF EndTeardown, Step, ice, ids, engine
<1>11. CASE Wake
  BY <1>11, <1>0 DEF Wake, Step, ice, ids, engine
<1>12. CASE ReadSession
  BY <1>12, <1>0 DEF ReadSession, ice, ids, engine
<1>13. ASSUME NEW f \in Flushers, Flush(f)
      PROVE  Ends'
  <2>1. PICK n, b : /\ Added(n, posted, posted', b)
                    /\ b.session = Home(f) /\ b.connection = connection
                    /\ b.candidates = buffer /\ b.final = IsFinal
    BY <1>13, FlushEffect
  <2>2. /\ connection = attempt /\ UNCHANGED <<attempt, peer, found, events>>
        /\ Preparing' => Preparing
        /\ flags' = IF IsFinal THEN flags \cup {"final"} ELSE flags
    BY <1>13, FlushEffect
  <2>3. CASE IsFinal
    <3>1. flags' = flags \cup {"final"} /\ NotSent /\ "gathered" \in flags /\ ~Preparing
      BY <1>13, <2>2, <2>3, FlushEffect
    <3>2. FinalOnce'
      BY <2>1, <2>2, <3>1 DEF Added
    <3> QED
      BY <2>2, <3>1, <3>2
  <2>4. CASE ~IsFinal
    <3>1. flags' = flags /\ ~b.final
      BY <2>1, <2>2, <2>4
    <3>2. FinalOnce' /\ (NotSent => NotSent')
      BY <2>1, <2>2, <3>1 DEF Added
    <3> QED
      BY <2>2, <3>1, <3>2
  <2> QED
    BY <2>3, <2>4
<1>14. ASSUME NEW f \in Flushers, FlushNothing(f)
      PROVE  Ends'
  BY <1>14, <1>0 DEF FlushNothing, Step, NothingToSend, After, Forget, ice, ids, engine
<1>15. ASSUME NEW f \in Flushers, Posted(f)
      PROVE  Ends'
  BY <1>15, <1>0 DEF Posted, Step, After, ice, ids, engine
<1>16. CASE Gather
  <2>1. PICK n : Added(n, events, events', [kind |-> "candidate", item |-> <<peer, found + 1>>])
    BY <1>16, GatherEffect DEF Queues
  <2>2. /\ peer # 0 /\ UNCHANGED <<pc, buffer, flags, session, connection, up, url, homes, attempt,
                                   peer, posted>>
        /\ found < MaxCandidates /\ found' = found + 1
    BY <1>16, GatherEffect
  <2> QED
    BY <2>1, <2>2, <1>0, BoundsAssumption DEF Added
<1>17. CASE GatheringComplete
  <2>1. PICK n : Added(n, events, events', [kind |-> "complete", item |-> <<peer, 0>>])
    BY <1>17, CompleteEffect DEF Queues
  <2>2. /\ peer # 0 /\ UNCHANGED <<pc, buffer, flags, session, connection, up, url, homes, attempt,
                                   peer, posted>>
        /\ found <= MaxCandidates /\ found' = MaxCandidates + 1
    BY <1>17, CompleteEffect
  <2> QED
    BY <2>1, <2>2, <1>0, BoundsAssumption DEF Added
<1>18. CASE HandleIce
  <2>1. /\ 1 \in DOMAIN events
        /\ \A i, j \in DOMAIN events' :
             /\ i + 1 \in DOMAIN events /\ i + 1 # 1 /\ events'[i] = events[i + 1]
             /\ i # j => i + 1 # j + 1
        /\ UNCHANGED <<session, connection, up, url, homes, attempt, peer, found, posted>>
        /\ \A t \in {"attempt", "loop", "other"} : pc'[t] = pc[t]
    BY <1>18, HandleEffect
  <2>2. CASE events[1].kind = "candidate"
    <3>1. buffer' = buffer \cup {events[1].item} /\ flags' = flags
      BY <1>18, <2>2, HandleEffect
    <3> QED
      BY <2>1, <2>2, <3>1, <1>0
  <2>3. CASE events[1].kind # "candidate"
    <3>1. flags' = flags \cup {"gathered"} /\ buffer' = buffer
      BY <1>18, <2>3, HandleEffect
    <3> QED
      BY <2>1, <2>3, <3>1, <1>0
  <2> QED
    BY <2>2, <2>3
<1>19. CASE NotifyFlush
  BY <1>19, <1>0 DEF NotifyFlush, Step, Signal, ice, ids, engine
<1>20. CASE UNCHANGED vars
  BY <1>20, <1>0 DEF vars, ice, ids, engine
<1> QED
  BY <1>1, <1>2, <1>3, <1>4, <1>5, <1>6, <1>7, <1>8, <1>9, <1>10,
     <1>11, <1>12, <1>13, <1>14, <1>15, <1>16, <1>17, <1>18, <1>19, <1>20
     DEF Next, Begin, Attempt, Teardown, Loop, Flusher, Engine

\* What the coordinator is told, it is told once and under the right connection and
\* session, for any number of attempts and candidates and wherever they are torn down.
THEOREM ToldOnce == Spec => []ToldOnceToTheRight
<1>1. Init => ToldInv
  BY DEF Init, ToldInv, TasksOK, DataOK, AllOld, Apart, Current, Clean, Homed, Owned, Ends, NotSent,
     NoDuplicates, OwnCandidates, FinalOnce, IsFinal, Preparing, Tasks, Flushers, attempt
<1>2. ToldInv /\ [Next]_vars => ToldInv'
  <2>1. [Next]_vars => env' = env
    BY DEF Next, Begin, Connect, Reconnect, Attempt, StoreSession, Prepare, Register, Reassign, Succeed,
       Teardown, ClosePeer, ClearState, EndTeardown, Loop, Wake, ReadSession, Flusher, Flush,
       FlushNothing, Posted, Engine, Gather, GatheringComplete, HandleIce, NotifyFlush, vars, engine
  <2> QED
    BY <2>1, TasksStep, DataStep, OldStep, ApartStep, CurrentStep, HomedStep, OwnedStep, EndsStep
       DEF ToldInv
<1>3. ToldInv => ToldOnceToTheRight
  BY DEF ToldInv, Apart, Owned, Ends, ToldOnceToTheRight
<1> QED
  BY <1>1, <1>2, <1>3, PTL DEF Spec
=============================================================================
