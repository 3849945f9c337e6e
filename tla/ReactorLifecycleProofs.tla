---------------------- MODULE ReactorLifecycleProofs ----------------------
(***************************************************************************)
(* Theorems about ReactorLifecycle, for every set of host tasks and every  *)
(* bound: what its runs check on small instances holds in general.         *)
(***************************************************************************)
EXTENDS ReactorLifecycle, SequenceTheorems, TLAPS

\* The initial state is well typed.
LEMMA TypeInit == Init => TypeOK
<1> SUFFICES ASSUME Init PROVE TypeOK
  OBVIOUS
<1>1. ClientOK /\ TasksOK /\ EngineOK /\ OutsideOK
  BY FlagsAssumption DEF Init, ClientOK, TasksOK, EngineOK, OutsideOK, SessionIds, Statuses, Labels, Ops
<1>2. SwitchesOK
  BY Zenon DEF Init, SwitchesOK
<1> QED
  BY <1>1, <1>2 DEF TypeOK

\* Every action of the specification keeps every variable in its type.
LEMMA TypeStep == TypeOK /\ [Next]_vars => TypeOK'
<1> SUFFICES ASSUME TypeOK, [Next]_vars PROVE TypeOK'
  OBVIOUS
<1> USE DEF TypeOK, ClientOK, TasksOK, EngineOK, SwitchesOK, OutsideOK, Tasks, SessionIds,
      vars, client, locals, transport, engine, outside
<1>1. ASSUME NEW t \in Callers, HostCall(t) PROVE TypeOK'
  <2>1. CASE \E adopt \in BOOLEAN : Connect(t, adopt)
    <3>1. ClientOK' /\ TasksOK' /\ EngineOK' /\ OutsideOK'
      BY <2>1 DEF Connect, Call, FreshAttempt, MayConnect, Goto, Labels, Attempting, TearingDown, Ops, Statuses
    <3>2. SwitchesOK'
      BY <2>1, Zenon DEF Connect, Call, FreshAttempt
    <3> QED
      BY <3>1, <3>2
  <2>2. CASE ConnectRejected(t)
    BY <2>2 DEF ConnectRejected, Call, Ops
  <2>3. CASE Reconnect(t)
    BY <2>3 DEF Reconnect, Call, Goto, Labels, Attempting, TearingDown, Ops
  <2>4. CASE Disconnect(t)
    BY <2>4 DEF Disconnect, Call, Goto, Labels, Attempting, TearingDown, Ops
  <2> QED
    BY <1>1, <2>1, <2>2, <2>3, <2>4 DEF HostCall
<1>2. ASSUME NEW t \in Callers, Attempt(t) PROVE TypeOK'
  <2>1. CASE Reopen(t)
    <3>1. ClientOK' /\ EngineOK' /\ OutsideOK'
      BY <2>1 DEF Reopen, FreshAttempt, Statuses, SessionIds
    <3>3. TasksOK'
      BY <2>1 DEF Reopen, Goto, Labels, Attempting, Ops
    <3>2. SwitchesOK'
      BY <2>1, Zenon DEF Reopen, FreshAttempt
    <3> QED
      BY <3>1, <3>2, <3>3
  <2>2. CASE CreateSession(t)
    BY <2>2 DEF CreateSession, Step, Goto, Labels, Attempting, TearingDown
  <2>3. CASE StoreSession(t)
    <3>1. ClientOK' /\ TasksOK' /\ EngineOK' /\ OutsideOK'
      BY <2>3 DEF StoreSession, Owned, Step, Goto, Labels, Attempting, TearingDown
    <3>2. SwitchesOK'
      BY <2>3, Zenon DEF StoreSession, Owned
    <3> QED
      BY <3>1, <3>2
  <2>4. CASE SetWaiting(t)
    BY <2>4 DEF SetWaiting, Step, Goto, Labels, Attempting, TearingDown, Statuses
  <2>5. CASE Prepare(t)
    <3>1. ClientOK' /\ TasksOK' /\ EngineOK' /\ OutsideOK'
      BY <2>5 DEF Prepare, Hold, Step, Goto, Labels, Attempting, TearingDown
    <3>2. SwitchesOK'
      BY <2>5, Zenon DEF Prepare, Hold
    <3> QED
      BY <3>1, <3>2
  <2>6. CASE PresetMatches(t)
    BY <2>6 DEF PresetMatches, Step, Goto, Labels, Attempting, TearingDown
  <2>7. CASE PresetMismatch(t)
    BY <2>7 DEF PresetMismatch, Step, Goto, Labels, Attempting, TearingDown
  <2>8. CASE DiscardOffer(t)
    <3>1. ClientOK' /\ TasksOK' /\ EngineOK' /\ OutsideOK'
      BY <2>8 DEF DiscardOffer, Hold, Step, Goto, Labels, Attempting, TearingDown
    <3>2. SwitchesOK'
      BY <2>8, Zenon DEF DiscardOffer, Hold
    <3> QED
      BY <3>1, <3>2
  <2>9. CASE InstallGate(t)
    BY <2>9 DEF InstallGate, OpensAtOnce, AllOpen, Cancelled, Step, Goto, Labels, Attempting, TearingDown
  <2>10. CASE Answer(t)
    BY <2>10 DEF Answer, Step, Goto, Labels, Attempting, TearingDown
  <2>11. CASE SetRemote(t)
    <3>1. ClientOK' /\ TasksOK' /\ EngineOK' /\ OutsideOK'
      BY <2>11 DEF SetRemote, Step, Goto, Labels, Attempting, TearingDown
    <3>2. SwitchesOK'
      BY <2>11, Zenon DEF SetRemote
    <3> QED
      BY <3>1, <3>2
  <2>12. CASE GateOpened(t)
    BY <2>12 DEF GateOpened, Step, Goto, Labels, Attempting, TearingDown
  <2>13. CASE ChunkingRequired(t)
    BY <2>13 DEF ChunkingRequired, Step, Goto, Labels, Attempting, TearingDown
  <2>14. CASE GateCancelled(t)
    BY <2>14 DEF GateCancelled, Step, Goto, Labels, Attempting, TearingDown
  <2>15. CASE GateTimeout(t)
    BY <2>15 DEF GateTimeout, Step, Goto, Labels, Attempting, TearingDown
  <2>16. CASE RequestFails(t)
    BY <2>16 DEF RequestFails, Goto, Labels, Attempting, TearingDown
  <2>17. CASE SetReady(t)
    BY <2>17 DEF SetReady, Forget, Step, Goto, Labels, Attempting, TearingDown, Ops, Statuses
  <2> QED
    BY <1>2, <2>1, <2>2, <2>3, <2>4, <2>5, <2>6, <2>7, <2>8, <2>9, <2>10, <2>11, <2>12, <2>13, <2>14, <2>15, <2>16, <2>17 DEF Attempt
<1>3. ASSUME NEW t \in Tasks, Teardown(t) PROVE TypeOK'
  <2>1. CASE BeginTeardown(t)
    <3>1. ClientOK' /\ TasksOK' /\ EngineOK' /\ OutsideOK'
      BY <2>1 DEF BeginTeardown, DropGate, Cancelled, EndsSession, Recoverable, Step, Goto, Labels, TearingDown
    <3>2. SwitchesOK'
      BY <2>1, Zenon DEF BeginTeardown
    <3> QED
      BY <3>1, <3>2
  <2>2. CASE ClosePeer(t)
    <3>1. ClientOK' /\ TasksOK' /\ EngineOK' /\ OutsideOK'
      BY <2>2 DEF ClosePeer, Hold, Step, Goto, Labels, TearingDown
    <3>2. SwitchesOK'
      BY <2>2, Zenon DEF ClosePeer, Hold
    <3> QED
      BY <3>1, <3>2
  <2>3. CASE TerminateSession(t)
    BY <2>3 DEF TerminateSession, Step, Goto, Labels, TearingDown
  <2>4. CASE ClearState(t)
    <3>1. ClientOK' /\ TasksOK' /\ EngineOK' /\ OutsideOK'
      BY <2>4 DEF ClearState, Step, Goto, Labels, TearingDown
    <3>2. SwitchesOK'
      BY <2>4, Zenon DEF ClearState
    <3> QED
      BY <3>1, <3>2
  <2>5. CASE Settle(t)
    BY <2>5 DEF Settle, Forget, Step, Goto, Labels, TearingDown, Ops, Statuses
  <2> QED
    BY <1>3, <2>1, <2>2, <2>3, <2>4, <2>5 DEF Teardown
<1>4. ASSUME HandlePeerEvent PROVE TypeOK'
  <2>1. queue # <<>> => Head(queue) \in Events /\ Tail(queue) \in Seq(Events)
    BY HeadTailProperties
  <2>2. CASE HandleOpen
    BY <2>1, <2>2 DEF HandleOpen, Opens, AllOpen, Channels
  <2>3. CASE HandleDown
    BY <2>1, <2>3 DEF HandleDown, Goto, Events, Labels, Ops
  <2>4. CASE RecordReason
    BY <2>4 DEF RecordReason, Step, Goto, Labels, TearingDown
  <2> QED
    BY <1>4, <2>2, <2>3, <2>4 DEF HandlePeerEvent
<1>5. ASSUME Engine PROVE TypeOK'
  <2>1. ASSUME NEW c \in Channels, PeerOpens(c) PROVE TypeOK'
    BY <2>1 DEF PeerOpens, Emit, Events
  <2>2. CASE PeerDrops
    BY <2>2 DEF PeerDrops, Emit, Events
  <2> QED
    BY <1>5, <2>1, <2>2 DEF Engine
<1>6. CASE UNCHANGED vars
  BY <1>6
<1> QED
  BY <1>1, <1>2, <1>3, <1>4, <1>5, <1>6 DEF Next

\* Whatever the host, the engine and the coordinator do, the client state,
\* the tasks' locals and the event queue stay well typed.
THEOREM TypeCorrect == Spec => []TypeOK
  BY TypeInit, TypeStep, PTL DEF Spec

----------------------------------------------------------------------------
\* A task that left the client in Connecting or Waiting still has its last
\* write to the status ahead of it.
LEMMA SettleStep == TypeOK /\ SomeoneWillSettle /\ [Next]_vars => SomeoneWillSettle'
<1> SUFFICES ASSUME TypeOK, SomeoneWillSettle, [Next]_vars PROVE SomeoneWillSettle'
  OBVIOUS
<1> USE DEF TypeOK, TasksOK, SomeoneWillSettle, Tasks, Attempting, TearingDown, vars, client, locals, transport, engine, outside
<1>1. ASSUME NEW t \in Callers, HostCall(t) PROVE SomeoneWillSettle'
  <2>1. CASE \E adopt \in BOOLEAN : Connect(t, adopt)
    BY <2>1 DEF Connect, Call, FreshAttempt, MayConnect, Goto, Idle
  <2>2. CASE ConnectRejected(t)
    BY <2>2 DEF ConnectRejected, Call
  <2>3. CASE Reconnect(t)
    BY <2>3 DEF Reconnect, Call, Goto, Idle
  <2>4. CASE Disconnect(t)
    BY <2>4 DEF Disconnect, Call, Goto
  <2> QED
    BY <1>1, <2>1, <2>2, <2>3, <2>4 DEF HostCall
<1>2. ASSUME NEW t \in Callers, Attempt(t) PROVE SomeoneWillSettle'
  <2>1. CASE Reopen(t)
    BY <2>1 DEF Reopen, FreshAttempt, Goto
  <2>2. CASE CreateSession(t)
    BY <2>2 DEF CreateSession, Step, Goto
  <2>3. CASE StoreSession(t)
    BY <2>3 DEF StoreSession, Owned, Step, Goto
  <2>4. CASE SetWaiting(t)
    BY <2>4 DEF SetWaiting, Step, Goto
  <2>5. CASE Prepare(t)
    BY <2>5 DEF Prepare, Hold, Step, Goto
  <2>6. CASE PresetMatches(t)
    BY <2>6 DEF PresetMatches, Step, Goto
  <2>7. CASE PresetMismatch(t)
    BY <2>7 DEF PresetMismatch, Step, Goto
  <2>8. CASE DiscardOffer(t)
    BY <2>8 DEF DiscardOffer, Hold, Step, Goto
  <2>9. CASE InstallGate(t)
    BY <2>9 DEF InstallGate, OpensAtOnce, AllOpen, Cancelled, Step, Goto
  <2>10. CASE Answer(t)
    BY <2>10 DEF Answer, Step, Goto
  <2>11. CASE SetRemote(t)
    BY <2>11 DEF SetRemote, Step, Goto
  <2>12. CASE GateOpened(t)
    BY <2>12 DEF GateOpened, Step, Goto
  <2>13. CASE ChunkingRequired(t)
    BY <2>13 DEF ChunkingRequired, Step, Goto
  <2>14. CASE GateCancelled(t)
    BY <2>14 DEF GateCancelled, Step, Goto
  <2>15. CASE GateTimeout(t)
    BY <2>15 DEF GateTimeout, Step, Goto
  <2>16. CASE RequestFails(t)
    BY <2>16 DEF RequestFails, Goto
  <2>17. CASE SetReady(t)
    BY <2>17 DEF SetReady, Forget, Step, Goto
  <2> QED
    BY <1>2, <2>1, <2>2, <2>3, <2>4, <2>5, <2>6, <2>7, <2>8, <2>9, <2>10, <2>11, <2>12, <2>13, <2>14, <2>15, <2>16, <2>17 DEF Attempt
<1>3. ASSUME NEW t \in Tasks, Teardown(t) PROVE SomeoneWillSettle'
  <2>1. CASE BeginTeardown(t)
    BY <2>1 DEF BeginTeardown, DropGate, Cancelled, EndsSession, Recoverable, Step, Goto
  <2>2. CASE ClosePeer(t)
    BY <2>2 DEF ClosePeer, Hold, Step, Goto
  <2>3. CASE TerminateSession(t)
    BY <2>3 DEF TerminateSession, Step, Goto
  <2>4. CASE ClearState(t)
    BY <2>4 DEF ClearState, Step, Goto
  <2>5. CASE Settle(t)
    BY <2>5 DEF Settle, Forget, Step, Goto
  <2> QED
    BY <1>3, <2>1, <2>2, <2>3, <2>4, <2>5 DEF Teardown
<1>4. ASSUME HandlePeerEvent PROVE SomeoneWillSettle'
  <2>1. CASE HandleOpen
    BY <2>1 DEF HandleOpen
  <2>2. CASE HandleDown
    BY <2>2 DEF HandleDown, Goto, Idle
  <2>3. CASE RecordReason
    BY <2>3 DEF RecordReason, Step, Goto
  <2> QED
    BY <1>4, <2>1, <2>2, <2>3 DEF HandlePeerEvent
<1>5. ASSUME Engine PROVE SomeoneWillSettle'
  BY <1>5 DEF Engine, PeerOpens, PeerDrops
<1>6. CASE UNCHANGED vars
  BY <1>6
<1> QED
  BY <1>1, <1>2, <1>3, <1>4, <1>5, <1>6 DEF Next

\* connect(), reconnect(), disconnect() and the peer-failure teardown, however
\* they interleave, never leave an idle client in Connecting or Waiting.
THEOREM Settled == Spec => []SettledWhenIdle
<1>1. Init => SomeoneWillSettle
  BY DEF Init, SomeoneWillSettle
<1>2. SomeoneWillSettle /\ TypeOK => SettledWhenIdle
  BY DEF SomeoneWillSettle, SettledWhenIdle, AllIdle, Idle, TypeOK, ClientOK, Statuses, Attempting, TearingDown
<1> QED
  BY <1>1, <1>2, TypeInit, TypeStep, SettleStep, PTL DEF Spec

----------------------------------------------------------------------------
\* The session id and created_session stay a matching pair in the state and in
\* the locals of a teardown.
LEMMA OwnershipStep == TypeOK /\ OwnershipInv /\ [Next]_vars => OwnershipInv'
<1> SUFFICES ASSUME TypeOK, OwnershipInv, [Next]_vars PROVE OwnershipInv'
  OBVIOUS
<1> USE DEF TypeOK, TasksOK, OwnershipInv, NeverTerminatesAdopted, Tasks, vars, client, locals, transport, engine, outside
<1>1. ASSUME NEW t \in Callers, HostCall(t) PROVE OwnershipInv'
  <2>1. CASE \E adopt \in BOOLEAN : Connect(t, adopt)
    BY <2>1 DEF Connect, Call, FreshAttempt, MayConnect, Goto, Idle
  <2>2. CASE ConnectRejected(t)
    BY <2>2 DEF ConnectRejected, Call
  <2>3. CASE Reconnect(t)
    BY <2>3 DEF Reconnect, Call, Goto, Idle
  <2>4. CASE Disconnect(t)
    BY <2>4 DEF Disconnect, Call, Goto
  <2> QED
    BY <1>1, <2>1, <2>2, <2>3, <2>4 DEF HostCall
<1>2. ASSUME NEW t \in Callers, Attempt(t) PROVE OwnershipInv'
  <2>1. CASE Reopen(t)
    BY <2>1 DEF Reopen, FreshAttempt, Goto
  <2>2. CASE CreateSession(t)
    BY <2>2 DEF CreateSession, Step, Goto
  <2>3. CASE StoreSession(t)
    BY <2>3 DEF StoreSession, Owned, Step, Goto
  <2>4. CASE SetWaiting(t)
    BY <2>4 DEF SetWaiting, Step, Goto
  <2>5. CASE Prepare(t)
    BY <2>5 DEF Prepare, Hold, Step, Goto
  <2>6. CASE PresetMatches(t)
    BY <2>6 DEF PresetMatches, Step, Goto
  <2>7. CASE PresetMismatch(t)
    BY <2>7 DEF PresetMismatch, Step, Goto
  <2>8. CASE DiscardOffer(t)
    BY <2>8 DEF DiscardOffer, Hold, Step, Goto
  <2>9. CASE InstallGate(t)
    BY <2>9 DEF InstallGate, OpensAtOnce, AllOpen, Cancelled, Step, Goto
  <2>10. CASE Answer(t)
    BY <2>10 DEF Answer, Step, Goto
  <2>11. CASE SetRemote(t)
    BY <2>11 DEF SetRemote, Step, Goto
  <2>12. CASE GateOpened(t)
    BY <2>12 DEF GateOpened, Step, Goto
  <2>13. CASE ChunkingRequired(t)
    BY <2>13 DEF ChunkingRequired, Step, Goto
  <2>14. CASE GateCancelled(t)
    BY <2>14 DEF GateCancelled, Step, Goto
  <2>15. CASE GateTimeout(t)
    BY <2>15 DEF GateTimeout, Step, Goto
  <2>16. CASE RequestFails(t)
    BY <2>16 DEF RequestFails, Goto
  <2>17. CASE SetReady(t)
    BY <2>17 DEF SetReady, Forget, Step, Goto
  <2> QED
    BY <1>2, <2>1, <2>2, <2>3, <2>4, <2>5, <2>6, <2>7, <2>8, <2>9, <2>10, <2>11, <2>12, <2>13, <2>14, <2>15, <2>16, <2>17 DEF Attempt
<1>3. ASSUME NEW t \in Tasks, Teardown(t) PROVE OwnershipInv'
  <2>1. CASE BeginTeardown(t)
    BY <2>1 DEF BeginTeardown, DropGate, Cancelled, EndsSession, Recoverable, Step, Goto
  <2>2. CASE ClosePeer(t)
    BY <2>2 DEF ClosePeer, Hold, Step, Goto
  <2>3. CASE TerminateSession(t)
    BY <2>3 DEF TerminateSession, Step, Goto
  <2>4. CASE ClearState(t)
    BY <2>4 DEF ClearState, Step, Goto
  <2>5. CASE Settle(t)
    BY <2>5 DEF Settle, Forget, Step, Goto
  <2> QED
    BY <1>3, <2>1, <2>2, <2>3, <2>4, <2>5 DEF Teardown
<1>4. ASSUME HandlePeerEvent PROVE OwnershipInv'
  <2>1. CASE HandleOpen
    BY <2>1 DEF HandleOpen
  <2>2. CASE HandleDown
    BY <2>2 DEF HandleDown, Goto, Idle
  <2>3. CASE RecordReason
    BY <2>3 DEF RecordReason, Step, Goto
  <2> QED
    BY <1>4, <2>1, <2>2, <2>3 DEF HandlePeerEvent
<1>5. ASSUME Engine PROVE OwnershipInv'
  BY <1>5 DEF Engine, PeerOpens, PeerDrops
<1>6. CASE UNCHANGED vars
  BY <1>6
<1> QED
  BY <1>1, <1>2, <1>3, <1>4, <1>5, <1>6 DEF Next

\* No interleaving of calls makes the client send a DELETE for a session it
\* adopted.
THEOREM AdoptedSurvives == Spec => []NeverTerminatesAdopted
<1>1. Init => OwnershipInv
  BY AdoptedAssumption DEF Init, OwnershipInv, NeverTerminatesAdopted, Tasks
<1>2. OwnershipInv => NeverTerminatesAdopted
  BY DEF OwnershipInv
<1> QED
  BY <1>1, <1>2, TypeInit, TypeStep, OwnershipStep, PTL DEF Spec

----------------------------------------------------------------------------
\* The ready gate, its receiver and the readiness flags stay in step.
LEMMA GateStep == TypeOK /\ GateInv /\ [Next]_vars => GateInv'
<1> SUFFICES ASSUME TypeOK, GateInv, [Next]_vars PROVE GateInv'
  OBVIOUS
<1> USE DEF TypeOK, TasksOK, ClientOK, GateInv, GateHasAttempt, NoLostReadiness, Tasks, vars, client, locals, transport, engine, outside
<1>1. ASSUME NEW t \in Callers, HostCall(t) PROVE GateInv'
  <2>1. CASE \E adopt \in BOOLEAN : Connect(t, adopt)
    BY <2>1 DEF Connect, Call, FreshAttempt, MayConnect, Goto, Idle
  <2>2. CASE ConnectRejected(t)
    BY <2>2 DEF ConnectRejected, Call
  <2>3. CASE Reconnect(t)
    BY <2>3 DEF Reconnect, Call, Goto, Idle
  <2>4. CASE Disconnect(t)
    BY <2>4 DEF Disconnect, Call, Goto
  <2> QED
    BY <1>1, <2>1, <2>2, <2>3, <2>4 DEF HostCall
<1>2. ASSUME NEW t \in Callers, Attempt(t) PROVE GateInv'
  <2>1. CASE Reopen(t)
    BY <2>1 DEF Reopen, FreshAttempt, Goto
  <2>2. CASE CreateSession(t)
    BY <2>2 DEF CreateSession, Step, Goto
  <2>3. CASE StoreSession(t)
    BY <2>3 DEF StoreSession, Owned, Step, Goto
  <2>4. CASE SetWaiting(t)
    BY <2>4 DEF SetWaiting, Step, Goto
  <2>5. CASE Prepare(t)
    BY <2>5 DEF Prepare, Hold, Step, Goto
  <2>6. CASE PresetMatches(t)
    BY <2>6 DEF PresetMatches, Step, Goto
  <2>7. CASE PresetMismatch(t)
    BY <2>7 DEF PresetMismatch, Step, Goto
  <2>8. CASE DiscardOffer(t)
    BY <2>8 DEF DiscardOffer, Hold, Step, Goto
  <2>9. CASE InstallGate(t)
    BY <2>9 DEF InstallGate, OpensAtOnce, AllOpen, Cancelled, Step, Goto
  <2>10. CASE Answer(t)
    BY <2>10 DEF Answer, Step, Goto
  <2>11. CASE SetRemote(t)
    BY <2>11 DEF SetRemote, Step, Goto
  <2>12. CASE GateOpened(t)
    BY <2>12 DEF GateOpened, Step, Goto
  <2>13. CASE ChunkingRequired(t)
    BY <2>13 DEF ChunkingRequired, Step, Goto
  <2>14. CASE GateCancelled(t)
    BY <2>14 DEF GateCancelled, Step, Goto
  <2>15. CASE GateTimeout(t)
    BY <2>15 DEF GateTimeout, Step, Goto
  <2>16. CASE RequestFails(t)
    BY <2>16 DEF RequestFails, Goto
  <2>17. CASE SetReady(t)
    BY <2>17 DEF SetReady, Forget, Step, Goto
  <2> QED
    BY <1>2, <2>1, <2>2, <2>3, <2>4, <2>5, <2>6, <2>7, <2>8, <2>9, <2>10, <2>11, <2>12, <2>13, <2>14, <2>15, <2>16, <2>17 DEF Attempt
<1>3. ASSUME NEW t \in Tasks, Teardown(t) PROVE GateInv'
  <2>1. CASE BeginTeardown(t)
    BY <2>1 DEF BeginTeardown, DropGate, Cancelled, EndsSession, Recoverable, Step, Goto
  <2>2. CASE ClosePeer(t)
    BY <2>2 DEF ClosePeer, Hold, Step, Goto
  <2>3. CASE TerminateSession(t)
    BY <2>3 DEF TerminateSession, Step, Goto
  <2>4. CASE ClearState(t)
    BY <2>4 DEF ClearState, Step, Goto
  <2>5. CASE Settle(t)
    BY <2>5 DEF Settle, Forget, Step, Goto
  <2> QED
    BY <1>3, <2>1, <2>2, <2>3, <2>4, <2>5 DEF Teardown
<1>4. ASSUME HandlePeerEvent PROVE GateInv'
  <2>1. CASE HandleOpen
    <3>1. CASE flags' = Channels /\ gate # NoTask
      BY <2>1, <3>1 DEF HandleOpen, AllOpen
    <3>2. CASE flags' # Channels
      BY <2>1, <3>2 DEF HandleOpen, AllOpen
    <3>3. CASE gate = NoTask
      BY <2>1, <3>3, TasksAssumption DEF HandleOpen, AllOpen
    <3> QED
      BY <3>1, <3>2, <3>3
  <2>2. CASE HandleDown
    BY <2>2 DEF HandleDown, Goto, Idle
  <2>3. CASE RecordReason
    BY <2>3 DEF RecordReason, Step, Goto
  <2> QED
    BY <1>4, <2>1, <2>2, <2>3 DEF HandlePeerEvent
<1>5. ASSUME Engine PROVE GateInv'
  BY <1>5 DEF Engine, PeerOpens, PeerDrops
<1>6. CASE UNCHANGED vars
  BY <1>6
<1> QED
  BY <1>1, <1>2, <1>3, <1>4, <1>5, <1>6 DEF Next

\* No wake-up is lost: an attempt that waits at the gate is one whose gate is
\* installed and whose readiness is incomplete.
THEOREM NoReadinessLost == Spec => []NoLostReadiness
<1>1. Init => GateInv
  BY DEF Init, GateInv, GateHasAttempt, NoLostReadiness, Tasks
<1>2. GateInv => NoLostReadiness
  BY DEF GateInv
<1> QED
  BY <1>1, <1>2, TypeInit, TypeStep, GateStep, PTL DEF Spec

\* No gate is left installed by an attempt that has ended.
THEOREM GateOwned == Spec => []GateHasAttempt
<1>1. Init => GateInv
  BY DEF Init, GateInv, GateHasAttempt, NoLostReadiness, Tasks
<1>2. GateInv => GateHasAttempt
  BY DEF GateInv
<1> QED
  BY <1>1, <1>2, TypeInit, TypeStep, GateStep, PTL DEF Spec

----------------------------------------------------------------------------
(* What holds for a host that awaits each call before making the next: one *)
(* host task, whose calls the pump's handling of peer events still         *)
(* interleaves with.                                                       *)

\* The host that awaits its calls.
OneCaller == \E c \in Callers : Callers = {c}

\* The pump only ever tears down for a drop, which keeps the session.
PumpOnlyDrops ==
    /\ pc[Pump] \in TearingDown \cup {"idle", "blame"}
    /\ ~Idle(Pump) => op[Pump] = "drop"

\* A disconnect() under way ends with no session and Disconnected ...
DisconnectEnds ==
    latest = "disconnect" =>
      \A t \in Callers :
        IF Idle(t) THEN status = "Disconnected" /\ session = 0
        ELSE /\ op[t] = "disconnect" /\ pc[t] \in TearingDown
             /\ pc[t] = "settle" => session = 0

\* ... and what a teardown read of the session is still true when it clears it.
TeardownKnows ==
    \A t \in Callers :
      /\ pc[t] = "store" => sid[t] # 0
      /\ pc[t] \in {"close", "terminate", "clear"} =>
           sid[t] = session /\ (ends[t] <=> EndsSession(t))
      /\ pc[t] = "clear" /\ ends[t] /\ sid[t] # 0 => sid[t] \in asked

\* The labels of an attempt at which its own peer connection has no answer yet.
Unanswered == (Attempting \ {"await", "ready"}) \cup {"reopen"}
\* Those at which it may be the one the engine holds.
Holding == {"poll", "discard", "gate", "answer", "remote", "await"}

\* In a prompt environment, no event and no teardown of the pump is left over
\* when an attempt starts, nor can there be one before the answer is applied.
NothingLeftOver ==
    "prompt" \in env =>
      /\ Len(queue) <= 1
      /\ ~Idle(Pump) => queue = <<>>
      /\ pc[Pump] \in {"terminate", "clear", "settle"} => ~answered
      /\ \A t \in Callers :
           /\ pc[t] \in Unanswered \cup {"terminate", "clear", "settle"} =>
                ~answered /\ queue = <<>> /\ Idle(Pump)
           /\ Idle(t) /\ status # "Ready" => ~answered /\ queue = <<>>

\* What may be blamed is 0 or the attempt's own connection all the way from the
\* engine: in the queue, in the pump's hands, and recorded.
OwnReason ==
    "prompt" \in env =>
      \A t \in Callers :
        /\ pc[t] \notin TearingDown => blamed[t] = 0
        /\ pc[t] \in Unanswered \ {"reopen"} => reason = 0
        /\ pc[t] \in Holding => peer \in {0, mine[t]}
        /\ pc[t] = "await" =>
             /\ reason \in {0, mine[t]}
             /\ queue # <<>> => Head(queue).gen \in {0, mine[t]}
             /\ pc[Pump] = "blame" => mine[Pump] \in {0, mine[t]}
        /\ blamed[t] \in {0, mine[t]}

\* Where it is quiet, the pump tears down only between calls, what the flags say
\* of the current connection is so, and a Ready client has its channels or has
\* the news of their loss in the queue.
QuietInv ==
    Quiet =>
      /\ queue # <<>> /\ Opens(Head(queue).kind) => Head(queue).kind \in up
      /\ pc[Pump] = "settle" => flags = {}
      /\ \A t \in Callers :
           /\ ~Idle(t) => Idle(Pump)
           /\ queue # <<>> /\ Head(queue).kind = "down" =>
                Idle(t) /\ status = "Ready" /\ ~closing
           /\ pc[t] \in Attempting => ~closing
           /\ pc[t] \in Unanswered \cup {"settle"} => flags = {}
           /\ pc[t] \in {"await", "ready"} => flags \subseteq up
           /\ pc[t] \in {"answer", "remote", "await"} /\ rx[t] = "fired" => flags = Channels
           /\ pc[t] = "ready" => flags = Channels
           /\ Idle(t) /\ Idle(Pump) /\ status # "Ready" => flags = {}
           /\ Idle(t) /\ Idle(Pump) /\ status = "Ready" =>
                /\ ~closing
                /\ up = Channels \/ (queue # <<>> /\ Head(queue).kind = "down")

\* Where it is quiet, the status is what the point an attempt has reached says.
StatusFollows ==
    Quiet =>
      \A t \in Callers :
        /\ pc[t] \in {"create", "store", "waiting"} => status = "Connecting"
        /\ pc[t] \in Attempting \ {"create", "store", "waiting"} => status = "Waiting"
        /\ pc[t] = "reopen" => status = "Disconnected"
        /\ Idle(t) => status \in {"Disconnected", "Ready"}

\* The pump starts a teardown only for a drop and leaves it only by finishing it.
LEMMA PumpStep == TypeOK /\ PumpOnlyDrops /\ [Next]_vars => PumpOnlyDrops'
<1> SUFFICES ASSUME TypeOK, PumpOnlyDrops, [Next]_vars PROVE PumpOnlyDrops'
  OBVIOUS
<1> USE DEF TypeOK, TasksOK, PumpOnlyDrops, TearingDown, Tasks, Idle, vars, client, locals, transport, engine, outside
<1>1. ASSUME NEW t \in Callers, HostCall(t) PROVE PumpOnlyDrops'
  <2>1. CASE \E adopt \in BOOLEAN : Connect(t, adopt)
    BY <2>1, TasksAssumption DEF Connect, Call, FreshAttempt, MayConnect, Goto, Idle, Calm
  <2>2. CASE ConnectRejected(t)
    BY <2>2, TasksAssumption DEF ConnectRejected, Call, Idle, Calm
  <2>3. CASE Reconnect(t)
    BY <2>3, TasksAssumption DEF Reconnect, Call, Goto, Idle, Calm
  <2>4. CASE Disconnect(t)
    BY <2>4, TasksAssumption DEF Disconnect, Call, Goto, Idle, Calm
  <2> QED
    BY <1>1, <2>1, <2>2, <2>3, <2>4 DEF HostCall
<1>2. ASSUME NEW t \in Callers, Attempt(t) PROVE PumpOnlyDrops'
  <2>1. CASE Reopen(t)
    BY <2>1, TasksAssumption DEF Reopen, FreshAttempt, Goto
  <2>2. CASE CreateSession(t)
    BY <2>2, TasksAssumption DEF CreateSession, Step, Goto
  <2>3. CASE StoreSession(t)
    BY <2>3, TasksAssumption DEF StoreSession, Owned, Step, Goto
  <2>4. CASE SetWaiting(t)
    BY <2>4, TasksAssumption DEF SetWaiting, Step, Goto
  <2>5. CASE Prepare(t)
    BY <2>5, TasksAssumption DEF Prepare, Hold, Step, Goto
  <2>6. CASE PresetMatches(t)
    BY <2>6, TasksAssumption DEF PresetMatches, Step, Goto
  <2>7. CASE PresetMismatch(t)
    BY <2>7, TasksAssumption DEF PresetMismatch, Step, Goto
  <2>8. CASE DiscardOffer(t)
    BY <2>8, TasksAssumption DEF DiscardOffer, Hold, Step, Goto
  <2>9. CASE InstallGate(t)
    BY <2>9, TasksAssumption DEF InstallGate, OpensAtOnce, AllOpen, Cancelled, Step, Goto
  <2>10. CASE Answer(t)
    BY <2>10, TasksAssumption DEF Answer, Step, Goto
  <2>11. CASE SetRemote(t)
    BY <2>11, TasksAssumption DEF SetRemote, Step, Goto
  <2>12. CASE GateOpened(t)
    BY <2>12, TasksAssumption DEF GateOpened, Step, Goto
  <2>13. CASE ChunkingRequired(t)
    BY <2>13, TasksAssumption DEF ChunkingRequired, Step, Goto
  <2>14. CASE GateCancelled(t)
    BY <2>14, TasksAssumption DEF GateCancelled, Step, Goto
  <2>15. CASE GateTimeout(t)
    BY <2>15, TasksAssumption DEF GateTimeout, Step, Goto
  <2>16. CASE RequestFails(t)
    BY <2>16, TasksAssumption DEF RequestFails, Goto
  <2>17. CASE SetReady(t)
    BY <2>17, TasksAssumption DEF SetReady, Forget, Step, Goto
  <2> QED
    BY <1>2, <2>1, <2>2, <2>3, <2>4, <2>5, <2>6, <2>7, <2>8, <2>9, <2>10, <2>11, <2>12, <2>13, <2>14, <2>15, <2>16, <2>17 DEF Attempt
<1>3. ASSUME NEW t \in Tasks, Teardown(t) PROVE PumpOnlyDrops'
  <2>1. CASE BeginTeardown(t)
    BY <2>1, TasksAssumption DEF BeginTeardown, DropGate, Cancelled, Step, Goto
  <2>2. CASE ClosePeer(t)
    BY <2>2, TasksAssumption DEF ClosePeer, Hold, Step, Goto, Calm
  <2>3. CASE TerminateSession(t)
    BY <2>3, TasksAssumption DEF TerminateSession, Step, Goto
  <2>4. CASE ClearState(t)
    BY <2>4, TasksAssumption DEF ClearState, Step, Goto
  <2>5. CASE Settle(t)
    BY <2>5, TasksAssumption DEF Settle, Forget, Step, Goto
  <2> QED
    BY <1>3, <2>1, <2>2, <2>3, <2>4, <2>5 DEF Teardown
<1>4. ASSUME HandlePeerEvent PROVE PumpOnlyDrops'
  <2>1. CASE HandleOpen
    BY <2>1, TasksAssumption DEF HandleOpen, Opens, AllOpen
  <2>2. CASE HandleDown
    BY <2>2, TasksAssumption DEF HandleDown, Goto
  <2>3. CASE RecordReason
    BY <2>3, TasksAssumption DEF RecordReason, Step, Goto
  <2> QED
    BY <1>4, <2>1, <2>2, <2>3 DEF HandlePeerEvent
<1>5. ASSUME Engine PROVE PumpOnlyDrops'
  BY <1>5, TasksAssumption DEF Engine, PeerOpens, PeerDrops
<1>6. CASE UNCHANGED vars
  BY <1>6
<1> QED
  BY <1>1, <1>2, <1>3, <1>4, <1>5, <1>6 DEF Next

\* Nothing but the next call disturbs what a disconnect() has done.
LEMMA DisconnectStep == OneCaller /\ TypeOK /\ PumpOnlyDrops /\ DisconnectEnds /\ [Next]_vars => DisconnectEnds'
<1> SUFFICES ASSUME OneCaller, TypeOK, PumpOnlyDrops, DisconnectEnds, [Next]_vars PROVE DisconnectEnds'
  OBVIOUS
<1> USE DEF TypeOK, TasksOK, OneCaller, PumpOnlyDrops, DisconnectEnds, TearingDown, Tasks, Idle, vars, client, locals, transport, engine, outside
<1>1. ASSUME NEW t \in Callers, HostCall(t) PROVE DisconnectEnds'
  <2>1. CASE \E adopt \in BOOLEAN : Connect(t, adopt)
    BY <2>1, TasksAssumption DEF Connect, Call, FreshAttempt, MayConnect, Goto, Idle, Calm
  <2>2. CASE ConnectRejected(t)
    BY <2>2, TasksAssumption DEF ConnectRejected, Call, Idle, Calm
  <2>3. CASE Reconnect(t)
    BY <2>3, TasksAssumption DEF Reconnect, Call, Goto, Idle, Calm
  <2>4. CASE Disconnect(t)
    BY <2>4, TasksAssumption DEF Disconnect, Call, Goto, Idle, Calm
  <2> QED
    BY <1>1, <2>1, <2>2, <2>3, <2>4 DEF HostCall
<1>2. ASSUME NEW t \in Callers, Attempt(t) PROVE DisconnectEnds'
  <2>1. CASE Reopen(t)
    BY <2>1, TasksAssumption DEF Reopen, FreshAttempt, Goto
  <2>2. CASE CreateSession(t)
    BY <2>2, TasksAssumption DEF CreateSession, Step, Goto
  <2>3. CASE StoreSession(t)
    BY <2>3, TasksAssumption DEF StoreSession, Owned, Step, Goto
  <2>4. CASE SetWaiting(t)
    BY <2>4, TasksAssumption DEF SetWaiting, Step, Goto
  <2>5. CASE Prepare(t)
    BY <2>5, TasksAssumption DEF Prepare, Hold, Step, Goto
  <2>6. CASE PresetMatches(t)
    BY <2>6, TasksAssumption DEF PresetMatches, Step, Goto
  <2>7. CASE PresetMismatch(t)
    BY <2>7, TasksAssumption DEF PresetMismatch, Step, Goto
  <2>8. CASE DiscardOffer(t)
    BY <2>8, TasksAssumption DEF DiscardOffer, Hold, Step, Goto
  <2>9. CASE InstallGate(t)
    BY <2>9, TasksAssumption DEF InstallGate, OpensAtOnce, AllOpen, Cancelled, Step, Goto
  <2>10. CASE Answer(t)
    BY <2>10, TasksAssumption DEF Answer, Step, Goto
  <2>11. CASE SetRemote(t)
    BY <2>11, TasksAssumption DEF SetRemote, Step, Goto
  <2>12. CASE GateOpened(t)
    BY <2>12, TasksAssumption DEF GateOpened, Step, Goto
  <2>13. CASE ChunkingRequired(t)
    BY <2>13, TasksAssumption DEF ChunkingRequired, Step, Goto
  <2>14. CASE GateCancelled(t)
    BY <2>14, TasksAssumption DEF GateCancelled, Step, Goto
  <2>15. CASE GateTimeout(t)
    BY <2>15, TasksAssumption DEF GateTimeout, Step, Goto
  <2>16. CASE RequestFails(t)
    BY <2>16, TasksAssumption DEF RequestFails, Goto
  <2>17. CASE SetReady(t)
    BY <2>17, TasksAssumption DEF SetReady, Forget, Step, Goto
  <2> QED
    BY <1>2, <2>1, <2>2, <2>3, <2>4, <2>5, <2>6, <2>7, <2>8, <2>9, <2>10, <2>11, <2>12, <2>13, <2>14, <2>15, <2>16, <2>17 DEF Attempt
<1>3. ASSUME NEW t \in Tasks, Teardown(t) PROVE DisconnectEnds'
  <2>1. CASE BeginTeardown(t)
    BY <2>1, TasksAssumption DEF BeginTeardown, DropGate, Cancelled, Step, Goto
  <2>2. CASE ClosePeer(t)
    BY <2>2, TasksAssumption DEF ClosePeer, Hold, Step, Goto, Calm
  <2>3. CASE TerminateSession(t)
    BY <2>3, TasksAssumption DEF TerminateSession, Step, Goto
  <2>4. CASE ClearState(t)
    BY <2>4, TasksAssumption DEF ClearState, Step, Goto, Recoverable
  <2>5. CASE Settle(t)
    BY <2>5, TasksAssumption DEF Settle, Forget, Step, Goto
  <2> QED
    BY <1>3, <2>1, <2>2, <2>3, <2>4, <2>5 DEF Teardown
<1>4. ASSUME HandlePeerEvent PROVE DisconnectEnds'
  <2>1. CASE HandleOpen
    BY <2>1, TasksAssumption DEF HandleOpen, Opens, AllOpen
  <2>2. CASE HandleDown
    BY <2>2, TasksAssumption DEF HandleDown, Goto
  <2>3. CASE RecordReason
    BY <2>3, TasksAssumption DEF RecordReason, Step, Goto
  <2> QED
    BY <1>4, <2>1, <2>2, <2>3 DEF HandlePeerEvent
<1>5. ASSUME Engine PROVE DisconnectEnds'
  BY <1>5, TasksAssumption DEF Engine, PeerOpens, PeerDrops
<1>6. CASE UNCHANGED vars
  BY <1>6
<1> QED
  BY <1>1, <1>2, <1>3, <1>4, <1>5, <1>6 DEF Next

\* Between reading the session and clearing it, a teardown of the only caller is
\* the only one to touch it.
LEMMA TeardownStep == OneCaller /\ TypeOK /\ PumpOnlyDrops /\ TeardownKnows /\ [Next]_vars => TeardownKnows'
<1> SUFFICES ASSUME OneCaller, TypeOK, PumpOnlyDrops, TeardownKnows, [Next]_vars PROVE TeardownKnows'
  OBVIOUS
<1> USE DEF TypeOK, TasksOK, OneCaller, PumpOnlyDrops, TeardownKnows, EndsSession, Recoverable, TearingDown, SessionIds, Tasks, Idle, vars, client, locals, transport, engine, outside
<1>1. ASSUME NEW t \in Callers, HostCall(t) PROVE TeardownKnows'
  <2>1. CASE \E adopt \in BOOLEAN : Connect(t, adopt)
    BY <2>1, TasksAssumption, AdoptedAssumption DEF Connect, Call, FreshAttempt, MayConnect, Goto, Idle, Calm
  <2>2. CASE ConnectRejected(t)
    BY <2>2, TasksAssumption, AdoptedAssumption DEF ConnectRejected, Call, Idle, Calm
  <2>3. CASE Reconnect(t)
    BY <2>3, TasksAssumption, AdoptedAssumption DEF Reconnect, Call, Goto, Idle, Calm
  <2>4. CASE Disconnect(t)
    BY <2>4, TasksAssumption, AdoptedAssumption DEF Disconnect, Call, Goto, Idle, Calm
  <2> QED
    BY <1>1, <2>1, <2>2, <2>3, <2>4 DEF HostCall
<1>2. ASSUME NEW t \in Callers, Attempt(t) PROVE TeardownKnows'
  <2>1. CASE Reopen(t)
    BY <2>1, TasksAssumption, AdoptedAssumption DEF Reopen, FreshAttempt, Goto
  <2>2. CASE CreateSession(t)
    BY <2>2, TasksAssumption, AdoptedAssumption DEF CreateSession, Step, Goto, OutsideOK
  <2>3. CASE StoreSession(t)
    BY <2>3, TasksAssumption, AdoptedAssumption DEF StoreSession, Owned, Step, Goto
  <2>4. CASE SetWaiting(t)
    BY <2>4, TasksAssumption, AdoptedAssumption DEF SetWaiting, Step, Goto
  <2>5. CASE Prepare(t)
    BY <2>5, TasksAssumption, AdoptedAssumption DEF Prepare, Hold, Step, Goto
  <2>6. CASE PresetMatches(t)
    BY <2>6, TasksAssumption, AdoptedAssumption DEF PresetMatches, Step, Goto
  <2>7. CASE PresetMismatch(t)
    BY <2>7, TasksAssumption, AdoptedAssumption DEF PresetMismatch, Step, Goto
  <2>8. CASE DiscardOffer(t)
    BY <2>8, TasksAssumption, AdoptedAssumption DEF DiscardOffer, Hold, Step, Goto
  <2>9. CASE InstallGate(t)
    BY <2>9, TasksAssumption, AdoptedAssumption DEF InstallGate, OpensAtOnce, AllOpen, Cancelled, Step, Goto
  <2>10. CASE Answer(t)
    BY <2>10, TasksAssumption, AdoptedAssumption DEF Answer, Step, Goto
  <2>11. CASE SetRemote(t)
    BY <2>11, TasksAssumption, AdoptedAssumption DEF SetRemote, Step, Goto
  <2>12. CASE GateOpened(t)
    BY <2>12, TasksAssumption, AdoptedAssumption DEF GateOpened, Step, Goto
  <2>13. CASE ChunkingRequired(t)
    BY <2>13, TasksAssumption, AdoptedAssumption DEF ChunkingRequired, Step, Goto
  <2>14. CASE GateCancelled(t)
    BY <2>14, TasksAssumption, AdoptedAssumption DEF GateCancelled, Step, Goto
  <2>15. CASE GateTimeout(t)
    BY <2>15, TasksAssumption, AdoptedAssumption DEF GateTimeout, Step, Goto
  <2>16. CASE RequestFails(t)
    BY <2>16, TasksAssumption, AdoptedAssumption DEF RequestFails, Goto
  <2>17. CASE SetReady(t)
    BY <2>17, TasksAssumption, AdoptedAssumption DEF SetReady, Forget, Step, Goto
  <2> QED
    BY <1>2, <2>1, <2>2, <2>3, <2>4, <2>5, <2>6, <2>7, <2>8, <2>9, <2>10, <2>11, <2>12, <2>13, <2>14, <2>15, <2>16, <2>17 DEF Attempt
<1>3. ASSUME NEW t \in Tasks, Teardown(t) PROVE TeardownKnows'
  <2>1. CASE BeginTeardown(t)
    BY <2>1, TasksAssumption, AdoptedAssumption DEF BeginTeardown, DropGate, Cancelled, Step, Goto
  <2>2. CASE ClosePeer(t)
    BY <2>2, TasksAssumption, AdoptedAssumption DEF ClosePeer, Hold, Step, Goto, Calm
  <2>3. CASE TerminateSession(t)
    BY <2>3, TasksAssumption, AdoptedAssumption DEF TerminateSession, Step, Goto
  <2>4. CASE ClearState(t)
    BY <2>4, TasksAssumption, AdoptedAssumption DEF ClearState, Step, Goto
  <2>5. CASE Settle(t)
    BY <2>5, TasksAssumption, AdoptedAssumption DEF Settle, Forget, Step, Goto
  <2> QED
    BY <1>3, <2>1, <2>2, <2>3, <2>4, <2>5 DEF Teardown
<1>4. ASSUME HandlePeerEvent PROVE TeardownKnows'
  <2>1. CASE HandleOpen
    BY <2>1, TasksAssumption, AdoptedAssumption DEF HandleOpen, Opens, AllOpen
  <2>2. CASE HandleDown
    BY <2>2, TasksAssumption, AdoptedAssumption DEF HandleDown, Goto
  <2>3. CASE RecordReason
    BY <2>3, TasksAssumption, AdoptedAssumption DEF RecordReason, Step, Goto
  <2> QED
    BY <1>4, <2>1, <2>2, <2>3 DEF HandlePeerEvent
<1>5. ASSUME Engine PROVE TeardownKnows'
  BY <1>5, TasksAssumption, AdoptedAssumption DEF Engine, PeerOpens, PeerDrops
<1>6. CASE UNCHANGED vars
  BY <1>6
<1> QED
  BY <1>1, <1>2, <1>3, <1>4, <1>5, <1>6 DEF Next

\* A queue of at most one event: popping it leaves none, and an event emitted into
\* an empty queue is its only one.
LEMMA OneEvent ==
  /\ TypeOK /\ Len(queue) <= 1 /\ queue # <<>> => Tail(queue) = <<>>
  /\ \A e \in Events : Len(Append(<<>>, e)) = 1 /\ Head(Append(<<>>, e)) = e /\ Append(<<>>, e) # <<>>
<1>1. ASSUME TypeOK, Len(queue) <= 1, queue # <<>> PROVE Tail(queue) = <<>>
  <2>1. queue \in Seq(Events)
    BY <1>1 DEF TypeOK, EngineOK
  <2>2. Tail(queue) \in Seq(Events) /\ Len(Tail(queue)) = Len(queue) - 1 /\ Len(queue) \in Nat /\ Len(queue) # 0
    BY <1>1, <2>1, HeadTailProperties, EmptySeq
  <2> QED
    BY <1>1, <2>2, EmptySeq
<1>2. ASSUME NEW e \in Events
      PROVE Len(Append(<<>>, e)) = 1 /\ Head(Append(<<>>, e)) = e /\ Append(<<>>, e) # <<>>
  OBVIOUS
<1> QED
  BY <1>1, <1>2

\* Calls and closings wait for a calm pump, and only an answered connection emits.
LEMMA LeftOverStep == OneCaller /\ TypeOK /\ PumpOnlyDrops /\ NothingLeftOver /\ [Next]_vars => NothingLeftOver'
<1> SUFFICES ASSUME OneCaller, TypeOK, PumpOnlyDrops, NothingLeftOver, [Next]_vars PROVE NothingLeftOver'
  OBVIOUS
<1> USE DEF TypeOK, TasksOK, ClientOK, EngineOK, SwitchesOK, OutsideOK, OneCaller, PumpOnlyDrops, NothingLeftOver, Attempting, TearingDown, Unanswered, Tasks, Idle, vars, client, locals, transport, engine, outside
<1>1. ASSUME NEW t \in Callers, HostCall(t) PROVE NothingLeftOver'
  <2>1. CASE \E adopt \in BOOLEAN : Connect(t, adopt)
    BY <2>1, TasksAssumption DEF Connect, Call, FreshAttempt, MayConnect, Goto, Idle, Calm
  <2>2. CASE ConnectRejected(t)
    BY <2>2, TasksAssumption DEF ConnectRejected, Call, Idle, Calm
  <2>3. CASE Reconnect(t)
    BY <2>3, TasksAssumption DEF Reconnect, Call, Goto, Idle, Calm
  <2>4. CASE Disconnect(t)
    BY <2>4, TasksAssumption DEF Disconnect, Call, Goto, Idle, Calm
  <2> QED
    BY <1>1, <2>1, <2>2, <2>3, <2>4 DEF HostCall
<1>2. ASSUME NEW t \in Callers, Attempt(t) PROVE NothingLeftOver'
  <2>1. CASE Reopen(t)
    BY <2>1, TasksAssumption DEF Reopen, FreshAttempt, Goto
  <2>2. CASE CreateSession(t)
    BY <2>2, TasksAssumption DEF CreateSession, Step, Goto
  <2>3. CASE StoreSession(t)
    BY <2>3, TasksAssumption DEF StoreSession, Owned, Step, Goto
  <2>4. CASE SetWaiting(t)
    BY <2>4, TasksAssumption DEF SetWaiting, Step, Goto
  <2>5. CASE Prepare(t)
    BY <2>5, TasksAssumption DEF Prepare, Hold, Step, Goto
  <2>6. CASE PresetMatches(t)
    BY <2>6, TasksAssumption DEF PresetMatches, Step, Goto
  <2>7. CASE PresetMismatch(t)
    BY <2>7, TasksAssumption DEF PresetMismatch, Step, Goto
  <2>8. CASE DiscardOffer(t)
    BY <2>8, TasksAssumption DEF DiscardOffer, Hold, Step, Goto
  <2>9. CASE InstallGate(t)
    BY <2>9, TasksAssumption DEF InstallGate, OpensAtOnce, AllOpen, Cancelled, Step, Goto
  <2>10. CASE Answer(t)
    BY <2>10, TasksAssumption DEF Answer, Step, Goto
  <2>11. CASE SetRemote(t)
    BY <2>11, TasksAssumption DEF SetRemote, Step, Goto
  <2>12. CASE GateOpened(t)
    BY <2>12, TasksAssumption DEF GateOpened, Step, Goto
  <2>13. CASE ChunkingRequired(t)
    BY <2>13, TasksAssumption DEF ChunkingRequired, Step, Goto
  <2>14. CASE GateCancelled(t)
    BY <2>14, TasksAssumption DEF GateCancelled, Step, Goto
  <2>15. CASE GateTimeout(t)
    BY <2>15, TasksAssumption DEF GateTimeout, Step, Goto
  <2>16. CASE RequestFails(t)
    BY <2>16, TasksAssumption DEF RequestFails, Goto
  <2>17. CASE SetReady(t)
    BY <2>17, TasksAssumption DEF SetReady, Forget, Step, Goto
  <2> QED
    BY <1>2, <2>1, <2>2, <2>3, <2>4, <2>5, <2>6, <2>7, <2>8, <2>9, <2>10, <2>11, <2>12, <2>13, <2>14, <2>15, <2>16, <2>17 DEF Attempt
<1>3. ASSUME NEW t \in Tasks, Teardown(t) PROVE NothingLeftOver'
  <2>1. CASE BeginTeardown(t)
    BY <2>1, TasksAssumption DEF BeginTeardown, DropGate, Cancelled, Step, Goto
  <2>2. CASE ClosePeer(t)
    BY <2>2, TasksAssumption DEF ClosePeer, Hold, Step, Goto, Calm
  <2>3. CASE TerminateSession(t)
    BY <2>3, TasksAssumption DEF TerminateSession, Step, Goto
  <2>4. CASE ClearState(t)
    BY <2>4, TasksAssumption DEF ClearState, Step, Goto
  <2>5. CASE Settle(t)
    BY <2>5, TasksAssumption DEF Settle, Forget, Step, Goto
  <2> QED
    BY <1>3, <2>1, <2>2, <2>3, <2>4, <2>5 DEF Teardown
<1>4. ASSUME HandlePeerEvent PROVE NothingLeftOver'
  <2>1. CASE HandleOpen
    BY <2>1, OneEvent, TasksAssumption DEF HandleOpen, Opens, AllOpen
  <2>2. CASE HandleDown
    BY <2>2, OneEvent, TasksAssumption DEF HandleDown, Goto
  <2>3. CASE RecordReason
    BY <2>3, TasksAssumption DEF RecordReason, Step, Goto
  <2> QED
    BY <1>4, <2>1, <2>2, <2>3 DEF HandlePeerEvent
<1>5. ASSUME Engine PROVE NothingLeftOver'
  <2>1. ASSUME NEW c \in Channels, PeerOpens(c) PROVE NothingLeftOver'
    <3>1. [kind |-> c, gen |-> peer] \in Events
      BY DEF Events, EngineOK
    <3> QED
      BY <2>1, <3>1, OneEvent, TasksAssumption DEF PeerOpens, Emit, Calm
  <2>2. CASE PeerDrops
    <3>1. [kind |-> "down", gen |-> peer] \in Events
      BY DEF Events, EngineOK
    <3> QED
      BY <2>2, <3>1, OneEvent, TasksAssumption DEF PeerDrops, Emit, Calm
  <2> QED
    BY <1>5, <2>1, <2>2 DEF Engine
<1>6. CASE UNCHANGED vars
  BY <1>6
<1> QED
  BY <1>1, <1>2, <1>3, <1>4, <1>5, <1>6 DEF Next

\* The reason is reset when an attempt starts, and from then on only its own
\* connection can supply one.
LEMMA ReasonStep == OneCaller /\ TypeOK /\ PumpOnlyDrops /\ NothingLeftOver /\ OwnReason /\ [Next]_vars => OwnReason'
<1> SUFFICES ASSUME OneCaller, TypeOK, PumpOnlyDrops, NothingLeftOver, OwnReason, [Next]_vars PROVE OwnReason'
  OBVIOUS
<1> USE DEF TypeOK, TasksOK, ClientOK, EngineOK, OneCaller, PumpOnlyDrops, NothingLeftOver, OwnReason, Holding, Attempting, TearingDown, Unanswered, Tasks, Idle, vars, client, locals, transport, engine, outside
<1>1. ASSUME NEW t \in Callers, HostCall(t) PROVE OwnReason'
  <2>1. CASE \E adopt \in BOOLEAN : Connect(t, adopt)
    BY <2>1, TasksAssumption DEF Connect, Call, FreshAttempt, MayConnect, Goto, Idle, Calm
  <2>2. CASE ConnectRejected(t)
    BY <2>2, TasksAssumption DEF ConnectRejected, Call, Idle, Calm
  <2>3. CASE Reconnect(t)
    BY <2>3, TasksAssumption DEF Reconnect, Call, Goto, Idle, Calm
  <2>4. CASE Disconnect(t)
    BY <2>4, TasksAssumption DEF Disconnect, Call, Goto, Idle, Calm
  <2> QED
    BY <1>1, <2>1, <2>2, <2>3, <2>4 DEF HostCall
<1>2. ASSUME NEW t \in Callers, Attempt(t) PROVE OwnReason'
  <2>1. CASE Reopen(t)
    BY <2>1, TasksAssumption DEF Reopen, FreshAttempt, Goto
  <2>2. CASE CreateSession(t)
    BY <2>2, TasksAssumption DEF CreateSession, Step, Goto
  <2>3. CASE StoreSession(t)
    BY <2>3, TasksAssumption DEF StoreSession, Owned, Step, Goto
  <2>4. CASE SetWaiting(t)
    BY <2>4, TasksAssumption DEF SetWaiting, Step, Goto
  <2>5. CASE Prepare(t)
    BY <2>5, TasksAssumption DEF Prepare, Hold, Step, Goto
  <2>6. CASE PresetMatches(t)
    BY <2>6, TasksAssumption DEF PresetMatches, Step, Goto
  <2>7. CASE PresetMismatch(t)
    BY <2>7, TasksAssumption DEF PresetMismatch, Step, Goto
  <2>8. CASE DiscardOffer(t)
    BY <2>8, TasksAssumption DEF DiscardOffer, Hold, Step, Goto
  <2>9. CASE InstallGate(t)
    BY <2>9, TasksAssumption DEF InstallGate, OpensAtOnce, AllOpen, Cancelled, Step, Goto
  <2>10. CASE Answer(t)
    BY <2>10, TasksAssumption DEF Answer, Step, Goto
  <2>11. CASE SetRemote(t)
    BY <2>11, TasksAssumption DEF SetRemote, Step, Goto
  <2>12. CASE GateOpened(t)
    BY <2>12, TasksAssumption DEF GateOpened, Step, Goto
  <2>13. CASE ChunkingRequired(t)
    BY <2>13, TasksAssumption DEF ChunkingRequired, Step, Goto
  <2>14. CASE GateCancelled(t)
    BY <2>14, TasksAssumption DEF GateCancelled, Step, Goto
  <2>15. CASE GateTimeout(t)
    BY <2>15, TasksAssumption DEF GateTimeout, Step, Goto
  <2>16. CASE RequestFails(t)
    BY <2>16, TasksAssumption DEF RequestFails, Goto
  <2>17. CASE SetReady(t)
    BY <2>17, TasksAssumption DEF SetReady, Forget, Step, Goto
  <2> QED
    BY <1>2, <2>1, <2>2, <2>3, <2>4, <2>5, <2>6, <2>7, <2>8, <2>9, <2>10, <2>11, <2>12, <2>13, <2>14, <2>15, <2>16, <2>17 DEF Attempt
<1>3. ASSUME NEW t \in Tasks, Teardown(t) PROVE OwnReason'
  <2>1. CASE BeginTeardown(t)
    BY <2>1, TasksAssumption DEF BeginTeardown, DropGate, Cancelled, Step, Goto
  <2>2. CASE ClosePeer(t)
    BY <2>2, TasksAssumption DEF ClosePeer, Hold, Step, Goto, Calm
  <2>3. CASE TerminateSession(t)
    BY <2>3, TasksAssumption DEF TerminateSession, Step, Goto
  <2>4. CASE ClearState(t)
    BY <2>4, TasksAssumption DEF ClearState, Step, Goto
  <2>5. CASE Settle(t)
    BY <2>5, TasksAssumption DEF Settle, Forget, Step, Goto
  <2> QED
    BY <1>3, <2>1, <2>2, <2>3, <2>4, <2>5 DEF Teardown
<1>4. ASSUME HandlePeerEvent PROVE OwnReason'
  <2>1. CASE HandleOpen
    BY <2>1, OneEvent, TasksAssumption DEF HandleOpen, Opens, AllOpen
  <2>2. CASE HandleDown
    BY <2>2, OneEvent, TasksAssumption DEF HandleDown, Goto
  <2>3. CASE RecordReason
    BY <2>3, TasksAssumption DEF RecordReason, Step, Goto
  <2> QED
    BY <1>4, <2>1, <2>2, <2>3 DEF HandlePeerEvent
<1>5. ASSUME Engine PROVE OwnReason'
  <2>1. ASSUME NEW c \in Channels, PeerOpens(c) PROVE OwnReason'
    <3>1. [kind |-> c, gen |-> peer] \in Events
      BY DEF Events, EngineOK
    <3> QED
      BY <2>1, <3>1, OneEvent, TasksAssumption DEF PeerOpens, Emit, Calm
  <2>2. CASE PeerDrops
    <3>1. [kind |-> "down", gen |-> peer] \in Events
      BY DEF Events, EngineOK
    <3> QED
      BY <2>2, <3>1, OneEvent, TasksAssumption DEF PeerDrops, Emit, Calm
  <2> QED
    BY <1>5, <2>1, <2>2 DEF Engine
<1>6. CASE UNCHANGED vars
  BY <1>6
<1> QED
  BY <1>1, <1>2, <1>3, <1>4, <1>5, <1>6 DEF Next

\* Nothing is lost or torn down during a call, so the flags tell the truth.
LEMMA QuietStep == OneCaller /\ TypeOK /\ PumpOnlyDrops /\ NothingLeftOver /\ GateInv /\ StatusFollows /\ QuietInv /\ [Next]_vars => QuietInv'
<1> SUFFICES ASSUME OneCaller, TypeOK, PumpOnlyDrops, NothingLeftOver, GateInv, StatusFollows, QuietInv, [Next]_vars PROVE QuietInv'
  OBVIOUS
<1> USE DEF TypeOK, TasksOK, ClientOK, EngineOK, OneCaller, PumpOnlyDrops, NothingLeftOver, GateInv, StatusFollows, QuietInv, Quiet, Attempting, TearingDown, Unanswered, Tasks, Idle, vars, client, locals, transport, engine, outside
<1>1. ASSUME NEW t \in Callers, HostCall(t) PROVE QuietInv'
  <2>1. CASE \E adopt \in BOOLEAN : Connect(t, adopt)
    BY <2>1, TasksAssumption DEF Connect, Call, FreshAttempt, MayConnect, Goto, Idle, Calm
  <2>2. CASE ConnectRejected(t)
    BY <2>2, TasksAssumption DEF ConnectRejected, Call, Idle, Calm
  <2>3. CASE Reconnect(t)
    BY <2>3, TasksAssumption DEF Reconnect, Call, Goto, Idle, Calm
  <2>4. CASE Disconnect(t)
    BY <2>4, TasksAssumption DEF Disconnect, Call, Goto, Idle, Calm
  <2> QED
    BY <1>1, <2>1, <2>2, <2>3, <2>4 DEF HostCall
<1>2. ASSUME NEW t \in Callers, Attempt(t) PROVE QuietInv'
  <2>1. CASE Reopen(t)
    BY <2>1, TasksAssumption DEF Reopen, FreshAttempt, Goto
  <2>2. CASE CreateSession(t)
    BY <2>2, TasksAssumption DEF CreateSession, Step, Goto
  <2>3. CASE StoreSession(t)
    BY <2>3, TasksAssumption DEF StoreSession, Owned, Step, Goto
  <2>4. CASE SetWaiting(t)
    BY <2>4, TasksAssumption DEF SetWaiting, Step, Goto
  <2>5. CASE Prepare(t)
    BY <2>5, TasksAssumption DEF Prepare, Hold, Step, Goto
  <2>6. CASE PresetMatches(t)
    BY <2>6, TasksAssumption DEF PresetMatches, Step, Goto
  <2>7. CASE PresetMismatch(t)
    BY <2>7, TasksAssumption DEF PresetMismatch, Step, Goto
  <2>8. CASE DiscardOffer(t)
    BY <2>8, TasksAssumption DEF DiscardOffer, Hold, Step, Goto
  <2>9. CASE InstallGate(t)
    BY <2>9, TasksAssumption DEF InstallGate, OpensAtOnce, AllOpen, Cancelled, Step, Goto
  <2>10. CASE Answer(t)
    BY <2>10, TasksAssumption DEF Answer, Step, Goto
  <2>11. CASE SetRemote(t)
    BY <2>11, TasksAssumption DEF SetRemote, Step, Goto
  <2>12. CASE GateOpened(t)
    BY <2>12, TasksAssumption DEF GateOpened, Step, Goto
  <2>13. CASE ChunkingRequired(t)
    BY <2>13, TasksAssumption DEF ChunkingRequired, Step, Goto
  <2>14. CASE GateCancelled(t)
    BY <2>14, TasksAssumption DEF GateCancelled, Step, Goto
  <2>15. CASE GateTimeout(t)
    BY <2>15, TasksAssumption DEF GateTimeout, Step, Goto
  <2>16. CASE RequestFails(t)
    BY <2>16, TasksAssumption DEF RequestFails, Goto
  <2>17. CASE SetReady(t)
    BY <2>17, TasksAssumption DEF SetReady, Forget, Step, Goto
  <2> QED
    BY <1>2, <2>1, <2>2, <2>3, <2>4, <2>5, <2>6, <2>7, <2>8, <2>9, <2>10, <2>11, <2>12, <2>13, <2>14, <2>15, <2>16, <2>17 DEF Attempt
<1>3. ASSUME NEW t \in Tasks, Teardown(t) PROVE QuietInv'
  <2>1. CASE BeginTeardown(t)
    BY <2>1, TasksAssumption DEF BeginTeardown, DropGate, Cancelled, Step, Goto
  <2>2. CASE ClosePeer(t)
    BY <2>2, TasksAssumption DEF ClosePeer, Hold, Step, Goto, Calm
  <2>3. CASE TerminateSession(t)
    BY <2>3, TasksAssumption DEF TerminateSession, Step, Goto
  <2>4. CASE ClearState(t)
    BY <2>4, TasksAssumption DEF ClearState, Step, Goto
  <2>5. CASE Settle(t)
    BY <2>5, TasksAssumption DEF Settle, Forget, Step, Goto
  <2> QED
    BY <1>3, <2>1, <2>2, <2>3, <2>4, <2>5 DEF Teardown
<1>4. ASSUME HandlePeerEvent PROVE QuietInv'
  <2>1. CASE HandleOpen
    BY <2>1, OneEvent, TasksAssumption DEF HandleOpen, Opens, AllOpen, Channels
  <2>2. CASE HandleDown
    BY <2>2, OneEvent, TasksAssumption DEF HandleDown, Goto, Channels, Opens
  <2>3. CASE RecordReason
    BY <2>3, TasksAssumption DEF RecordReason, Step, Goto
  <2> QED
    BY <1>4, <2>1, <2>2, <2>3 DEF HandlePeerEvent
<1>5. ASSUME Engine PROVE QuietInv'
  <2>1. ASSUME NEW c \in Channels, PeerOpens(c) PROVE QuietInv'
    <3>1. [kind |-> c, gen |-> peer] \in Events
      BY DEF Events, EngineOK
    <3> QED
      BY <2>1, <3>1, OneEvent, TasksAssumption DEF PeerOpens, Emit, Calm, Opens, Channels
  <2>2. CASE PeerDrops
    <3>1. [kind |-> "down", gen |-> peer] \in Events
      BY DEF Events, EngineOK
    <3> QED
      BY <2>2, <3>1, OneEvent, TasksAssumption DEF PeerDrops, Emit, Calm, Opens, Channels
  <2> QED
    BY <1>5, <2>1, <2>2 DEF Engine
<1>6. CASE UNCHANGED vars
  BY <1>6
<1> QED
  BY <1>1, <1>2, <1>3, <1>4, <1>5, <1>6 DEF Next

\* Where it is quiet, only the call under way writes the status.
LEMMA StatusStep == OneCaller /\ TypeOK /\ NothingLeftOver /\ QuietInv /\ StatusFollows /\ [Next]_vars => StatusFollows'
<1> SUFFICES ASSUME OneCaller, TypeOK, NothingLeftOver, QuietInv, StatusFollows, [Next]_vars PROVE StatusFollows'
  OBVIOUS
<1> USE DEF TypeOK, TasksOK, ClientOK, OneCaller, QuietInv, StatusFollows, Quiet, Attempting, TearingDown, Unanswered, Tasks, Idle, vars, client, locals, transport, engine, outside
<1>1. ASSUME NEW t \in Callers, HostCall(t) PROVE StatusFollows'
  <2>1. CASE \E adopt \in BOOLEAN : Connect(t, adopt)
    BY <2>1, TasksAssumption DEF Connect, Call, FreshAttempt, MayConnect, Goto, Idle, Calm
  <2>2. CASE ConnectRejected(t)
    BY <2>2, TasksAssumption DEF ConnectRejected, Call, Idle, Calm
  <2>3. CASE Reconnect(t)
    BY <2>3, TasksAssumption DEF Reconnect, Call, Goto, Idle, Calm
  <2>4. CASE Disconnect(t)
    BY <2>4, TasksAssumption DEF Disconnect, Call, Goto, Idle, Calm
  <2> QED
    BY <1>1, <2>1, <2>2, <2>3, <2>4 DEF HostCall
<1>2. ASSUME NEW t \in Callers, Attempt(t) PROVE StatusFollows'
  <2>1. CASE Reopen(t)
    BY <2>1, TasksAssumption DEF Reopen, FreshAttempt, Goto
  <2>2. CASE CreateSession(t)
    BY <2>2, TasksAssumption DEF CreateSession, Step, Goto
  <2>3. CASE StoreSession(t)
    BY <2>3, TasksAssumption DEF StoreSession, Owned, Step, Goto
  <2>4. CASE SetWaiting(t)
    BY <2>4, TasksAssumption DEF SetWaiting, Step, Goto
  <2>5. CASE Prepare(t)
    BY <2>5, TasksAssumption DEF Prepare, Hold, Step, Goto
  <2>6. CASE PresetMatches(t)
    BY <2>6, TasksAssumption DEF PresetMatches, Step, Goto
  <2>7. CASE PresetMismatch(t)
    BY <2>7, TasksAssumption DEF PresetMismatch, Step, Goto
  <2>8. CASE DiscardOffer(t)
    BY <2>8, TasksAssumption DEF DiscardOffer, Hold, Step, Goto
  <2>9. CASE InstallGate(t)
    BY <2>9, TasksAssumption DEF InstallGate, OpensAtOnce, AllOpen, Cancelled, Step, Goto
  <2>10. CASE Answer(t)
    BY <2>10, TasksAssumption DEF Answer, Step, Goto
  <2>11. CASE SetRemote(t)
    BY <2>11, TasksAssumption DEF SetRemote, Step, Goto
  <2>12. CASE GateOpened(t)
    BY <2>12, TasksAssumption DEF GateOpened, Step, Goto
  <2>13. CASE ChunkingRequired(t)
    BY <2>13, TasksAssumption DEF ChunkingRequired, Step, Goto
  <2>14. CASE GateCancelled(t)
    BY <2>14, TasksAssumption DEF GateCancelled, Step, Goto
  <2>15. CASE GateTimeout(t)
    BY <2>15, TasksAssumption DEF GateTimeout, Step, Goto
  <2>16. CASE RequestFails(t)
    BY <2>16, TasksAssumption DEF RequestFails, Goto
  <2>17. CASE SetReady(t)
    BY <2>17, TasksAssumption DEF SetReady, Forget, Step, Goto
  <2> QED
    BY <1>2, <2>1, <2>2, <2>3, <2>4, <2>5, <2>6, <2>7, <2>8, <2>9, <2>10, <2>11, <2>12, <2>13, <2>14, <2>15, <2>16, <2>17 DEF Attempt
<1>3. ASSUME NEW t \in Tasks, Teardown(t) PROVE StatusFollows'
  <2>1. CASE BeginTeardown(t)
    BY <2>1, TasksAssumption DEF BeginTeardown, DropGate, Cancelled, Step, Goto
  <2>2. CASE ClosePeer(t)
    BY <2>2, TasksAssumption DEF ClosePeer, Hold, Step, Goto, Calm
  <2>3. CASE TerminateSession(t)
    BY <2>3, TasksAssumption DEF TerminateSession, Step, Goto
  <2>4. CASE ClearState(t)
    BY <2>4, TasksAssumption DEF ClearState, Step, Goto
  <2>5. CASE Settle(t)
    BY <2>5, TasksAssumption DEF Settle, Forget, Step, Goto
  <2> QED
    BY <1>3, <2>1, <2>2, <2>3, <2>4, <2>5 DEF Teardown
<1>4. ASSUME HandlePeerEvent PROVE StatusFollows'
  <2>1. CASE HandleOpen
    BY <2>1, TasksAssumption DEF HandleOpen, Opens, AllOpen
  <2>2. CASE HandleDown
    BY <2>2, TasksAssumption DEF HandleDown, Goto
  <2>3. CASE RecordReason
    BY <2>3, TasksAssumption DEF RecordReason, Step, Goto
  <2> QED
    BY <1>4, <2>1, <2>2, <2>3 DEF HandlePeerEvent
<1>5. ASSUME Engine PROVE StatusFollows'
  BY <1>5, TasksAssumption DEF Engine, PeerOpens, PeerDrops
<1>6. CASE UNCHANGED vars
  BY <1>6
<1> QED
  BY <1>1, <1>2, <1>3, <1>4, <1>5, <1>6 DEF Next

----------------------------------------------------------------------------
\* All of it holds initially.
LEMMA OneCallerInit ==
  Init => /\ PumpOnlyDrops /\ DisconnectEnds /\ TeardownKnows
          /\ NothingLeftOver /\ OwnReason /\ QuietInv /\ StatusFollows /\ GateInv
<1> SUFFICES ASSUME Init
             PROVE /\ PumpOnlyDrops /\ DisconnectEnds /\ TeardownKnows
                   /\ NothingLeftOver /\ OwnReason /\ QuietInv /\ StatusFollows /\ GateInv
  OBVIOUS
<1> USE DEF Init, Tasks, Idle, Attempting, TearingDown
<1>1. PumpOnlyDrops /\ DisconnectEnds /\ TeardownKnows
  BY DEF PumpOnlyDrops, DisconnectEnds, TeardownKnows
<1>2. NothingLeftOver /\ OwnReason
  BY EmptySeq DEF NothingLeftOver, OwnReason, Unanswered, Holding
<1>3. QuietInv /\ StatusFollows
  BY DEF QuietInv, StatusFollows, Unanswered
<1>4. GateInv
  BY DEF GateInv, GateHasAttempt, NoLostReadiness
<1> QED
  BY <1>1, <1>2, <1>3, <1>4

\* When disconnect() was the last call of a host that awaits its calls, and
\* everything is idle, the client is Disconnected and holds no session, whatever
\* peer events were handled meanwhile.
THEOREM DisconnectFinal == OneCaller => (Spec => []DisconnectIsFinal)
<1> SUFFICES ASSUME OneCaller PROVE Spec => []DisconnectIsFinal
  OBVIOUS
<1>1. Init => TypeOK /\ PumpOnlyDrops /\ DisconnectEnds
  BY TypeInit, OneCallerInit
<1>2. TypeOK /\ PumpOnlyDrops /\ DisconnectEnds /\ [Next]_vars
        => (TypeOK /\ PumpOnlyDrops /\ DisconnectEnds)'
  BY TypeStep, PumpStep, DisconnectStep
<1>3. DisconnectEnds => DisconnectIsFinal
  BY DEF DisconnectEnds, DisconnectIsFinal, AllIdle, Tasks, OneCaller
<1> QED
  BY <1>1, <1>2, <1>3, PTL DEF Spec

\* The client of a host that awaits its calls forgets a session it created only
\* after the DELETE for it: no teardown clears an id it did not read itself.
THEOREM ForgetsEnded == OneCaller => (Spec => ForgetsOnlyEndedSessions)
<1> SUFFICES ASSUME OneCaller PROVE Spec => ForgetsOnlyEndedSessions
  OBVIOUS
<1>1. Init => TypeOK /\ PumpOnlyDrops /\ TeardownKnows
  BY TypeInit, OneCallerInit
<1>2. TypeOK /\ PumpOnlyDrops /\ TeardownKnows /\ [Next]_vars
        => (TypeOK /\ PumpOnlyDrops /\ TeardownKnows)'
  BY TypeStep, PumpStep, TeardownStep
<1>3. TypeOK /\ PumpOnlyDrops /\ TeardownKnows /\ [Next]_vars
        => [created /\ session # 0 /\ session' = 0 => session \in asked']_vars
  <2> SUFFICES ASSUME TypeOK, PumpOnlyDrops, TeardownKnows, [Next]_vars,
                      created, session # 0, session' = 0
               PROVE session \in asked'
    BY Zenon
  <2> USE DEF vars, client, locals, engine, transport, outside
  <2>1. session' # session
    OBVIOUS
  <2>2. ASSUME NEW t \in Callers, HostCall(t) PROVE FALSE
    BY <2>1, <2>2 DEF HostCall, Connect, ConnectRejected, Reconnect, Disconnect
  <2>3. ASSUME NEW t \in Callers, Attempt(t) PROVE FALSE
    <3>1. CASE StoreSession(t)
      BY <3>1 DEF StoreSession, Step, TeardownKnows
    <3>2. CASE ~StoreSession(t)
      BY <2>1, <2>3, <3>2 DEF Attempt, Reopen, CreateSession, SetWaiting, Prepare, PresetMatches,
         PresetMismatch, DiscardOffer, InstallGate, Answer, SetRemote, GateOpened,
         ChunkingRequired, GateCancelled, GateTimeout, RequestFails, SetReady
    <3> QED
      BY <3>1, <3>2
  <2>4. ASSUME NEW t \in Tasks, Teardown(t) PROVE session \in asked'
    <3>1. CASE ClearState(t)
      <4>1. ~Recoverable(op[t]) /\ pc[t] = "clear" /\ UNCHANGED asked
        BY <2>1, <3>1 DEF ClearState, Step
      <4>2. t \in Callers
        BY <4>1 DEF Tasks, PumpOnlyDrops, Recoverable, Idle
      <4>3. ends[t] /\ sid[t] = session
        BY <4>1, <4>2 DEF TeardownKnows, EndsSession
      <4> QED
        BY <4>1, <4>2, <4>3 DEF TeardownKnows
    <3>2. CASE ~ClearState(t)
      BY <2>1, <2>4, <3>2 DEF Teardown, BeginTeardown, ClosePeer, TerminateSession, Settle
    <3> QED
      BY <3>1, <3>2
  <2>5. ~HandlePeerEvent /\ ~Engine /\ ~UNCHANGED vars
    BY <2>1 DEF HandlePeerEvent, HandleOpen, HandleDown, RecordReason, Engine, PeerOpens, PeerDrops
  <2> QED
    BY <2>2, <2>3, <2>4, <2>5 DEF Next
<1> QED
  BY <1>1, <1>2, <1>3, PTL DEF Spec, ForgetsOnlyEndedSessions

\* Where events are prompt, an attempt of a host that awaits its calls is never
\* failed with the loss of a connection it did not build.
THEOREM BlameIsOwn == OneCaller => (Spec => []BlamesOwnPeer)
<1> SUFFICES ASSUME OneCaller PROVE Spec => []BlamesOwnPeer
  OBVIOUS
<1>1. Init => TypeOK /\ PumpOnlyDrops /\ NothingLeftOver /\ OwnReason
  BY TypeInit, OneCallerInit
<1>2. TypeOK /\ PumpOnlyDrops /\ NothingLeftOver /\ OwnReason /\ [Next]_vars
        => (TypeOK /\ PumpOnlyDrops /\ NothingLeftOver /\ OwnReason)'
  BY TypeStep, PumpStep, LeftOverStep, ReasonStep
<1>3. OwnReason => BlamesOwnPeer
  BY DEF OwnReason, BlamesOwnPeer
<1> QED
  BY <1>1, <1>2, <1>3, PTL DEF Spec

\* What the quiet environment's theorems share.
QuietAll == TypeOK /\ PumpOnlyDrops /\ NothingLeftOver /\ GateInv /\ StatusFollows /\ QuietInv

\* It is an invariant of a host that awaits its calls.
LEMMA QuietAllInvariant ==
  ASSUME OneCaller
  PROVE (Init => QuietAll) /\ (QuietAll /\ [Next]_vars => QuietAll')
<1>1. Init => QuietAll
  BY TypeInit, OneCallerInit DEF QuietAll
<1>2. QuietAll /\ [Next]_vars => QuietAll'
  BY TypeStep, PumpStep, LeftOverStep, GateStep, StatusStep, QuietStep DEF QuietAll
<1> QED
  BY <1>1, <1>2

\* Where it is quiet, a Ready client with nothing under way has its connection and
\* both channels open.
THEOREM ReadyIsUp == OneCaller => (Spec => []ReadyMeansUpIfQuiet)
<1> SUFFICES ASSUME OneCaller PROVE Spec => []ReadyMeansUpIfQuiet
  OBVIOUS
<1>1. Init => QuietAll
  BY QuietAllInvariant
<1>2. QuietAll /\ [Next]_vars => QuietAll'
  BY QuietAllInvariant
<1>3. QuietAll => ReadyMeansUpIfQuiet
  BY DEF QuietAll, QuietInv, ReadyMeansUpIfQuiet, ReadyMeansUp, AllIdle, Tasks, OneCaller
<1> QED
  BY <1>1, <1>2, <1>3, PTL DEF Spec

\* Where it is quiet, every step of the client is a step of the diagram that
\* documents its status, or leaves the status alone.
THEOREM DiagramFollowed == OneCaller => (Spec => FollowsDiagram)
<1> SUFFICES ASSUME OneCaller PROVE Spec => FollowsDiagram
  OBVIOUS
<1> DEFINE shown == IF Quiet THEN status ELSE "Disconnected"
<1>1. Init => QuietAll
  BY QuietAllInvariant
<1>2. QuietAll /\ [Next]_vars => QuietAll'
  BY QuietAllInvariant
<1>3. Init => Diagram!Init
  BY DEF Init, Diagram!Init
<1>4. QuietAll /\ [Next]_vars => [Diagram!Next]_shown
  <2> SUFFICES ASSUME QuietAll, [Next]_vars, shown' # shown PROVE Diagram!Next
    OBVIOUS
  <2> USE DEF QuietAll, TypeOK, TasksOK, ClientOK, StatusFollows, Attempting, vars, client, locals, engine, transport, outside,
        Diagram!Next, Diagram!ConnectCalled, Diagram!SessionCreated, Diagram!TransportReady, Diagram!Disconnected
  <2>1. env' = env
    BY DEF Next, HostCall, Attempt, Teardown, HandlePeerEvent, Engine, Connect, ConnectRejected, Reconnect, Disconnect, Call,
         Reopen, CreateSession, StoreSession, SetWaiting, Prepare, PresetMatches,
         PresetMismatch, DiscardOffer, InstallGate, Answer, SetRemote, GateOpened,
         ChunkingRequired, GateCancelled, GateTimeout, RequestFails, SetReady,
         BeginTeardown, ClosePeer, TerminateSession, ClearState, Settle,
         HandleOpen, HandleDown, RecordReason, PeerOpens, PeerDrops
  <2>2. Quiet /\ Quiet' /\ status' # status
    BY <2>1 DEF Quiet
  <2>3. ASSUME NEW t \in Callers, HostCall(t) PROVE Diagram!Next
    BY <2>2, <2>3 DEF HostCall, Connect, MayConnect, ConnectRejected, Reconnect, Disconnect
  <2>4. ASSUME NEW t \in Callers, Attempt(t) PROVE Diagram!Next
    <3>1. CASE Reopen(t)
      BY <2>2, <3>1 DEF Reopen
    <3>2. CASE SetWaiting(t)
      BY <2>2, <3>2 DEF SetWaiting, Step
    <3>3. CASE SetReady(t)
      BY <2>2, <3>3 DEF SetReady, Step
    <3>4. CASE ~Reopen(t) /\ ~SetWaiting(t) /\ ~SetReady(t)
      BY <2>2, <2>4, <3>4 DEF Attempt, CreateSession, StoreSession, Prepare, PresetMatches,
         PresetMismatch, DiscardOffer, InstallGate, Answer, SetRemote, GateOpened,
         ChunkingRequired, GateCancelled, GateTimeout, RequestFails
    <3> QED
      BY <3>1, <3>2, <3>3, <3>4
  <2>5. ASSUME NEW t \in Tasks, Teardown(t) PROVE Diagram!Next
    BY <2>2, <2>5 DEF Teardown, BeginTeardown, ClosePeer, TerminateSession, ClearState, Settle
  <2>6. ~HandlePeerEvent /\ ~Engine /\ ~UNCHANGED vars
    BY <2>2 DEF HandlePeerEvent, HandleOpen, HandleDown, RecordReason, Engine, PeerOpens, PeerDrops
  <2> QED
    BY <2>3, <2>4, <2>5, <2>6 DEF Next
<1> QED
  BY <1>1, <1>2, <1>3, <1>4, PTL DEF Spec, FollowsDiagram, Diagram!Spec
=============================================================================
