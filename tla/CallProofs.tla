----------------------------- MODULE CallProofs -----------------------------
(***************************************************************************)
(* Proofs about the two ends of a call: the correlators that give it its   *)
(* reply (Correlation), and the boundary through which a host is told      *)
(* (HostBoundary).  They share no state.                                   *)
(*                                                                         *)
(* For any set of requests and any number of teardowns, finished calls     *)
(* leave nothing behind in the correlators, and each error reply is        *)
(* reported once.  For any clients, worker threads and application         *)
(* threads, retire() answering Complete leaves no callback running, no     *)
(* wake-up of a waiting retire() is lost, and no thread of a client        *)
(* outlives a destroy that said it was complete.  What HostBoundary        *)
(* assumes of its constants is not needed for that.                        *)
(***************************************************************************)
EXTENDS Correlation, HostBoundary, TLAPS

----------------------------------------------------------------------------
(* The correlators.                                                        *)

\* A receiver lives from the registration of its request until the call has
\* its result; a request not registered yet is nowhere.
Receiving ==
    /\ \A r \in receivers : pc[r] \in {"begun", "refused", "awaiting", "late"}
    /\ \A r \in Requests : pc[r] \in {"idle", "checked"} =>
         r \notin pending \cup doomed /\ slot[r] = "none"

\* An arrival is noted only for a call that will still take it back, or for an
\* Error sent to a step.
Arriving == \A r \in arrivals :
    pc[r] \in {"awaiting", "late", "abandoned", "returning"} \/ r \in Steps

\* A request leaves the map before its oneshot is used, and only once.
Resolving ==
    /\ \A r \in Requests : slot[r] # "none" => r \notin pending
    /\ pending \cap doomed = {}
    /\ \A r \in doomed : slot[r] = "none"
    /\ \A r \in Requests : pc[r] = "abandoned" => outcome[r] = "dropped"

\* Only dropped steps and control requests stay pending past their call.
Leaving == \A r \in pending : pc[r] \in {"returning", "done"} =>
             r \notin Commands /\ outcome[r] = "dropped"

\* An error reaches a call only as the reply to its request, and what was published is
\* not to come again.
Reporting ==
    /\ \A r \in Requests : slot[r] = "error" => answered[r] = "error"
    /\ \A r \in Requests : outcome[r] = "error" => slot[r] = "error"
    /\ \A r \in emitted : slot[r] # "error" /\ (answered[r] = "error" \/ outcome[r] \in Unsent)

\* A waiting call has its receiver, and a call its result once it is past waiting:
\* what its oneshot was given, unless it timed out, was dropped or not sent.
Resulting ==
    /\ \A r \in Requests : pc[r] \in {"begun", "awaiting"} => r \in receivers
    /\ \A r \in Requests : pc[r] \in {"idle", "checked", "begun", "awaiting"} <=> outcome[r] = "none"
    /\ \A r \in Requests : pc[r] = "late" => outcome[r] = "timeout"
    /\ \A r \in Requests : outcome[r] \in {"ok", "error", "disconnected"} => slot[r] = outcome[r]
    /\ \A r \in Requests : outcome[r] \in {"none"} \cup Unsent =>
         answered[r] = "none" \/ pc[r] = "awaiting"

Inv == TypeOK /\ Receiving /\ Arriving /\ Resolving /\ Leaving /\ Reporting
       /\ Resulting /\ ErrorsAreReported

\* Every action keeps the types.
LEMMA TypeStep ==
    ASSUME TypeOK, [Next]_vars
    PROVE  TypeOK'
<1> USE DEF TypeOK, Requests, Labels, Results, Unsent
<1>1. ASSUME NEW r \in Requests, Check(r)
       PROVE  TypeOK'
  BY <1>1 DEF Check, Step, maps, oneshots, replies
<1>2. ASSUME NEW r \in Requests, Begin(r)
       PROVE  TypeOK'
  BY <1>2 DEF Begin, Step, maps, oneshots, replies
<1>3. ASSUME NEW r \in Requests, Send(r)
       PROVE  TypeOK'
  BY <1>3 DEF Send, Step, maps, oneshots, replies
<1>4. ASSUME NEW r \in Requests, SendFails(r)
       PROVE  TypeOK'
  BY <1>4 DEF SendFails, Step, Give, Unsent, maps, oneshots, replies
<1>5. ASSUME NEW r \in Requests, Receive(r)
       PROVE  TypeOK'
  BY <1>5 DEF Receive, Step, Give, maps, oneshots, replies
<1>6. ASSUME NEW r \in Requests, TimeOut(r)
       PROVE  TypeOK'
  BY <1>6 DEF TimeOut, Step, Give, Expires, maps, oneshots, replies
<1>7. ASSUME NEW r \in Requests, Drop(r)
       PROVE  TypeOK'
  BY <1>7 DEF Drop, Step, Give, maps, oneshots, replies
<1>8. ASSUME NEW r \in Requests, Cancel(r)
       PROVE  TypeOK'
  BY <1>8 DEF Cancel, Forgets, maps, oneshots, replies
<1>9. ASSUME NEW r \in Requests, Return(r)
       PROVE  TypeOK'
  BY <1>9 DEF Return, Step, Takes, Announces, maps, oneshots, replies
<1>10. ASSUME NEW r \in Requests, NEW x \in {"ok", "error"}, Reply(r, x)
       PROVE  TypeOK'
  BY <1>10, KindsAssumption DEF Reply, Publishes, Notes, maps, oneshots, replies
<1>11. CASE FailAll
  BY <1>11 DEF FailAll, maps, oneshots, replies
<1>12. ASSUME NEW r \in Requests, Reject(r)
       PROVE  TypeOK'
  BY <1>12 DEF Reject, maps, oneshots, replies
<1>13. CASE AllRejected
  BY <1>13 DEF AllRejected, maps, oneshots, replies
<1>14. CASE Close
  BY <1>14 DEF Close, maps, oneshots, replies
<1>15. CASE Reconnect
  BY <1>15 DEF Reconnect, maps, oneshots, replies
<1>16. CASE UNCHANGED vars
  BY <1>16 DEF maps, oneshots, replies, vars
<1> QED
  BY <1>1, <1>2, <1>3, <1>4, <1>5, <1>6, <1>7, <1>8, <1>9, <1>10, <1>11, <1>12, <1>13, <1>14,
     <1>15, <1>16
     DEF Next, Calling, Teardown

\* Every action keeps receivers with their calls.
LEMMA ReceivingStep ==
    ASSUME TypeOK, Receiving, [Next]_vars
    PROVE  Receiving'
<1> USE DEF TypeOK, Receiving
<1>1. ASSUME NEW r \in Requests, Check(r)
       PROVE  Receiving'
  BY <1>1 DEF Check, Step, maps, oneshots, replies
<1>2. ASSUME NEW r \in Requests, Begin(r)
       PROVE  Receiving'
  BY <1>2 DEF Begin, Step, maps, oneshots, replies
<1>3. ASSUME NEW r \in Requests, Send(r)
       PROVE  Receiving'
  BY <1>3 DEF Send, Step, maps, oneshots, replies
<1>4. ASSUME NEW r \in Requests, SendFails(r)
       PROVE  Receiving'
  BY <1>4 DEF SendFails, Step, Give, Unsent, maps, oneshots, replies
<1>5. ASSUME NEW r \in Requests, Receive(r)
       PROVE  Receiving'
  BY <1>5 DEF Receive, Step, Give, maps, oneshots, replies
<1>6. ASSUME NEW r \in Requests, TimeOut(r)
       PROVE  Receiving'
  BY <1>6 DEF TimeOut, Step, Give, Expires, maps, oneshots, replies
<1>7. ASSUME NEW r \in Requests, Drop(r)
       PROVE  Receiving'
  BY <1>7 DEF Drop, Step, Give, maps, oneshots, replies
<1>8. ASSUME NEW r \in Requests, Cancel(r)
       PROVE  Receiving'
  BY <1>8 DEF Cancel, Forgets, maps, oneshots, replies
<1>9. ASSUME NEW r \in Requests, Return(r)
       PROVE  Receiving'
  BY <1>9 DEF Return, Step, Takes, Announces, maps, oneshots, replies
<1>10. ASSUME NEW r \in Requests, NEW x \in {"ok", "error"}, Reply(r, x)
       PROVE  Receiving'
  BY <1>10 DEF Reply, Publishes, Notes, maps, oneshots, replies
<1>11. CASE FailAll
  BY <1>11 DEF FailAll, maps, oneshots, replies
<1>12. ASSUME NEW r \in Requests, Reject(r)
       PROVE  Receiving'
  BY <1>12 DEF Reject, maps, oneshots, replies
<1>13. CASE AllRejected
  BY <1>13 DEF AllRejected, maps, oneshots, replies
<1>14. CASE Close
  BY <1>14 DEF Close, maps, oneshots, replies
<1>15. CASE Reconnect
  BY <1>15 DEF Reconnect, maps, oneshots, replies
<1>16. CASE UNCHANGED vars
  BY <1>16 DEF maps, oneshots, replies, vars
<1> QED
  BY <1>1, <1>2, <1>3, <1>4, <1>5, <1>6, <1>7, <1>8, <1>9, <1>10, <1>11, <1>12, <1>13, <1>14,
     <1>15, <1>16
     DEF Next, Calling, Teardown

\* Every action keeps arrivals with calls that take them back.
LEMMA ArrivingStep ==
    ASSUME TypeOK, Receiving, Arriving, [Next]_vars
    PROVE  Arriving'
<1> USE DEF TypeOK, Receiving, Arriving, Requests
<1>1. ASSUME NEW r \in Requests, Check(r)
       PROVE  Arriving'
  BY <1>1 DEF Check, Step, maps, oneshots, replies
<1>2. ASSUME NEW r \in Requests, Begin(r)
       PROVE  Arriving'
  BY <1>2 DEF Begin, Step, maps, oneshots, replies
<1>3. ASSUME NEW r \in Requests, Send(r)
       PROVE  Arriving'
  BY <1>3 DEF Send, Step, maps, oneshots, replies
<1>4. ASSUME NEW r \in Requests, SendFails(r)
       PROVE  Arriving'
  BY <1>4 DEF SendFails, Step, Give, Unsent, maps, oneshots, replies
<1>5. ASSUME NEW r \in Requests, Receive(r)
       PROVE  Arriving'
  BY <1>5 DEF Receive, Step, Give, maps, oneshots, replies
<1>6. ASSUME NEW r \in Requests, TimeOut(r)
       PROVE  Arriving'
  BY <1>6 DEF TimeOut, Step, Give, Expires, maps, oneshots, replies
<1>7. ASSUME NEW r \in Requests, Drop(r)
       PROVE  Arriving'
  BY <1>7 DEF Drop, Step, Give, maps, oneshots, replies
<1>8. ASSUME NEW r \in Requests, Cancel(r)
       PROVE  Arriving'
  BY <1>8 DEF Cancel, Forgets, maps, oneshots, replies
<1>9. ASSUME NEW r \in Requests, Return(r)
       PROVE  Arriving'
  BY <1>9 DEF Return, Step, Takes, Announces, maps, oneshots, replies
<1>10. ASSUME NEW r \in Requests, NEW x \in {"ok", "error"}, Reply(r, x)
       PROVE  Arriving'
  BY <1>10, KindsAssumption DEF Reply, Publishes, Notes, maps, oneshots, replies
<1>11. CASE FailAll
  BY <1>11 DEF FailAll, maps, oneshots, replies
<1>12. ASSUME NEW r \in Requests, Reject(r)
       PROVE  Arriving'
  BY <1>12 DEF Reject, maps, oneshots, replies
<1>13. CASE AllRejected
  BY <1>13 DEF AllRejected, maps, oneshots, replies
<1>14. CASE Close
  BY <1>14 DEF Close, maps, oneshots, replies
<1>15. CASE Reconnect
  BY <1>15 DEF Reconnect, maps, oneshots, replies
<1>16. CASE UNCHANGED vars
  BY <1>16 DEF maps, oneshots, replies, vars
<1> QED
  BY <1>1, <1>2, <1>3, <1>4, <1>5, <1>6, <1>7, <1>8, <1>9, <1>10, <1>11, <1>12, <1>13, <1>14,
     <1>15, <1>16
     DEF Next, Calling, Teardown

\* Every action keeps the maps and the oneshots apart.
LEMMA ResolvingStep ==
    ASSUME TypeOK, Receiving, Resolving, [Next]_vars
    PROVE  Resolving'
<1> USE DEF TypeOK, Receiving, Resolving
<1>1. ASSUME NEW r \in Requests, Check(r)
       PROVE  Resolving'
  BY <1>1 DEF Check, Step, maps, oneshots, replies
<1>2. ASSUME NEW r \in Requests, Begin(r)
       PROVE  Resolving'
  BY <1>2 DEF Begin, Step, maps, oneshots, replies
<1>3. ASSUME NEW r \in Requests, Send(r)
       PROVE  Resolving'
  BY <1>3 DEF Send, Step, maps, oneshots, replies
<1>4. ASSUME NEW r \in Requests, SendFails(r)
       PROVE  Resolving'
  BY <1>4 DEF SendFails, Step, Give, Unsent, maps, oneshots, replies
<1>5. ASSUME NEW r \in Requests, Receive(r)
       PROVE  Resolving'
  BY <1>5 DEF Receive, Step, Give, maps, oneshots, replies
<1>6. ASSUME NEW r \in Requests, TimeOut(r)
       PROVE  Resolving'
  BY <1>6 DEF TimeOut, Step, Give, Expires, maps, oneshots, replies
<1>7. ASSUME NEW r \in Requests, Drop(r)
       PROVE  Resolving'
  BY <1>7 DEF Drop, Step, Give, maps, oneshots, replies
<1>8. ASSUME NEW r \in Requests, Cancel(r)
       PROVE  Resolving'
  BY <1>8 DEF Cancel, Forgets, maps, oneshots, replies
<1>9. ASSUME NEW r \in Requests, Return(r)
       PROVE  Resolving'
  BY <1>9 DEF Return, Step, Takes, Announces, maps, oneshots, replies
<1>10. ASSUME NEW r \in Requests, NEW x \in {"ok", "error"}, Reply(r, x)
       PROVE  Resolving'
  BY <1>10 DEF Reply, Publishes, Notes, maps, oneshots, replies
<1>11. CASE FailAll
  BY <1>11 DEF FailAll, maps, oneshots, replies
<1>12. ASSUME NEW r \in Requests, Reject(r)
       PROVE  Resolving'
  BY <1>12 DEF Reject, maps, oneshots, replies
<1>13. CASE AllRejected
  BY <1>13 DEF AllRejected, maps, oneshots, replies
<1>14. CASE Close
  BY <1>14 DEF Close, maps, oneshots, replies
<1>15. CASE Reconnect
  BY <1>15 DEF Reconnect, maps, oneshots, replies
<1>16. CASE UNCHANGED vars
  BY <1>16 DEF maps, oneshots, replies, vars
<1> QED
  BY <1>1, <1>2, <1>3, <1>4, <1>5, <1>6, <1>7, <1>8, <1>9, <1>10, <1>11, <1>12, <1>13, <1>14,
     <1>15, <1>16
     DEF Next, Calling, Teardown

\* Every action keeps finished commands out of the map.
LEMMA LeavingStep ==
    ASSUME TypeOK, Receiving, Resolving, Leaving, [Next]_vars
    PROVE  Leaving'
<1> USE DEF TypeOK, Receiving, Resolving, Leaving
<1>1. ASSUME NEW r \in Requests, Check(r)
       PROVE  Leaving'
  BY <1>1 DEF Check, Step, maps, oneshots, replies
<1>2. ASSUME NEW r \in Requests, Begin(r)
       PROVE  Leaving'
  BY <1>2 DEF Begin, Step, maps, oneshots, replies
<1>3. ASSUME NEW r \in Requests, Send(r)
       PROVE  Leaving'
  BY <1>3 DEF Send, Step, maps, oneshots, replies
<1>4. ASSUME NEW r \in Requests, SendFails(r)
       PROVE  Leaving'
  BY <1>4 DEF SendFails, Step, Give, Unsent, maps, oneshots, replies
<1>5. ASSUME NEW r \in Requests, Receive(r)
       PROVE  Leaving'
  BY <1>5 DEF Receive, Step, Give, maps, oneshots, replies
<1>6. ASSUME NEW r \in Requests, TimeOut(r)
       PROVE  Leaving'
  BY <1>6 DEF TimeOut, Step, Give, Expires, maps, oneshots, replies
<1>7. ASSUME NEW r \in Requests, Drop(r)
       PROVE  Leaving'
  BY <1>7 DEF Drop, Step, Give, maps, oneshots, replies
<1>8. ASSUME NEW r \in Requests, Cancel(r)
       PROVE  Leaving'
  BY <1>8 DEF Cancel, Forgets, maps, oneshots, replies
<1>9. ASSUME NEW r \in Requests, Return(r)
       PROVE  Leaving'
  BY <1>9 DEF Return, Step, Takes, Announces, maps, oneshots, replies
<1>10. ASSUME NEW r \in Requests, NEW x \in {"ok", "error"}, Reply(r, x)
       PROVE  Leaving'
  BY <1>10 DEF Reply, Publishes, Notes, maps, oneshots, replies
<1>11. CASE FailAll
  BY <1>11 DEF FailAll, maps, oneshots, replies
<1>12. ASSUME NEW r \in Requests, Reject(r)
       PROVE  Leaving'
  BY <1>12 DEF Reject, maps, oneshots, replies
<1>13. CASE AllRejected
  BY <1>13 DEF AllRejected, maps, oneshots, replies
<1>14. CASE Close
  BY <1>14 DEF Close, maps, oneshots, replies
<1>15. CASE Reconnect
  BY <1>15 DEF Reconnect, maps, oneshots, replies
<1>16. CASE UNCHANGED vars
  BY <1>16 DEF maps, oneshots, replies, vars
<1> QED
  BY <1>1, <1>2, <1>3, <1>4, <1>5, <1>6, <1>7, <1>8, <1>9, <1>10, <1>11, <1>12, <1>13, <1>14,
     <1>15, <1>16
     DEF Next, Calling, Teardown

\* Every action keeps a failure in one place.
LEMMA ReportingStep ==
    ASSUME TypeOK, Receiving, Resolving, Resulting, Reporting, [Next]_vars
    PROVE  Reporting'
<1> USE DEF TypeOK, Receiving, Resolving, Resulting, Reporting, Unsent
<1>1. ASSUME NEW r \in Requests, Check(r)
       PROVE  Reporting'
  BY <1>1 DEF Check, Step, maps, oneshots, replies
<1>2. ASSUME NEW r \in Requests, Begin(r)
       PROVE  Reporting'
  BY <1>2 DEF Begin, Step, maps, oneshots, replies
<1>3. ASSUME NEW r \in Requests, Send(r)
       PROVE  Reporting'
  BY <1>3 DEF Send, Step, maps, oneshots, replies
<1>4. ASSUME NEW r \in Requests, SendFails(r)
       PROVE  Reporting'
  BY <1>4 DEF SendFails, Step, Give, Unsent, maps, oneshots, replies
<1>5. ASSUME NEW r \in Requests, Receive(r)
       PROVE  Reporting'
  BY <1>5 DEF Receive, Step, Give, maps, oneshots, replies
<1>6. ASSUME NEW r \in Requests, TimeOut(r)
       PROVE  Reporting'
  BY <1>6 DEF TimeOut, Step, Give, Expires, maps, oneshots, replies
<1>7. ASSUME NEW r \in Requests, Drop(r)
       PROVE  Reporting'
  BY <1>7 DEF Drop, Step, Give, maps, oneshots, replies
<1>8. ASSUME NEW r \in Requests, Cancel(r)
       PROVE  Reporting'
  BY <1>8 DEF Cancel, Forgets, maps, oneshots, replies
<1>9. ASSUME NEW r \in Requests, Return(r)
       PROVE  Reporting'
  BY <1>9 DEF Return, Step, Takes, Announces, maps, oneshots, replies
<1>10. ASSUME NEW r \in Requests, NEW x \in {"ok", "error"}, Reply(r, x)
       PROVE  Reporting'
  BY <1>10 DEF Reply, Publishes, Notes, maps, oneshots, replies
<1>11. CASE FailAll
  BY <1>11 DEF FailAll, maps, oneshots, replies
<1>12. ASSUME NEW r \in Requests, Reject(r)
       PROVE  Reporting'
  BY <1>12 DEF Reject, maps, oneshots, replies
<1>13. CASE AllRejected
  BY <1>13 DEF AllRejected, maps, oneshots, replies
<1>14. CASE Close
  BY <1>14 DEF Close, maps, oneshots, replies
<1>15. CASE Reconnect
  BY <1>15 DEF Reconnect, maps, oneshots, replies
<1>16. CASE UNCHANGED vars
  BY <1>16 DEF maps, oneshots, replies, vars
<1> QED
  BY <1>1, <1>2, <1>3, <1>4, <1>5, <1>6, <1>7, <1>8, <1>9, <1>10, <1>11, <1>12, <1>13, <1>14,
     <1>15, <1>16
     DEF Next, Calling, Teardown

\* Every action keeps results with what the oneshots were given.
LEMMA ResultingStep ==
    ASSUME TypeOK, Receiving, Resolving, Resulting, [Next]_vars
    PROVE  Resulting'
<1> USE DEF TypeOK, Receiving, Resolving, Resulting, Results, Unsent
<1>1. ASSUME NEW r \in Requests, Check(r)
       PROVE  Resulting'
  BY <1>1 DEF Check, Step, maps, oneshots, replies
<1>2. ASSUME NEW r \in Requests, Begin(r)
       PROVE  Resulting'
  BY <1>2 DEF Begin, Step, maps, oneshots, replies
<1>3. ASSUME NEW r \in Requests, Send(r)
       PROVE  Resulting'
  BY <1>3 DEF Send, Step, maps, oneshots, replies
<1>4. ASSUME NEW r \in Requests, SendFails(r)
       PROVE  Resulting'
  BY <1>4 DEF SendFails, Step, Give, Unsent, maps, oneshots, replies
<1>5. ASSUME NEW r \in Requests, Receive(r)
       PROVE  Resulting'
  BY <1>5 DEF Receive, Step, Give, maps, oneshots, replies
<1>6. ASSUME NEW r \in Requests, TimeOut(r)
       PROVE  Resulting'
  BY <1>6 DEF TimeOut, Step, Give, Expires, maps, oneshots, replies
<1>7. ASSUME NEW r \in Requests, Drop(r)
       PROVE  Resulting'
  BY <1>7 DEF Drop, Step, Give, maps, oneshots, replies
<1>8. ASSUME NEW r \in Requests, Cancel(r)
       PROVE  Resulting'
  BY <1>8 DEF Cancel, Forgets, maps, oneshots, replies
<1>9. ASSUME NEW r \in Requests, Return(r)
       PROVE  Resulting'
  BY <1>9 DEF Return, Step, Takes, Announces, maps, oneshots, replies
<1>10. ASSUME NEW r \in Requests, NEW x \in {"ok", "error"}, Reply(r, x)
       PROVE  Resulting'
  BY <1>10 DEF Reply, Publishes, Notes, maps, oneshots, replies
<1>11. CASE FailAll
  BY <1>11 DEF FailAll, maps, oneshots, replies
<1>12. ASSUME NEW r \in Requests, Reject(r)
       PROVE  Resulting'
  BY <1>12 DEF Reject, maps, oneshots, replies
<1>13. CASE AllRejected
  BY <1>13 DEF AllRejected, maps, oneshots, replies
<1>14. CASE Close
  BY <1>14 DEF Close, maps, oneshots, replies
<1>15. CASE Reconnect
  BY <1>15 DEF Reconnect, maps, oneshots, replies
<1>16. CASE UNCHANGED vars
  BY <1>16 DEF maps, oneshots, replies, vars
<1> QED
  BY <1>1, <1>2, <1>3, <1>4, <1>5, <1>6, <1>7, <1>8, <1>9, <1>10, <1>11, <1>12, <1>13, <1>14,
     <1>15, <1>16
     DEF Next, Calling, Teardown

\* Every action keeps error replies from being swallowed.
LEMMA ToldStep ==
    ASSUME TypeOK, Resolving, Leaving, Resulting, ErrorsAreReported, [Next]_vars
    PROVE  ErrorsAreReported'
<1> USE DEF TypeOK, Resolving, Resulting, Leaving, ErrorsAreReported, Requests, Labels, Unsent
<1>1. ASSUME NEW r \in Requests, Check(r)
       PROVE  ErrorsAreReported'
  BY <1>1 DEF Check, Step, maps, oneshots, replies
<1>2. ASSUME NEW r \in Requests, Begin(r)
       PROVE  ErrorsAreReported'
  BY <1>2 DEF Begin, Step, maps, oneshots, replies
<1>3. ASSUME NEW r \in Requests, Send(r)
       PROVE  ErrorsAreReported'
  BY <1>3 DEF Send, Step, maps, oneshots, replies
<1>4. ASSUME NEW r \in Requests, SendFails(r)
       PROVE  ErrorsAreReported'
  BY <1>4 DEF SendFails, Step, Give, Unsent, maps, oneshots, replies
<1>5. ASSUME NEW r \in Requests, Receive(r)
       PROVE  ErrorsAreReported'
  BY <1>5 DEF Receive, Step, Give, maps, oneshots, replies
<1>6. ASSUME NEW r \in Requests, TimeOut(r)
       PROVE  ErrorsAreReported'
  BY <1>6 DEF TimeOut, Step, Give, Expires, maps, oneshots, replies
<1>7. ASSUME NEW r \in Requests, Drop(r)
       PROVE  ErrorsAreReported'
  BY <1>7 DEF Drop, Step, Give, maps, oneshots, replies
<1>8. ASSUME NEW r \in Requests, Cancel(r)
       PROVE  ErrorsAreReported'
  BY <1>8 DEF Cancel, Forgets, maps, oneshots, replies
<1>9. ASSUME NEW r \in Requests, Return(r)
       PROVE  ErrorsAreReported'
  BY <1>9 DEF Return, Step, Takes, Announces, maps, oneshots, replies
<1>10. ASSUME NEW r \in Requests, NEW x \in {"ok", "error"}, Reply(r, x)
       PROVE  ErrorsAreReported'
  BY <1>10, KindsAssumption DEF Reply, Publishes, Notes, maps, oneshots, replies
<1>11. CASE FailAll
  BY <1>11 DEF FailAll, maps, oneshots, replies
<1>12. ASSUME NEW r \in Requests, Reject(r)
       PROVE  ErrorsAreReported'
  BY <1>12 DEF Reject, maps, oneshots, replies
<1>13. CASE AllRejected
  BY <1>13 DEF AllRejected, maps, oneshots, replies
<1>14. CASE Close
  BY <1>14 DEF Close, maps, oneshots, replies
<1>15. CASE Reconnect
  BY <1>15 DEF Reconnect, maps, oneshots, replies
<1>16. CASE UNCHANGED vars
  BY <1>16 DEF maps, oneshots, replies, vars
<1> QED
  BY <1>1, <1>2, <1>3, <1>4, <1>5, <1>6, <1>7, <1>8, <1>9, <1>10, <1>11, <1>12, <1>13, <1>14,
     <1>15, <1>16
     DEF Next, Calling, Teardown

(* At the start nothing is under way and both maps are empty.               *)
LEMMA Initially == Init => Inv
<1> SUFFICES ASSUME Init PROVE Inv
  OBVIOUS
<1>1. TypeOK
  BY DEF Init, TypeOK, Labels, Results, Unsent
<1>2. Receiving /\ Arriving /\ Resolving /\ Leaving /\ Reporting
  BY DEF Init, Receiving, Arriving, Resolving, Leaving, Reporting
<1>3. Resulting /\ ErrorsAreReported
  BY DEF Init, Resulting, ErrorsAreReported, Requests
<1> QED
  BY <1>1, <1>2, <1>3 DEF Inv

\* The inductive invariant holds throughout.
LEMMA Invariance == Spec => []Inv
<1>1. Inv /\ [Next]_vars => Inv'
  BY TypeStep, ReceivingStep, ArrivingStep, ResolvingStep, LeavingStep, ReportingStep,
     ResultingStep, ToldStep DEF Inv
<1> QED
  BY Initially, <1>1, PTL DEF Spec

\* Type correctness of the correlators.
THEOREM TypeCorrect == Spec => []TypeOK
<1>1. Inv => TypeOK
  BY DEF Inv
<1> QED
  BY Invariance, <1>1, PTL

\* However a reply, a timeout, a dropped future and a teardown race, a finished
\* command is in neither map of the DataCorrelator.
THEOREM NothingIsLeftOver == Spec => []NoLeftovers
<1>1. Inv => NoLeftovers
  BY KindsAssumption DEF Inv, NoLeftovers, Arriving, Leaving, TypeOK
<1> QED
  BY Invariance, <1>1, PTL

\* Each error reply on the data channel is reported exactly once: none is both given to
\* its call and published, and every one is given or published - a late one too, but
\* for those that find their call over and their request still in the map, and those
\* that a call was given and dropped.
THEOREM ReportedExactlyOnce == Spec => []ReportedOnce
<1>1. Inv => NotReportedTwice
  BY DEF Inv, NotReportedTwice, Reporting, TypeOK, Requests, Unsent
<1>2. Inv => ErrorsAreReported
  BY DEF Inv
<1> QED
  BY Invariance, <1>1, <1>2, PTL DEF ReportedOnce

----------------------------------------------------------------------------
(* The host boundary.                                                      *)

\* A worker holds a guard exactly while it is past the gate.
Guarded == \A w \in Workers :
    /\ at[w] \in {"pop", "popped", "exited"} => inflight[w] = 0
    /\ at[w] \in InHost \cup {"admitted", "unwind"} => inflight[w] > 0

\* A thread inside reactor_destroy() destroys a client whose gate it closed.
Retiring == \A t \in Threads : at[t] \in InDestroy => target[t] \in retired

\* A client found quiescent has its gate closed and no guard held.
Quiet == \A c \in Clients : verdict[c] = "complete" =>
    c \in retired /\ \A w \in WorkersOf(c) : inflight[w] = 0

\* A client is destroyed by one thread, once: until it returns, the client is neither
\* live nor reported.
Sole ==
    /\ \A t, u \in Threads :
         at[t] \in InDestroy /\ at[u] \in InDestroy /\ target[t] = target[u] => t = u
    /\ \A t \in Threads : at[t] \in InDestroy => target[t] \notin live \cup reported
    /\ live \cap reported = {}

HostInv == HostTypeOK /\ Guarded /\ Retiring /\ Quiet

\* How workers and clients relate.
LEMMA WorkerFacts ==
    /\ \A w \in Workers : w[1] \in Clients /\ w \in WorkersOf(w[1]) /\ w \in Threads
    /\ \A c \in Clients : \A w \in WorkersOf(c) : w \in Workers /\ w[1] = c
  BY DEF Workers, WorkersOf, Threads

\* Every action keeps the types.
LEMMA HostTypeStep ==
    ASSUME HostTypeOK, Guarded, Retiring, [HostNext]_hostVars
    PROVE  HostTypeOK'
<1> USE DEF Loops, InDestroy, InHost, HostLabels
<1>1. ASSUME NEW w \in Workers, Push(w)
       PROVE  HostTypeOK'
  BY <1>1, WorkerFacts DEF Push, queues, HostTypeOK, gate, queues, tasks
<1>2. ASSUME NEW w \in Workers, Pop(w)
       PROVE  HostTypeOK'
  BY <1>2, WorkerFacts
     DEF Pop, Move, Goto, HostTypeOK, gate, queues, tasks
<1>3. ASSUME NEW w \in Workers, Exit(w)
       PROVE  HostTypeOK'
  BY <1>3, WorkerFacts
     DEF Exit, Move, Goto, HostTypeOK, gate, queues, tasks
<1>4. ASSUME NEW w \in Workers, Enter(w)
       PROVE  HostTypeOK'
  <2>1. CASE Admits(w)
    BY <1>4, <2>1, WorkerFacts
       DEF Enter, Goto, HostTypeOK, gate, queues, tasks
  <2>2. CASE ~Admits(w)
    BY <1>4, <2>2, WorkerFacts
       DEF Enter, Goto, Lose, HostTypeOK, gate, queues, tasks
  <2> QED
    BY <2>1, <2>2
<1>5. ASSUME NEW w \in Workers, Fire(w)
       PROVE  HostTypeOK'
  BY <1>5, WorkerFacts
     DEF Fire, Goto, Lose, Admits, HostTypeOK, gate, queues,
         tasks
<1>6. ASSUME NEW w \in Workers, Skip(w)
       PROVE  HostTypeOK'
  BY <1>6, WorkerFacts
     DEF Skip, Move, Goto, HostTypeOK, gate, queues, tasks
<1>7. ASSUME NEW w \in Workers, HostReturns(w)
       PROVE  HostTypeOK'
  BY <1>7, WorkerFacts
     DEF HostReturns, Move, Goto, HostTypeOK, gate, queues,
         tasks
<1>8. ASSUME NEW w \in Workers, Unguard(w)
       PROVE  HostTypeOK'
  BY <1>8, WorkerFacts
     DEF Unguard, Move, Goto, Released, HostTypeOK, Guarded, gate,
         queues, tasks
<1>9. ASSUME NEW w \in Workers, Notify(w)
       PROVE  HostTypeOK'
  BY <1>9, WorkerFacts
     DEF Notify, Woken, HostTypeOK, gate, queues, tasks
<1>10. ASSUME NEW c \in Clients, Resume(c)
       PROVE  HostTypeOK'
  BY <1>10, WorkerFacts DEF Resume, HostTypeOK, gate, queues, tasks
<1>11. ASSUME NEW c \in Clients, SpawnLoop(c)
       PROVE  HostTypeOK'
  BY <1>11, WorkerFacts DEF SpawnLoop, HostTypeOK, gate, queues, tasks
<1>12. ASSUME NEW c \in Clients, SendCompletion(c)
       PROVE  HostTypeOK'
  BY <1>12, WorkerFacts DEF SendCompletion, HostTypeOK, gate, queues, tasks
<1>13. ASSUME NEW t \in Threads, Wait(t)
       PROVE  HostTypeOK'
  BY <1>13, WorkerFacts
     DEF Wait, Move, Goto, Busy, HostTypeOK, gate, queues,
         tasks
<1>14. ASSUME NEW t \in Threads, Quiesce(t)
       PROVE  HostTypeOK'
  BY <1>14, WorkerFacts
     DEF Quiesce, Move, Goto, Own, Busy, HostTypeOK, gate,
         queues, tasks
<1>15. ASSUME NEW t \in Threads, Timeout(t)
       PROVE  HostTypeOK'
  BY <1>15, WorkerFacts
     DEF Timeout, Move, Goto, HostTypeOK, gate, queues, tasks
<1>16. ASSUME NEW t \in Threads, AbortTasks(t)
       PROVE  HostTypeOK'
  BY <1>16, WorkerFacts
     DEF AbortTasks, Move, Goto, HostTypeOK, gate, queues,
         tasks
<1>17. ASSUME NEW t \in Threads, ReleaseThread(t)
       PROVE  HostTypeOK'
  BY <1>17, WorkerFacts
     DEF ReleaseThread, CloseQueue, HostTypeOK, Retiring, gate, queues,
         tasks
<1>18. ASSUME NEW t \in Threads, DestroyReturns(t)
       PROVE  HostTypeOK'
  BY <1>18, WorkerFacts
     DEF DestroyReturns, Move, Goto, HostTypeOK, Retiring, gate, queues,
         tasks
<1>19. ASSUME NEW t \in Threads, NEW c \in Clients, Call(t, c)
       PROVE  HostTypeOK'
  BY <1>19, WorkerFacts DEF Call, HostTypeOK, gate, queues, tasks
<1>20. ASSUME NEW t \in Threads, NEW c \in Clients, Destroy(t, c)
       PROVE  HostTypeOK'
  BY <1>20, WorkerFacts
     DEF Destroy, Move, Goto, HostTypeOK, gate, queues, tasks
<1>21. CASE UNCHANGED hostVars
  BY <1>21 DEF HostTypeOK, gate, queues, tasks, hostVars
<1> QED
  BY <1>1, <1>2, <1>3, <1>4, <1>5, <1>6, <1>7, <1>8, <1>9, <1>10, <1>11, <1>12, <1>13, <1>14,
     <1>15, <1>16, <1>17, <1>18, <1>19, <1>20, <1>21
     DEF HostNext, Worker, Operation, Destroying

\* Every action keeps the guards where the threads are.
LEMMA GuardedStep ==
    ASSUME HostTypeOK, Guarded, [HostNext]_hostVars
    PROVE  Guarded'
<1> USE DEF Guarded, InDestroy, InHost
<1>1. ASSUME NEW w \in Workers, Push(w)
       PROVE  Guarded'
  BY <1>1, WorkerFacts DEF Push, queues, HostTypeOK, gate, queues, tasks
<1>2. ASSUME NEW w \in Workers, Pop(w)
       PROVE  Guarded'
  BY <1>2, WorkerFacts
     DEF Pop, Move, Goto, HostTypeOK, gate, queues, tasks
<1>3. ASSUME NEW w \in Workers, Exit(w)
       PROVE  Guarded'
  BY <1>3, WorkerFacts
     DEF Exit, Move, Goto, HostTypeOK, gate, queues, tasks
<1>4. ASSUME NEW w \in Workers, Enter(w)
       PROVE  Guarded'
  BY <1>4, WorkerFacts
     DEF Enter, Goto, Lose, Admits, HostTypeOK, gate, queues,
         tasks
<1>5. ASSUME NEW w \in Workers, Fire(w)
       PROVE  Guarded'
  BY <1>5, WorkerFacts
     DEF Fire, Goto, Lose, Admits, HostTypeOK, gate, queues,
         tasks
<1>6. ASSUME NEW w \in Workers, Skip(w)
       PROVE  Guarded'
  BY <1>6, WorkerFacts
     DEF Skip, Move, Goto, HostTypeOK, gate, queues, tasks
<1>7. ASSUME NEW w \in Workers, HostReturns(w)
       PROVE  Guarded'
  BY <1>7, WorkerFacts
     DEF HostReturns, Move, Goto, HostTypeOK, gate, queues,
         tasks
<1>8. ASSUME NEW w \in Workers, Unguard(w)
       PROVE  Guarded'
  BY <1>8, WorkerFacts
     DEF Unguard, Move, Goto, Released, HostTypeOK, gate,
         queues, tasks
<1>9. ASSUME NEW w \in Workers, Notify(w)
       PROVE  Guarded'
  BY <1>9, WorkerFacts
     DEF Notify, Woken, HostTypeOK, gate, queues, tasks
<1>10. ASSUME NEW c \in Clients, Resume(c)
       PROVE  Guarded'
  BY <1>10, WorkerFacts DEF Resume, HostTypeOK, gate, queues, tasks
<1>11. ASSUME NEW c \in Clients, SpawnLoop(c)
       PROVE  Guarded'
  BY <1>11, WorkerFacts DEF SpawnLoop, HostTypeOK, gate, queues, tasks
<1>12. ASSUME NEW c \in Clients, SendCompletion(c)
       PROVE  Guarded'
  BY <1>12, WorkerFacts DEF SendCompletion, HostTypeOK, gate, queues, tasks
<1>13. ASSUME NEW t \in Threads, Wait(t)
       PROVE  Guarded'
  BY <1>13, WorkerFacts
     DEF Wait, Move, Goto, Busy, HostTypeOK, gate, queues,
         tasks
<1>14. ASSUME NEW t \in Threads, Quiesce(t)
       PROVE  Guarded'
  BY <1>14, WorkerFacts
     DEF Quiesce, Move, Goto, Own, Busy, HostTypeOK, gate,
         queues, tasks
<1>15. ASSUME NEW t \in Threads, Timeout(t)
       PROVE  Guarded'
  BY <1>15, WorkerFacts
     DEF Timeout, Move, Goto, HostTypeOK, gate, queues, tasks
<1>16. ASSUME NEW t \in Threads, AbortTasks(t)
       PROVE  Guarded'
  BY <1>16, WorkerFacts
     DEF AbortTasks, Move, Goto, HostTypeOK, gate, queues,
         tasks
<1>17. ASSUME NEW t \in Threads, ReleaseThread(t)
       PROVE  Guarded'
  BY <1>17, WorkerFacts
     DEF ReleaseThread, Joined, CloseQueue, HostTypeOK, gate, queues,
         tasks
<1>18. ASSUME NEW t \in Threads, DestroyReturns(t)
       PROVE  Guarded'
  BY <1>18, WorkerFacts
     DEF DestroyReturns, Move, Goto, Joined, HostTypeOK, gate, queues,
         tasks
<1>19. ASSUME NEW t \in Threads, NEW c \in Clients, Call(t, c)
       PROVE  Guarded'
  BY <1>19, WorkerFacts DEF Call, HostTypeOK, gate, queues, tasks
<1>20. ASSUME NEW t \in Threads, NEW c \in Clients, Destroy(t, c)
       PROVE  Guarded'
  BY <1>20, WorkerFacts
     DEF Destroy, Move, Goto, HostTypeOK, gate, queues, tasks
<1>21. CASE UNCHANGED hostVars
  BY <1>21 DEF HostTypeOK, gate, queues, tasks, hostVars
<1> QED
  BY <1>1, <1>2, <1>3, <1>4, <1>5, <1>6, <1>7, <1>8, <1>9, <1>10, <1>11, <1>12, <1>13, <1>14,
     <1>15, <1>16, <1>17, <1>18, <1>19, <1>20, <1>21
     DEF HostNext, Worker, Operation, Destroying

\* Every action keeps the gate of a client being destroyed closed.
LEMMA RetiringStep ==
    ASSUME HostTypeOK, Retiring, [HostNext]_hostVars
    PROVE  Retiring'
<1> USE DEF Retiring, InDestroy, InHost
<1>1. ASSUME NEW w \in Workers, Push(w)
       PROVE  Retiring'
  BY <1>1, WorkerFacts DEF Push, queues, HostTypeOK, gate, queues, tasks
<1>2. ASSUME NEW w \in Workers, Pop(w)
       PROVE  Retiring'
  BY <1>2, WorkerFacts
     DEF Pop, Move, Goto, HostTypeOK, gate, queues, tasks
<1>3. ASSUME NEW w \in Workers, Exit(w)
       PROVE  Retiring'
  BY <1>3, WorkerFacts
     DEF Exit, Move, Goto, HostTypeOK, gate, queues, tasks
<1>4. ASSUME NEW w \in Workers, Enter(w)
       PROVE  Retiring'
  BY <1>4, WorkerFacts
     DEF Enter, Goto, Lose, Admits, HostTypeOK, gate, queues,
         tasks
<1>5. ASSUME NEW w \in Workers, Fire(w)
       PROVE  Retiring'
  BY <1>5, WorkerFacts
     DEF Fire, Goto, Lose, Admits, HostTypeOK, gate, queues,
         tasks
<1>6. ASSUME NEW w \in Workers, Skip(w)
       PROVE  Retiring'
  BY <1>6, WorkerFacts
     DEF Skip, Move, Goto, HostTypeOK, gate, queues, tasks
<1>7. ASSUME NEW w \in Workers, HostReturns(w)
       PROVE  Retiring'
  BY <1>7, WorkerFacts
     DEF HostReturns, Move, Goto, HostTypeOK, gate, queues,
         tasks
<1>8. ASSUME NEW w \in Workers, Unguard(w)
       PROVE  Retiring'
  BY <1>8, WorkerFacts
     DEF Unguard, Move, Goto, Released, HostTypeOK, gate,
         queues, tasks
<1>9. ASSUME NEW w \in Workers, Notify(w)
       PROVE  Retiring'
  BY <1>9, WorkerFacts
     DEF Notify, Woken, HostTypeOK, gate, queues, tasks
<1>10. ASSUME NEW c \in Clients, Resume(c)
       PROVE  Retiring'
  BY <1>10, WorkerFacts DEF Resume, HostTypeOK, gate, queues, tasks
<1>11. ASSUME NEW c \in Clients, SpawnLoop(c)
       PROVE  Retiring'
  BY <1>11, WorkerFacts DEF SpawnLoop, HostTypeOK, gate, queues, tasks
<1>12. ASSUME NEW c \in Clients, SendCompletion(c)
       PROVE  Retiring'
  BY <1>12, WorkerFacts DEF SendCompletion, HostTypeOK, gate, queues, tasks
<1>13. ASSUME NEW t \in Threads, Wait(t)
       PROVE  Retiring'
  BY <1>13, WorkerFacts
     DEF Wait, Move, Goto, Busy, HostTypeOK, gate, queues,
         tasks
<1>14. ASSUME NEW t \in Threads, Quiesce(t)
       PROVE  Retiring'
  BY <1>14, WorkerFacts
     DEF Quiesce, Move, Goto, Own, Busy, HostTypeOK, gate,
         queues, tasks
<1>15. ASSUME NEW t \in Threads, Timeout(t)
       PROVE  Retiring'
  BY <1>15, WorkerFacts
     DEF Timeout, Move, Goto, HostTypeOK, gate, queues, tasks
<1>16. ASSUME NEW t \in Threads, AbortTasks(t)
       PROVE  Retiring'
  BY <1>16, WorkerFacts
     DEF AbortTasks, Move, Goto, HostTypeOK, gate, queues,
         tasks
<1>17. ASSUME NEW t \in Threads, ReleaseThread(t)
       PROVE  Retiring'
  BY <1>17, WorkerFacts
     DEF ReleaseThread, Joined, CloseQueue, HostTypeOK, gate, queues,
         tasks
<1>18. ASSUME NEW t \in Threads, DestroyReturns(t)
       PROVE  Retiring'
  BY <1>18, WorkerFacts
     DEF DestroyReturns, Move, Goto, Joined, HostTypeOK, gate, queues,
         tasks
<1>19. ASSUME NEW t \in Threads, NEW c \in Clients, Call(t, c)
       PROVE  Retiring'
  BY <1>19, WorkerFacts DEF Call, HostTypeOK, gate, queues, tasks
<1>20. ASSUME NEW t \in Threads, NEW c \in Clients, Destroy(t, c)
       PROVE  Retiring'
  BY <1>20, WorkerFacts
     DEF Destroy, Move, Goto, HostTypeOK, gate, queues, tasks
<1>21. CASE UNCHANGED hostVars
  BY <1>21 DEF HostTypeOK, gate, queues, tasks, hostVars
<1> QED
  BY <1>1, <1>2, <1>3, <1>4, <1>5, <1>6, <1>7, <1>8, <1>9, <1>10, <1>11, <1>12, <1>13, <1>14,
     <1>15, <1>16, <1>17, <1>18, <1>19, <1>20, <1>21
     DEF HostNext, Worker, Operation, Destroying

\* Nothing passes the gate of a client that was found quiescent.
LEMMA QuietStep ==
    ASSUME HostTypeOK, Guarded, Retiring, Quiet, [HostNext]_hostVars
    PROVE  Quiet'
<1> USE DEF Quiet, Guarded, Retiring, InDestroy, InHost
<1>1. ASSUME NEW w \in Workers, Push(w)
       PROVE  Quiet'
  BY <1>1, WorkerFacts DEF Push, queues, HostTypeOK, gate, queues, tasks
<1>2. ASSUME NEW w \in Workers, Pop(w)
       PROVE  Quiet'
  BY <1>2, WorkerFacts
     DEF Pop, Move, Goto, HostTypeOK, gate, queues, tasks
<1>3. ASSUME NEW w \in Workers, Exit(w)
       PROVE  Quiet'
  BY <1>3, WorkerFacts
     DEF Exit, Move, Goto, HostTypeOK, gate, queues, tasks
<1>4. ASSUME NEW w \in Workers, Enter(w)
       PROVE  Quiet'
  BY <1>4, WorkerFacts
     DEF Enter, Goto, Lose, Admits, HostTypeOK, gate, queues,
         tasks
<1>5. ASSUME NEW w \in Workers, Fire(w)
       PROVE  Quiet'
  BY <1>5, WorkerFacts
     DEF Fire, Goto, Lose, Admits, HostTypeOK, gate, queues,
         tasks
<1>6. ASSUME NEW w \in Workers, Skip(w)
       PROVE  Quiet'
  BY <1>6, WorkerFacts
     DEF Skip, Move, Goto, HostTypeOK, gate, queues, tasks
<1>7. ASSUME NEW w \in Workers, HostReturns(w)
       PROVE  Quiet'
  BY <1>7, WorkerFacts
     DEF HostReturns, Move, Goto, HostTypeOK, gate, queues,
         tasks
<1>8. ASSUME NEW w \in Workers, Unguard(w)
       PROVE  Quiet'
  BY <1>8, WorkerFacts
     DEF Unguard, Move, Goto, Released, HostTypeOK, gate,
         queues, tasks
<1>9. ASSUME NEW w \in Workers, Notify(w)
       PROVE  Quiet'
  BY <1>9, WorkerFacts
     DEF Notify, Woken, HostTypeOK, gate, queues, tasks
<1>10. ASSUME NEW c \in Clients, Resume(c)
       PROVE  Quiet'
  BY <1>10, WorkerFacts DEF Resume, HostTypeOK, gate, queues, tasks
<1>11. ASSUME NEW c \in Clients, SpawnLoop(c)
       PROVE  Quiet'
  BY <1>11, WorkerFacts DEF SpawnLoop, HostTypeOK, gate, queues, tasks
<1>12. ASSUME NEW c \in Clients, SendCompletion(c)
       PROVE  Quiet'
  BY <1>12, WorkerFacts DEF SendCompletion, HostTypeOK, gate, queues, tasks
<1>13. ASSUME NEW t \in Threads, Wait(t)
       PROVE  Quiet'
  BY <1>13, WorkerFacts
     DEF Wait, Move, Goto, Busy, HostTypeOK, gate, queues,
         tasks
<1>14. ASSUME NEW t \in Threads, Quiesce(t)
       PROVE  Quiet'
  BY <1>14, WorkerFacts
     DEF Quiesce, Move, Goto, Own, Busy, HostTypeOK, gate,
         queues, tasks
<1>15. ASSUME NEW t \in Threads, Timeout(t)
       PROVE  Quiet'
  BY <1>15, WorkerFacts
     DEF Timeout, Move, Goto, HostTypeOK, gate, queues, tasks
<1>16. ASSUME NEW t \in Threads, AbortTasks(t)
       PROVE  Quiet'
  BY <1>16, WorkerFacts
     DEF AbortTasks, Move, Goto, HostTypeOK, gate, queues,
         tasks
<1>17. ASSUME NEW t \in Threads, ReleaseThread(t)
       PROVE  Quiet'
  BY <1>17, WorkerFacts
     DEF ReleaseThread, Joined, CloseQueue, HostTypeOK, gate, queues,
         tasks
<1>18. ASSUME NEW t \in Threads, DestroyReturns(t)
       PROVE  Quiet'
  BY <1>18, WorkerFacts
     DEF DestroyReturns, Move, Goto, Joined, HostTypeOK, gate, queues,
         tasks
<1>19. ASSUME NEW t \in Threads, NEW c \in Clients, Call(t, c)
       PROVE  Quiet'
  BY <1>19, WorkerFacts DEF Call, HostTypeOK, gate, queues, tasks
<1>20. ASSUME NEW t \in Threads, NEW c \in Clients, Destroy(t, c)
       PROVE  Quiet'
  BY <1>20, WorkerFacts
     DEF Destroy, Move, Goto, HostTypeOK, gate, queues, tasks
<1>21. CASE UNCHANGED hostVars
  BY <1>21 DEF HostTypeOK, gate, queues, tasks, hostVars
<1> QED
  BY <1>1, <1>2, <1>3, <1>4, <1>5, <1>6, <1>7, <1>8, <1>9, <1>10, <1>11, <1>12, <1>13, <1>14,
     <1>15, <1>16, <1>17, <1>18, <1>19, <1>20, <1>21
     DEF HostNext, Worker, Operation, Destroying

\* A waiting retire() always has a callback, or its notification, to wait for.
LEMMA WakeupStep ==
    ASSUME HostTypeOK, Guarded, Retiring, NoLostWakeup, [HostNext]_hostVars
    PROVE  NoLostWakeup'
<1> USE DEF NoLostWakeup, Guarded, Retiring, InDestroy, InHost
<1>1. ASSUME NEW w \in Workers, Push(w)
       PROVE  NoLostWakeup'
  BY <1>1, WorkerFacts DEF Push, queues, HostTypeOK, gate, queues, tasks
<1>2. ASSUME NEW w \in Workers, Pop(w)
       PROVE  NoLostWakeup'
  BY <1>2, WorkerFacts
     DEF Pop, Move, Goto, HostTypeOK, gate, queues, tasks
<1>3. ASSUME NEW w \in Workers, Exit(w)
       PROVE  NoLostWakeup'
  BY <1>3, WorkerFacts
     DEF Exit, Move, Goto, HostTypeOK, gate, queues, tasks
<1>4. ASSUME NEW w \in Workers, Enter(w)
       PROVE  NoLostWakeup'
  BY <1>4, WorkerFacts
     DEF Enter, Goto, Lose, Admits, HostTypeOK, gate, queues,
         tasks
<1>5. ASSUME NEW w \in Workers, Fire(w)
       PROVE  NoLostWakeup'
  BY <1>5, WorkerFacts
     DEF Fire, Goto, Lose, Admits, HostTypeOK, gate, queues,
         tasks
<1>6. ASSUME NEW w \in Workers, Skip(w)
       PROVE  NoLostWakeup'
  BY <1>6, WorkerFacts
     DEF Skip, Move, Goto, HostTypeOK, gate, queues, tasks
<1>7. ASSUME NEW w \in Workers, HostReturns(w)
       PROVE  NoLostWakeup'
  BY <1>7, WorkerFacts
     DEF HostReturns, Move, Goto, HostTypeOK, gate, queues,
         tasks
<1>8. ASSUME NEW w \in Workers, Unguard(w)
       PROVE  NoLostWakeup'
  BY <1>8, WorkerFacts
     DEF Unguard, Move, Goto, Released, HostTypeOK, gate,
         queues, tasks
<1>9. ASSUME NEW w \in Workers, Notify(w)
       PROVE  NoLostWakeup'
  BY <1>9, WorkerFacts
     DEF Notify, Woken, HostTypeOK, gate, queues, tasks
<1>10. ASSUME NEW c \in Clients, Resume(c)
       PROVE  NoLostWakeup'
  BY <1>10, WorkerFacts DEF Resume, HostTypeOK, gate, queues, tasks
<1>11. ASSUME NEW c \in Clients, SpawnLoop(c)
       PROVE  NoLostWakeup'
  BY <1>11, WorkerFacts DEF SpawnLoop, HostTypeOK, gate, queues, tasks
<1>12. ASSUME NEW c \in Clients, SendCompletion(c)
       PROVE  NoLostWakeup'
  BY <1>12, WorkerFacts DEF SendCompletion, HostTypeOK, gate, queues, tasks
<1>13. ASSUME NEW t \in Threads, Wait(t)
       PROVE  NoLostWakeup'
  BY <1>13, WorkerFacts
     DEF Wait, Move, Goto, Busy, HostTypeOK, gate, queues,
         tasks
<1>14. ASSUME NEW t \in Threads, Quiesce(t)
       PROVE  NoLostWakeup'
  BY <1>14, WorkerFacts
     DEF Quiesce, Move, Goto, Own, Busy, HostTypeOK, gate,
         queues, tasks
<1>15. ASSUME NEW t \in Threads, Timeout(t)
       PROVE  NoLostWakeup'
  BY <1>15, WorkerFacts
     DEF Timeout, Move, Goto, HostTypeOK, gate, queues, tasks
<1>16. ASSUME NEW t \in Threads, AbortTasks(t)
       PROVE  NoLostWakeup'
  BY <1>16, WorkerFacts
     DEF AbortTasks, Move, Goto, HostTypeOK, gate, queues,
         tasks
<1>17. ASSUME NEW t \in Threads, ReleaseThread(t)
       PROVE  NoLostWakeup'
  BY <1>17, WorkerFacts
     DEF ReleaseThread, Joined, CloseQueue, HostTypeOK, gate, queues,
         tasks
<1>18. ASSUME NEW t \in Threads, DestroyReturns(t)
       PROVE  NoLostWakeup'
  BY <1>18, WorkerFacts
     DEF DestroyReturns, Move, Goto, Joined, HostTypeOK, gate, queues,
         tasks
<1>19. ASSUME NEW t \in Threads, NEW c \in Clients, Call(t, c)
       PROVE  NoLostWakeup'
  BY <1>19, WorkerFacts DEF Call, HostTypeOK, gate, queues, tasks
<1>20. ASSUME NEW t \in Threads, NEW c \in Clients, Destroy(t, c)
       PROVE  NoLostWakeup'
  BY <1>20, WorkerFacts
     DEF Destroy, Move, Goto, HostTypeOK, gate, queues, tasks
<1>21. CASE UNCHANGED hostVars
  BY <1>21 DEF HostTypeOK, gate, queues, tasks, hostVars
<1> QED
  BY <1>1, <1>2, <1>3, <1>4, <1>5, <1>6, <1>7, <1>8, <1>9, <1>10, <1>11, <1>12, <1>13, <1>14,
     <1>15, <1>16, <1>17, <1>18, <1>19, <1>20, <1>21
     DEF HostNext, Worker, Operation, Destroying

\* Every action keeps destroys apart.
LEMMA SoleStep ==
    ASSUME HostTypeOK, Retiring, Sole, [HostNext]_hostVars
    PROVE  Sole'
<1> USE DEF Sole, Retiring, InDestroy
<1>1. ASSUME NEW w \in Workers, Push(w)
       PROVE  Sole'
  BY <1>1, WorkerFacts DEF Push, queues, HostTypeOK, gate, queues, tasks
<1>2. ASSUME NEW w \in Workers, Pop(w)
       PROVE  Sole'
  BY <1>2, WorkerFacts
     DEF Pop, Move, Goto, HostTypeOK, gate, queues, tasks
<1>3. ASSUME NEW w \in Workers, Exit(w)
       PROVE  Sole'
  BY <1>3, WorkerFacts
     DEF Exit, Move, Goto, HostTypeOK, gate, queues, tasks
<1>4. ASSUME NEW w \in Workers, Enter(w)
       PROVE  Sole'
  BY <1>4, WorkerFacts
     DEF Enter, Goto, Lose, Admits, HostTypeOK, gate, queues,
         tasks
<1>5. ASSUME NEW w \in Workers, Fire(w)
       PROVE  Sole'
  BY <1>5, WorkerFacts
     DEF Fire, Goto, Lose, Admits, HostTypeOK, gate, queues,
         tasks
<1>6. ASSUME NEW w \in Workers, Skip(w)
       PROVE  Sole'
  BY <1>6, WorkerFacts
     DEF Skip, Move, Goto, HostTypeOK, gate, queues, tasks
<1>7. ASSUME NEW w \in Workers, HostReturns(w)
       PROVE  Sole'
  BY <1>7, WorkerFacts
     DEF HostReturns, Move, Goto, HostTypeOK, gate, queues,
         tasks
<1>8. ASSUME NEW w \in Workers, Unguard(w)
       PROVE  Sole'
  BY <1>8, WorkerFacts
     DEF Unguard, Move, Goto, Released, HostTypeOK, gate,
         queues, tasks
<1>9. ASSUME NEW w \in Workers, Notify(w)
       PROVE  Sole'
  BY <1>9, WorkerFacts
     DEF Notify, Woken, HostTypeOK, gate, queues, tasks
<1>10. ASSUME NEW c \in Clients, Resume(c)
       PROVE  Sole'
  BY <1>10, WorkerFacts DEF Resume, HostTypeOK, gate, queues, tasks
<1>11. ASSUME NEW c \in Clients, SpawnLoop(c)
       PROVE  Sole'
  BY <1>11, WorkerFacts DEF SpawnLoop, HostTypeOK, gate, queues, tasks
<1>12. ASSUME NEW c \in Clients, SendCompletion(c)
       PROVE  Sole'
  BY <1>12, WorkerFacts DEF SendCompletion, HostTypeOK, gate, queues, tasks
<1>13. ASSUME NEW t \in Threads, Wait(t)
       PROVE  Sole'
  BY <1>13, WorkerFacts
     DEF Wait, Move, Goto, Busy, HostTypeOK, gate, queues,
         tasks
<1>14. ASSUME NEW t \in Threads, Quiesce(t)
       PROVE  Sole'
  BY <1>14, WorkerFacts
     DEF Quiesce, Move, Goto, Own, Busy, HostTypeOK, gate,
         queues, tasks
<1>15. ASSUME NEW t \in Threads, Timeout(t)
       PROVE  Sole'
  BY <1>15, WorkerFacts
     DEF Timeout, Move, Goto, HostTypeOK, gate, queues, tasks
<1>16. ASSUME NEW t \in Threads, AbortTasks(t)
       PROVE  Sole'
  BY <1>16, WorkerFacts
     DEF AbortTasks, Move, Goto, HostTypeOK, gate, queues,
         tasks
<1>17. ASSUME NEW t \in Threads, ReleaseThread(t)
       PROVE  Sole'
  BY <1>17, WorkerFacts
     DEF ReleaseThread, Joined, CloseQueue, HostTypeOK, gate, queues,
         tasks
<1>18. ASSUME NEW t \in Threads, DestroyReturns(t)
       PROVE  Sole'
  BY <1>18, WorkerFacts
     DEF DestroyReturns, Move, Goto, Joined, HostTypeOK, gate, queues,
         tasks
<1>19. ASSUME NEW t \in Threads, NEW c \in Clients, Call(t, c)
       PROVE  Sole'
  BY <1>19, WorkerFacts DEF Call, HostTypeOK, gate, queues, tasks
<1>20. ASSUME NEW t \in Threads, NEW c \in Clients, Destroy(t, c)
       PROVE  Sole'
  BY <1>20, WorkerFacts
     DEF Destroy, Move, Goto, HostTypeOK, gate, queues, tasks
<1>21. CASE UNCHANGED hostVars
  BY <1>21 DEF HostTypeOK, gate, queues, tasks, hostVars
<1> QED
  BY <1>1, <1>2, <1>3, <1>4, <1>5, <1>6, <1>7, <1>8, <1>9, <1>10, <1>11, <1>12, <1>13, <1>14,
     <1>15, <1>16, <1>17, <1>18, <1>19, <1>20, <1>21
     DEF HostNext, Worker, Operation, Destroying

\* A thread that exited stays so, and a destroy that was complete returns only once all have.
LEMMA OutlivesStep ==
    ASSUME HostTypeOK, Guarded, Retiring, Quiet, Sole, NoThreadOutlivesDestroy, [HostNext]_hostVars
    PROVE  NoThreadOutlivesDestroy'
<1> USE DEF NoThreadOutlivesDestroy, Freed, Sole, Retiring, InDestroy
<1>1. ASSUME NEW w \in Workers, Push(w)
       PROVE  NoThreadOutlivesDestroy'
  BY <1>1, WorkerFacts DEF Push, queues, HostTypeOK, gate, queues, tasks
<1>2. ASSUME NEW w \in Workers, Pop(w)
       PROVE  NoThreadOutlivesDestroy'
  BY <1>2, WorkerFacts
     DEF Pop, Move, Goto, HostTypeOK, gate, queues, tasks
<1>3. ASSUME NEW w \in Workers, Exit(w)
       PROVE  NoThreadOutlivesDestroy'
  BY <1>3, WorkerFacts
     DEF Exit, Move, Goto, HostTypeOK, gate, queues, tasks
<1>4. ASSUME NEW w \in Workers, Enter(w)
       PROVE  NoThreadOutlivesDestroy'
  BY <1>4, WorkerFacts
     DEF Enter, Goto, Lose, Admits, HostTypeOK, gate, queues,
         tasks
<1>5. ASSUME NEW w \in Workers, Fire(w)
       PROVE  NoThreadOutlivesDestroy'
  BY <1>5, WorkerFacts
     DEF Fire, Goto, Lose, Admits, HostTypeOK, gate, queues,
         tasks
<1>6. ASSUME NEW w \in Workers, Skip(w)
       PROVE  NoThreadOutlivesDestroy'
  BY <1>6, WorkerFacts
     DEF Skip, Move, Goto, HostTypeOK, gate, queues, tasks
<1>7. ASSUME NEW w \in Workers, HostReturns(w)
       PROVE  NoThreadOutlivesDestroy'
  BY <1>7, WorkerFacts
     DEF HostReturns, Move, Goto, HostTypeOK, gate, queues,
         tasks
<1>8. ASSUME NEW w \in Workers, Unguard(w)
       PROVE  NoThreadOutlivesDestroy'
  BY <1>8, WorkerFacts
     DEF Unguard, Move, Goto, Released, HostTypeOK, gate,
         queues, tasks
<1>9. ASSUME NEW w \in Workers, Notify(w)
       PROVE  NoThreadOutlivesDestroy'
  BY <1>9, WorkerFacts
     DEF Notify, Woken, HostTypeOK, gate, queues, tasks
<1>10. ASSUME NEW c \in Clients, Resume(c)
       PROVE  NoThreadOutlivesDestroy'
  BY <1>10, WorkerFacts DEF Resume, HostTypeOK, gate, queues, tasks
<1>11. ASSUME NEW c \in Clients, SpawnLoop(c)
       PROVE  NoThreadOutlivesDestroy'
  BY <1>11, WorkerFacts DEF SpawnLoop, HostTypeOK, gate, queues, tasks
<1>12. ASSUME NEW c \in Clients, SendCompletion(c)
       PROVE  NoThreadOutlivesDestroy'
  BY <1>12, WorkerFacts DEF SendCompletion, HostTypeOK, gate, queues, tasks
<1>13. ASSUME NEW t \in Threads, Wait(t)
       PROVE  NoThreadOutlivesDestroy'
  BY <1>13, WorkerFacts
     DEF Wait, Move, Goto, Busy, HostTypeOK, gate, queues,
         tasks
<1>14. ASSUME NEW t \in Threads, Quiesce(t)
       PROVE  NoThreadOutlivesDestroy'
  BY <1>14, WorkerFacts
     DEF Quiesce, Move, Goto, Own, Busy, HostTypeOK, gate,
         queues, tasks
<1>15. ASSUME NEW t \in Threads, Timeout(t)
       PROVE  NoThreadOutlivesDestroy'
  BY <1>15, WorkerFacts
     DEF Timeout, Move, Goto, HostTypeOK, gate, queues, tasks
<1>16. ASSUME NEW t \in Threads, AbortTasks(t)
       PROVE  NoThreadOutlivesDestroy'
  BY <1>16, WorkerFacts
     DEF AbortTasks, Move, Goto, HostTypeOK, gate, queues,
         tasks
<1>17. ASSUME NEW t \in Threads, ReleaseThread(t)
       PROVE  NoThreadOutlivesDestroy'
  BY <1>17, WorkerFacts
     DEF ReleaseThread, Joined, CloseQueue, HostTypeOK, gate, queues,
         tasks
<1>18. ASSUME NEW t \in Threads, DestroyReturns(t)
       PROVE  NoThreadOutlivesDestroy'
  <2>1. target[t] \in Clients /\ at[t] = "release"
    BY <1>18 DEF DestroyReturns, Move, HostTypeOK
  <2>2. ASSUME verdict[target[t]] = "complete", NEW w \in WorkersOf(target[t])
        PROVE  w # t /\ at[w] = "exited"
    <3>1. inflight[w] = 0
      BY <2>1, <2>2 DEF Quiet
    <3>2. w # t
      BY <2>1, <2>2, <3>1, WorkerFacts DEF Guarded, InHost
    <3> QED
      BY <1>18, <2>2, <3>2 DEF DestroyReturns, Joined
  <2> QED
    BY <1>18, <2>1, <2>2, WorkerFacts
       DEF DestroyReturns, Move, Goto, HostTypeOK, gate, queues, tasks
<1>19. ASSUME NEW t \in Threads, NEW c \in Clients, Call(t, c)
       PROVE  NoThreadOutlivesDestroy'
  BY <1>19, WorkerFacts DEF Call, HostTypeOK, gate, queues, tasks
<1>20. ASSUME NEW t \in Threads, NEW c \in Clients, Destroy(t, c)
       PROVE  NoThreadOutlivesDestroy'
  BY <1>20, WorkerFacts
     DEF Destroy, Move, Goto, HostTypeOK, gate, queues, tasks
<1>21. CASE UNCHANGED hostVars
  BY <1>21 DEF HostTypeOK, gate, queues, tasks, hostVars
<1> QED
  BY <1>1, <1>2, <1>3, <1>4, <1>5, <1>6, <1>7, <1>8, <1>9, <1>10, <1>11, <1>12, <1>13, <1>14,
     <1>15, <1>16, <1>17, <1>18, <1>19, <1>20, <1>21
     DEF HostNext, Worker, Operation, Destroying

(* At the start every client is alive, its queues empty and its gate open.  *)
LEMMA HostInitially == HostInit => HostInv /\ NoLostWakeup /\ Sole /\ NoThreadOutlivesDestroy
<1> SUFFICES ASSUME HostInit PROVE HostInv /\ NoLostWakeup /\ Sole /\ NoThreadOutlivesDestroy
  OBVIOUS
<1>1. HostTypeOK
  BY DEF HostInit, HostTypeOK, HostLabels, InHost, InDestroy
<1>2. Guarded
  BY WorkerFacts DEF HostInit, Guarded, InHost, InDestroy
<1>3. Retiring /\ Quiet /\ NoLostWakeup
  BY DEF HostInit, Retiring, Quiet, NoLostWakeup, InDestroy
<1>4. Sole /\ NoThreadOutlivesDestroy
  BY DEF HostInit, Sole, NoThreadOutlivesDestroy, Freed, InDestroy
<1> QED
  BY <1>1, <1>2, <1>3, <1>4 DEF HostInv

\* The inductive invariant holds throughout.
LEMMA HostInvariance == HostSpec => [](HostInv /\ NoLostWakeup /\ Sole /\ NoThreadOutlivesDestroy)
<1>1. HostInv /\ NoLostWakeup /\ Sole /\ NoThreadOutlivesDestroy /\ [HostNext]_hostVars
        => (HostInv /\ NoLostWakeup /\ Sole /\ NoThreadOutlivesDestroy)'
  BY HostTypeStep, GuardedStep, RetiringStep, QuietStep, WakeupStep, SoleStep, OutlivesStep
     DEF HostInv
<1> QED
  BY HostInitially, <1>1, PTL DEF HostSpec

\* Type correctness of the host boundary.
THEOREM HostTypeCorrect == HostSpec => []HostTypeOK
<1>1. HostInv => HostTypeOK
  BY DEF HostInv
<1> QED
  BY HostInvariance, <1>1, PTL

\* CallbackGate's promise, for any number of clients and threads destroying one
\* another: once retire() answered Complete, no callback of the client runs or
\* will run.  The counts under the gate's lock suffice: the joining of threads
\* that follows in reactor_destroy() is not used.
THEOREM CompleteIsQuiet == HostSpec => []CompleteMeansQuiet
<1>1. HostInv => CompleteMeansQuiet
  <2> SUFFICES ASSUME HostInv, NEW c \in Clients, verdict[c] = "complete", NEW w \in WorkersOf(c)
               PROVE  at[w] \notin InHost \cup {"admitted"}
    BY DEF CompleteMeansQuiet
  <2> QED
    BY WorkerFacts DEF HostInv, Quiet, Guarded
<1> QED
  BY HostInvariance, <1>1, PTL

\* A thread waiting in retire() is never left without a wake-up to come.
THEOREM WakeupsAreNotLost == HostSpec => []NoLostWakeup
  BY HostInvariance, PTL

\* A destroy that returned 0 left no thread of its client behind, for any number of
\* threads and of clients destroyed from each other's callbacks.
THEOREM NoThreadIsLeft == HostSpec => []NoThreadOutlivesDestroy
  BY HostInvariance, PTL
=============================================================================
