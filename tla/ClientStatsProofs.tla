------------------------- MODULE ClientStatsProofs -------------------------
(***************************************************************************)
(* Proofs about ClientStats, for any frames, messages and number of        *)
(* connections: the stage times are exact.  Each is reported at most once, *)
(* in the window of its own connection, and none is lost while that lasts. *)
(***************************************************************************)
EXTENDS ClientStats, TLAPS

\* Each connection begins each window once.
Numbered ==
    /\ gen["frames"] = IF phase = "frames" THEN epoch - 1 ELSE epoch
    /\ gen["messages"] = IF phase \in Windows THEN epoch - 1 ELSE epoch

\* What a reporter carries, and where in its loop it may carry it.
Carried == \A r \in Reporters :
    /\ pc[r] \notin {"taking", "send", "leave", "give", "giving"} => hand[r] = {}
    /\ pc[r] \in {"taking", "leave"} => hand[r] \subseteq Frames
    /\ pc[r] = "giving" => hand[r] \subseteq Messages
    /\ \A i \in hand[r] : tag[i] = taken[<<r, Window(i)>>]

\* An item that was timed is in one place at a time, and in none once reported.
Once ==
    /\ timed \subseteq started
    /\ \A i \in Items : tag[i] <= gen[Window(i)]
    /\ \A i \in totals : i \in timed /\ reported[i] = 0
    /\ \A r \in Reporters : \A i \in hand[r] :
         i \in timed /\ reported[i] = 0 /\ i \notin totals
    /\ \A r, q \in Reporters : r # q => hand[r] \cap hand[q] = {}
    /\ \A i \in Items : reported[i] \in {0, 1} /\ (i \notin timed => reported[i] = 0)

\* A connection's reporter is not there before its connect() has succeeded.
Unspawned == \A r \in Reporters :
    r > epoch \/ (r = epoch /\ phase \in Windows \cup {"connecting"}) => pc[r] = "none"

Inv == TypeOK /\ Numbered /\ Unspawned /\ Carried /\ Once /\ OwnWindow /\ NothingLost

\* Every action keeps the types and the numbering of the windows.
LEMMA TypeStep ==
    ASSUME TypeOK, Numbered, Unspawned, [Next]_vars
    PROVE  TypeOK' /\ Numbered' /\ Unspawned'
<1>1. ASSUME Connect PROVE TypeOK' /\ Numbered' /\ Unspawned'
  BY <1>1, ItemsAssumption, ConnectionsAssumption
     DEF Connect, connection, items, reporters, TypeOK, Numbered, Unspawned, Items,
         Windows, Reporters, Labels, Window, Of
<1>2. ASSUME Ready PROVE TypeOK' /\ Numbered' /\ Unspawned'
  BY <1>2, ItemsAssumption, ConnectionsAssumption
     DEF Ready, connection, items, reporters, TypeOK, Numbered, Unspawned, Items,
         Windows, Reporters, Labels, Window, Of
<1>3. ASSUME Disconnect PROVE TypeOK' /\ Numbered' /\ Unspawned'
  BY <1>3, ItemsAssumption, ConnectionsAssumption
     DEF Disconnect, connection, items, reporters, TypeOK, Numbered, Unspawned, Items,
         Windows, Reporters, Labels, Window, Of
<1>4. ASSUME NEW w \in Windows, BeginWindow(w) PROVE TypeOK' /\ Numbered' /\ Unspawned'
  BY <1>4, ItemsAssumption, ConnectionsAssumption
     DEF BeginWindow, Cleared, Advanced, connection, items, reporters, TypeOK,
         Numbered, Unspawned, Items, Windows, Reporters, Labels, Window, Of
<1>5. ASSUME NEW i \in Items, StartTiming(i) PROVE TypeOK' /\ Numbered' /\ Unspawned'
  BY <1>5, ItemsAssumption, ConnectionsAssumption
     DEF StartTiming, connection, items, reporters, TypeOK, Numbered, Unspawned,
         Items, Windows, Reporters, Labels, Window, Of
<1>6. ASSUME NEW i \in Items, EndTiming(i) PROVE TypeOK' /\ Numbered' /\ Unspawned'
  BY <1>6, ItemsAssumption, ConnectionsAssumption
     DEF EndTiming, Counts, connection, items, reporters, TypeOK, Numbered, Unspawned,
         Items, Windows, Reporters, Labels, Window, Of
<1>7. ASSUME NEW r \in Reporters, Start(r) PROVE TypeOK' /\ Numbered' /\ Unspawned'
  BY <1>7, ItemsAssumption, ConnectionsAssumption
     DEF Start, Step, Goto, connection, items, reporters, TypeOK, Numbered, Unspawned,
         Items, Windows, Reporters, Labels, Window, Of
<1>8. ASSUME NEW r \in Reporters, NEW w \in Windows, Capture(r, w)
      PROVE  TypeOK' /\ Numbered' /\ Unspawned'
  BY <1>8, ItemsAssumption, ConnectionsAssumption
     DEF Capture, Step, Goto, connection, items, reporters, TypeOK, Numbered,
         Unspawned, Items, Windows, Reporters, Labels, Window, Of
<1>9. ASSUME NEW r \in Reporters, Tick(r) PROVE TypeOK' /\ Numbered' /\ Unspawned'
  BY <1>9, ItemsAssumption, ConnectionsAssumption
     DEF Tick, Step, Goto, connection, items, reporters, TypeOK, Numbered, Unspawned,
         Items, Windows, Reporters, Labels, Window, Of
<1>10. ASSUME NEW r \in Reporters, Read(r) PROVE TypeOK' /\ Numbered' /\ Unspawned'
  BY <1>10, ItemsAssumption, ConnectionsAssumption
     DEF Read, Step, Goto, connection, items, reporters, TypeOK, Numbered, Unspawned,
         Items, Windows, Reporters, Labels, Window, Of
<1>11. ASSUME NEW r \in Reporters, TakeFrames(r)
      PROVE  TypeOK' /\ Numbered' /\ Unspawned'
  BY <1>11, ItemsAssumption, ConnectionsAssumption
     DEF TakeFrames, Take, Emptied, Owns, Step, Goto, connection, items, reporters,
         TypeOK, Numbered, Unspawned, Items, Windows, Reporters, Labels, Window, Of
<1>12. ASSUME NEW r \in Reporters, TakeMessages(r)
      PROVE  TypeOK' /\ Numbered' /\ Unspawned'
  BY <1>12, ItemsAssumption, ConnectionsAssumption
     DEF TakeMessages, Take, Emptied, Owns, Step, Goto, connection, items, reporters,
         TypeOK, Numbered, Unspawned, Items, Windows, Reporters, Labels, Window, Of
<1>13. ASSUME NEW r \in Reporters, TakesNone(r) PROVE TypeOK' /\ Numbered' /\ Unspawned'
  BY <1>13, ItemsAssumption, ConnectionsAssumption
     DEF TakesNone, Owns, GivesBack, Step, Goto, connection, items, reporters, TypeOK,
         Numbered, Unspawned, Items, Windows, Reporters, Labels, Window, Of
<1>14. ASSUME NEW r \in Reporters, SendBatch(r) PROVE TypeOK' /\ Numbered' /\ Unspawned'
  BY <1>14, ItemsAssumption, ConnectionsAssumption
     DEF SendBatch, Step, Goto, connection, items, reporters, TypeOK, Numbered,
         Unspawned, Items, Windows, Reporters, Labels, Window, Of
<1>15. ASSUME NEW r \in Reporters, SendsNothing(r)
      PROVE  TypeOK' /\ Numbered' /\ Unspawned'
  BY <1>15, ItemsAssumption, ConnectionsAssumption
     DEF SendsNothing, Step, Goto, connection, items, reporters, TypeOK, Numbered,
         Unspawned, Items, Windows, Reporters, Labels, Window, Of
<1>16. ASSUME NEW r \in Reporters, GiveFrames(r)
      PROVE  TypeOK' /\ Numbered' /\ Unspawned'
  BY <1>16, ItemsAssumption, ConnectionsAssumption
     DEF GiveFrames, Give, Owns, Step, Goto, connection, items, reporters, TypeOK,
         Numbered, Unspawned, Items, Windows, Reporters, Labels, Window, Of
<1>17. ASSUME NEW r \in Reporters, GiveMessages(r)
      PROVE  TypeOK' /\ Numbered' /\ Unspawned'
  BY <1>17, ItemsAssumption, ConnectionsAssumption
     DEF GiveMessages, Give, Owns, Step, Goto, connection, items, reporters, TypeOK,
         Numbered, Unspawned, Items, Windows, Reporters, Labels, Window, Of
<1>18. ASSUME UNCHANGED vars PROVE TypeOK' /\ Numbered' /\ Unspawned'
  BY <1>18 DEF vars, connection, items, reporters, TypeOK, Numbered, Unspawned, Items,
      Windows, Reporters, Labels, Window, Of
<1>19. QED
  BY <1>1, <1>2, <1>3, <1>4, <1>5, <1>6, <1>7, <1>8, <1>9, <1>10, <1>11, <1>12, <1>13,
      <1>14, <1>15, <1>16, <1>17, <1>18 DEF Next, Reporting

\* What a reporter carries keeps to its place in the loop, and to the generation it
\* captured.
LEMMA CarryStep ==
    ASSUME TypeOK, Unspawned, Carried, Once, OwnWindow, [Next]_vars
    PROVE  Carried'
<1>1. ASSUME Connect PROVE Carried'
  BY <1>1, ItemsAssumption, ConnectionsAssumption
     DEF Connect, connection, items, reporters, TypeOK, Carried
<1>2. ASSUME Ready PROVE Carried'
  BY <1>2, ItemsAssumption, ConnectionsAssumption
     DEF Ready, Unspawned, connection, items, reporters, TypeOK, Carried
<1>3. ASSUME Disconnect PROVE Carried'
  BY <1>3, ItemsAssumption, ConnectionsAssumption
     DEF Disconnect, connection, items, reporters, TypeOK, Carried
<1>4. ASSUME NEW w \in Windows, BeginWindow(w) PROVE Carried'
  BY <1>4, ItemsAssumption, ConnectionsAssumption
     DEF BeginWindow, Cleared, Advanced, connection, items, reporters, TypeOK, Carried
<1>5. ASSUME NEW i \in Items, StartTiming(i) PROVE Carried'
  BY <1>5, ItemsAssumption, ConnectionsAssumption
     DEF StartTiming, Once, connection, items, reporters, TypeOK, Carried
<1>6. ASSUME NEW i \in Items, EndTiming(i) PROVE Carried'
  BY <1>6, ItemsAssumption, ConnectionsAssumption
     DEF EndTiming, Counts, connection, items, reporters, TypeOK, Carried
<1>7. ASSUME NEW r \in Reporters, Start(r) PROVE Carried'
  BY <1>7, ItemsAssumption, ConnectionsAssumption
     DEF Start, Step, Goto, connection, items, reporters, TypeOK, Carried
<1>8. ASSUME NEW r \in Reporters, NEW w \in Windows, Capture(r, w) PROVE Carried'
  BY <1>8, ItemsAssumption, ConnectionsAssumption
     DEF Capture, Step, Goto, Windows, connection, items, reporters, TypeOK, Carried
<1>9. ASSUME NEW r \in Reporters, Tick(r) PROVE Carried'
  BY <1>9, ItemsAssumption, ConnectionsAssumption
     DEF Tick, Step, Goto, connection, items, reporters, TypeOK, Carried
<1>10. ASSUME NEW r \in Reporters, Read(r) PROVE Carried'
  BY <1>10, ItemsAssumption, ConnectionsAssumption
     DEF Read, Step, Goto, connection, items, reporters, TypeOK, Carried
<1>11. ASSUME NEW r \in Reporters, TakeFrames(r) PROVE Carried'
  BY <1>11, ItemsAssumption, ConnectionsAssumption
     DEF TakeFrames, Take, Emptied, Owns, Step, Goto, OwnWindow, Of, Window, Items,
         Windows, Reporters, connection, items, reporters, TypeOK, Carried
<1>12. ASSUME NEW r \in Reporters, TakeMessages(r) PROVE Carried'
  BY <1>12, ItemsAssumption, ConnectionsAssumption
     DEF TakeMessages, Take, Emptied, Owns, Step, Goto, OwnWindow, Of, Window, Items,
         Windows, Reporters, connection, items, reporters, TypeOK, Carried
<1>13. ASSUME NEW r \in Reporters, TakesNone(r) PROVE Carried'
  BY <1>13, ItemsAssumption, ConnectionsAssumption
     DEF TakesNone, Owns, GivesBack, Step, Goto, connection, items, reporters, TypeOK,
         Carried
<1>14. ASSUME NEW r \in Reporters, SendBatch(r) PROVE Carried'
  BY <1>14, ItemsAssumption, ConnectionsAssumption
     DEF SendBatch, Step, Goto, connection, items, reporters, TypeOK, Carried
<1>15. ASSUME NEW r \in Reporters, SendsNothing(r) PROVE Carried'
  BY <1>15, ItemsAssumption, ConnectionsAssumption
     DEF SendsNothing, Step, Goto, connection, items, reporters, TypeOK, Carried
<1>16. ASSUME NEW r \in Reporters, GiveFrames(r) PROVE Carried'
  BY <1>16, ItemsAssumption, ConnectionsAssumption
     DEF GiveFrames, Give, Of, Items, Step, Goto, connection, items, reporters,
         TypeOK, Carried
<1>17. ASSUME NEW r \in Reporters, GiveMessages(r) PROVE Carried'
  BY <1>17, ItemsAssumption, ConnectionsAssumption
     DEF GiveMessages, Give, Of, Items, Step, Goto, connection, items, reporters,
         TypeOK, Carried
<1>18. ASSUME UNCHANGED vars PROVE Carried'
  BY <1>18 DEF vars, connection, items, reporters, TypeOK, Carried
<1>19. QED
  BY <1>1, <1>2, <1>3, <1>4, <1>5, <1>6, <1>7, <1>8, <1>9, <1>10, <1>11, <1>12, <1>13,
      <1>14, <1>15, <1>16, <1>17, <1>18 DEF Next, Reporting

\* An item stays in one place.
LEMMA OnceStep ==
    ASSUME TypeOK, Carried, Once, [Next]_vars
    PROVE  Once'
<1>1. ASSUME Connect PROVE Once'
  BY <1>1, ItemsAssumption, ConnectionsAssumption
     DEF Connect, connection, items, reporters, TypeOK, Carried, Once, Items, Windows,
         Reporters, Window, Of
<1>2. ASSUME Ready PROVE Once'
  BY <1>2, ItemsAssumption, ConnectionsAssumption
     DEF Ready, connection, items, reporters, TypeOK, Carried, Once, Items, Windows,
         Reporters, Window, Of
<1>3. ASSUME Disconnect PROVE Once'
  BY <1>3, ItemsAssumption, ConnectionsAssumption
     DEF Disconnect, connection, items, reporters, TypeOK, Carried, Once, Items,
         Windows, Reporters, Window, Of
<1>4. ASSUME NEW w \in Windows, BeginWindow(w) PROVE Once'
  BY <1>4, ItemsAssumption, ConnectionsAssumption
     DEF BeginWindow, Cleared, Advanced, connection, items, reporters, TypeOK,
         Carried, Once, Items, Windows, Reporters, Window, Of
<1>5. ASSUME NEW i \in Items, StartTiming(i) PROVE Once'
  BY <1>5, ItemsAssumption, ConnectionsAssumption
     DEF StartTiming, connection, items, reporters, TypeOK, Carried, Once, Items,
         Windows, Reporters, Window, Of
<1>6. ASSUME NEW i \in Items, EndTiming(i) PROVE Once'
  BY <1>6, ItemsAssumption, ConnectionsAssumption
     DEF EndTiming, Counts, connection, items, reporters, TypeOK, Carried, Once,
         Items, Windows, Reporters, Window, Of
<1>7. ASSUME NEW r \in Reporters, Start(r) PROVE Once'
  BY <1>7, ItemsAssumption, ConnectionsAssumption
     DEF Start, Step, Goto, connection, items, reporters, TypeOK, Carried, Once,
         Items, Windows, Reporters, Window, Of
<1>8. ASSUME NEW r \in Reporters, NEW w \in Windows, Capture(r, w) PROVE Once'
  BY <1>8, ItemsAssumption, ConnectionsAssumption
     DEF Capture, Step, Goto, connection, items, reporters, TypeOK, Carried, Once,
         Items, Windows, Reporters, Window, Of
<1>9. ASSUME NEW r \in Reporters, Tick(r) PROVE Once'
  BY <1>9, ItemsAssumption, ConnectionsAssumption
     DEF Tick, Step, Goto, connection, items, reporters, TypeOK, Carried, Once, Items,
         Windows, Reporters, Window, Of
<1>10. ASSUME NEW r \in Reporters, Read(r) PROVE Once'
  BY <1>10, ItemsAssumption, ConnectionsAssumption
     DEF Read, Step, Goto, connection, items, reporters, TypeOK, Carried, Once, Items,
         Windows, Reporters, Window, Of
<1>11. ASSUME NEW r \in Reporters, TakeFrames(r) PROVE Once'
  BY <1>11, ItemsAssumption, ConnectionsAssumption
     DEF TakeFrames, Take, Emptied, Owns, Step, Goto, connection, items, reporters,
         TypeOK, Carried, Once, Items, Windows, Reporters, Window, Of
<1>12. ASSUME NEW r \in Reporters, TakeMessages(r) PROVE Once'
  BY <1>12, ItemsAssumption, ConnectionsAssumption
     DEF TakeMessages, Take, Emptied, Owns, Step, Goto, connection, items, reporters,
         TypeOK, Carried, Once, Items, Windows, Reporters, Window, Of
<1>13. ASSUME NEW r \in Reporters, TakesNone(r) PROVE Once'
  BY <1>13, ItemsAssumption, ConnectionsAssumption
     DEF TakesNone, Owns, GivesBack, Step, Goto, connection, items, reporters, TypeOK,
         Carried, Once, Items, Windows, Reporters, Window, Of
<1>14. ASSUME NEW r \in Reporters, SendBatch(r) PROVE Once'
  BY <1>14, ItemsAssumption, ConnectionsAssumption
     DEF SendBatch, Step, Goto, connection, items, reporters, TypeOK, Carried, Once,
         Items, Windows, Reporters, Window, Of
<1>15. ASSUME NEW r \in Reporters, SendsNothing(r) PROVE Once'
  BY <1>15, ItemsAssumption, ConnectionsAssumption
     DEF SendsNothing, Step, Goto, connection, items, reporters, TypeOK, Carried,
         Once, Items, Windows, Reporters, Window, Of
<1>16. ASSUME NEW r \in Reporters, GiveFrames(r) PROVE Once'
  BY <1>16, ItemsAssumption, ConnectionsAssumption
     DEF GiveFrames, Give, Owns, Step, Goto, connection, items, reporters, TypeOK,
         Carried, Once, Items, Windows, Reporters, Window, Of
<1>17. ASSUME NEW r \in Reporters, GiveMessages(r) PROVE Once'
  BY <1>17, ItemsAssumption, ConnectionsAssumption
     DEF GiveMessages, Give, Owns, Step, Goto, connection, items, reporters, TypeOK,
         Carried, Once, Items, Windows, Reporters, Window, Of
<1>18. ASSUME UNCHANGED vars PROVE Once'
  BY <1>18 DEF vars, connection, items, reporters, TypeOK, Carried, Once, Items,
      Windows, Reporters, Window, Of
<1>19. QED
  BY <1>1, <1>2, <1>3, <1>4, <1>5, <1>6, <1>7, <1>8, <1>9, <1>10, <1>11, <1>12, <1>13,
      <1>14, <1>15, <1>16, <1>17, <1>18 DEF Next, Reporting

\* The windows stay their own connection's.
LEMMA WindowStep ==
    ASSUME TypeOK, Carried, Once, OwnWindow, [Next]_vars
    PROVE  OwnWindow'
<1>1. ASSUME Connect PROVE OwnWindow'
  BY <1>1, ItemsAssumption, ConnectionsAssumption
     DEF Connect, connection, items, reporters, TypeOK, Carried, Once, OwnWindow,
         Items, Windows, Reporters, Window, Of
<1>2. ASSUME Ready PROVE OwnWindow'
  BY <1>2, ItemsAssumption, ConnectionsAssumption
     DEF Ready, connection, items, reporters, TypeOK, Carried, Once, OwnWindow, Items,
         Windows, Reporters, Window, Of
<1>3. ASSUME Disconnect PROVE OwnWindow'
  BY <1>3, ItemsAssumption, ConnectionsAssumption
     DEF Disconnect, connection, items, reporters, TypeOK, Carried, Once, OwnWindow,
         Items, Windows, Reporters, Window, Of
<1>4. ASSUME NEW w \in Windows, BeginWindow(w) PROVE OwnWindow'
  BY <1>4, ItemsAssumption, ConnectionsAssumption
     DEF BeginWindow, Cleared, Advanced, connection, items, reporters, TypeOK,
         Carried, Once, OwnWindow, Items, Windows, Reporters, Window, Of
<1>5. ASSUME NEW i \in Items, StartTiming(i) PROVE OwnWindow'
  BY <1>5, ItemsAssumption, ConnectionsAssumption
     DEF StartTiming, connection, items, reporters, TypeOK, Carried, Once, OwnWindow,
         Items, Windows, Reporters, Window, Of
<1>6. ASSUME NEW i \in Items, EndTiming(i) PROVE OwnWindow'
  BY <1>6, ItemsAssumption, ConnectionsAssumption
     DEF EndTiming, Counts, connection, items, reporters, TypeOK, Carried, Once,
         OwnWindow, Items, Windows, Reporters, Window, Of
<1>7. ASSUME NEW r \in Reporters, Start(r) PROVE OwnWindow'
  BY <1>7, ItemsAssumption, ConnectionsAssumption
     DEF Start, Step, Goto, connection, items, reporters, TypeOK, Carried, Once,
         OwnWindow, Items, Windows, Reporters, Window, Of
<1>8. ASSUME NEW r \in Reporters, NEW w \in Windows, Capture(r, w) PROVE OwnWindow'
  BY <1>8, ItemsAssumption, ConnectionsAssumption
     DEF Capture, Step, Goto, connection, items, reporters, TypeOK, Carried, Once,
         OwnWindow, Items, Windows, Reporters, Window, Of
<1>9. ASSUME NEW r \in Reporters, Tick(r) PROVE OwnWindow'
  BY <1>9, ItemsAssumption, ConnectionsAssumption
     DEF Tick, Step, Goto, connection, items, reporters, TypeOK, Carried, Once,
         OwnWindow, Items, Windows, Reporters, Window, Of
<1>10. ASSUME NEW r \in Reporters, Read(r) PROVE OwnWindow'
  BY <1>10, ItemsAssumption, ConnectionsAssumption
     DEF Read, Step, Goto, connection, items, reporters, TypeOK, Carried, Once,
         OwnWindow, Items, Windows, Reporters, Window, Of
<1>11. ASSUME NEW r \in Reporters, TakeFrames(r) PROVE OwnWindow'
  BY <1>11, ItemsAssumption, ConnectionsAssumption
     DEF TakeFrames, Take, Emptied, Owns, Step, Goto, connection, items, reporters,
         TypeOK, Carried, Once, OwnWindow, Items, Windows, Reporters, Window, Of
<1>12. ASSUME NEW r \in Reporters, TakeMessages(r) PROVE OwnWindow'
  BY <1>12, ItemsAssumption, ConnectionsAssumption
     DEF TakeMessages, Take, Emptied, Owns, Step, Goto, connection, items, reporters,
         TypeOK, Carried, Once, OwnWindow, Items, Windows, Reporters, Window, Of
<1>13. ASSUME NEW r \in Reporters, TakesNone(r) PROVE OwnWindow'
  BY <1>13, ItemsAssumption, ConnectionsAssumption
     DEF TakesNone, Owns, GivesBack, Step, Goto, connection, items, reporters, TypeOK,
         Carried, Once, OwnWindow, Items, Windows, Reporters, Window, Of
<1>14. ASSUME NEW r \in Reporters, SendBatch(r) PROVE OwnWindow'
  BY <1>14, ItemsAssumption, ConnectionsAssumption
     DEF SendBatch, Step, Goto, connection, items, reporters, TypeOK, Carried, Once,
         OwnWindow, Items, Windows, Reporters, Window, Of
<1>15. ASSUME NEW r \in Reporters, SendsNothing(r) PROVE OwnWindow'
  BY <1>15, ItemsAssumption, ConnectionsAssumption
     DEF SendsNothing, Step, Goto, connection, items, reporters, TypeOK, Carried,
         Once, OwnWindow, Items, Windows, Reporters, Window, Of
<1>16. ASSUME NEW r \in Reporters, GiveFrames(r) PROVE OwnWindow'
  BY <1>16, ItemsAssumption, ConnectionsAssumption
     DEF GiveFrames, Give, Owns, Step, Goto, connection, items, reporters, TypeOK,
         Carried, Once, OwnWindow, Items, Windows, Reporters, Window, Of
<1>17. ASSUME NEW r \in Reporters, GiveMessages(r) PROVE OwnWindow'
  BY <1>17, ItemsAssumption, ConnectionsAssumption
     DEF GiveMessages, Give, Owns, Step, Goto, connection, items, reporters, TypeOK,
         Carried, Once, OwnWindow, Items, Windows, Reporters, Window, Of
<1>18. ASSUME UNCHANGED vars PROVE OwnWindow'
  BY <1>18 DEF vars, connection, items, reporters, TypeOK, Carried, Once, OwnWindow,
      Items, Windows, Reporters, Window, Of
<1>19. QED
  BY <1>1, <1>2, <1>3, <1>4, <1>5, <1>6, <1>7, <1>8, <1>9, <1>10, <1>11, <1>12, <1>13,
      <1>14, <1>15, <1>16, <1>17, <1>18 DEF Next, Reporting

\* No time of a window that lasts is lost.
LEMMA LossStep ==
    ASSUME TypeOK, Unspawned, Carried, OwnWindow, Once, NothingLost, [Next]_vars
    PROVE  NothingLost'
<1>1. ASSUME Connect PROVE NothingLost'
  BY <1>1, ItemsAssumption, ConnectionsAssumption
     DEF Connect, connection, items, reporters, TypeOK, NothingLost
<1>2. ASSUME Ready PROVE NothingLost'
  BY <1>2, ItemsAssumption, ConnectionsAssumption
     DEF Ready, Unspawned, connection, items, reporters, TypeOK, NothingLost
<1>3. ASSUME Disconnect PROVE NothingLost'
  BY <1>3, ItemsAssumption, ConnectionsAssumption
     DEF Disconnect, connection, items, reporters, TypeOK, NothingLost
<1>4. ASSUME NEW w \in Windows, BeginWindow(w) PROVE NothingLost'
  BY <1>4, ItemsAssumption, ConnectionsAssumption
     DEF BeginWindow, Cleared, Advanced, Once, Windows, Window, Of, Items, connection,
         items, reporters, TypeOK, NothingLost
<1>5. ASSUME NEW i \in Items, StartTiming(i) PROVE NothingLost'
  BY <1>5, ItemsAssumption, ConnectionsAssumption
     DEF StartTiming, Once, connection, items, reporters, TypeOK, NothingLost
<1>6. ASSUME NEW i \in Items, EndTiming(i) PROVE NothingLost'
  BY <1>6, ItemsAssumption, ConnectionsAssumption
     DEF EndTiming, Counts, Once, connection, items, reporters, TypeOK, NothingLost
<1>7. ASSUME NEW r \in Reporters, Start(r) PROVE NothingLost'
  BY <1>7, ItemsAssumption, ConnectionsAssumption
     DEF Start, Step, Goto, connection, items, reporters, TypeOK, NothingLost
<1>8. ASSUME NEW r \in Reporters, NEW w \in Windows, Capture(r, w) PROVE NothingLost'
  BY <1>8, ItemsAssumption, ConnectionsAssumption
     DEF Capture, Step, Goto, Carried, Windows, connection, items, reporters, TypeOK,
         NothingLost
<1>9. ASSUME NEW r \in Reporters, Tick(r) PROVE NothingLost'
  BY <1>9, ItemsAssumption, ConnectionsAssumption
     DEF Tick, Step, Goto, Carried, connection, items, reporters, TypeOK, NothingLost
<1>10. ASSUME NEW r \in Reporters, Read(r) PROVE NothingLost'
  BY <1>10, ItemsAssumption, ConnectionsAssumption
     DEF Read, Step, Goto, Carried, connection, items, reporters, TypeOK, NothingLost
<1>11. ASSUME NEW r \in Reporters, TakeFrames(r) PROVE NothingLost'
  BY <1>11, ItemsAssumption, ConnectionsAssumption
     DEF TakeFrames, Take, Emptied, Step, Goto, connection, items, reporters, TypeOK,
         NothingLost
<1>12. ASSUME NEW r \in Reporters, TakeMessages(r) PROVE NothingLost'
  BY <1>12, ItemsAssumption, ConnectionsAssumption
     DEF TakeMessages, Take, Emptied, Step, Goto, connection, items, reporters,
         TypeOK, NothingLost
<1>13. ASSUME NEW r \in Reporters, TakesNone(r) PROVE NothingLost'
  BY <1>13, ItemsAssumption, ConnectionsAssumption
     DEF TakesNone, Step, Goto, GivesBack, Carried, connection, items, reporters,
         TypeOK, NothingLost
<1>14. ASSUME NEW r \in Reporters, SendBatch(r) PROVE NothingLost'
  BY <1>14, ItemsAssumption, ConnectionsAssumption
     DEF SendBatch, Step, Goto, Once, Items, connection, items, reporters, TypeOK,
         NothingLost
<1>15. ASSUME NEW r \in Reporters, SendsNothing(r) PROVE NothingLost'
  BY <1>15, ItemsAssumption, ConnectionsAssumption
     DEF SendsNothing, Step, Goto, connection, items, reporters, TypeOK, NothingLost
<1>16. ASSUME NEW r \in Reporters, GiveFrames(r) PROVE NothingLost'
  <2> USE <1>16 DEF GiveFrames, Give, Step, Goto, connection, items, reporters, TypeOK
  <2> SUFFICES ASSUME NEW i \in timed, tag[i] = gen[Window(i)]
               PROVE  \/ i \in totals' \/ reported'[i] = 1
                      \/ \E q \in Reporters : i \in hand'[q] /\ pc'[q] \notin {"sleep", "exited"}
    BY DEF NothingLost, Window
  <2>1. CASE i \in hand[r] /\ i \in Frames
    BY <2>1 DEF Carried, Owns, Of, Window
  <2>2. CASE i \in hand[r] /\ i \notin Frames
    <3>1. pc[r] = "give" /\ i \in hand'[r]
      BY <2>2 DEF Carried, Of
    <3>2. QED
      BY <3>1
  <2>3. CASE i \notin hand[r]
    BY <2>3 DEF NothingLost, Window
  <2>4. QED
    BY <2>1, <2>2, <2>3
<1>17. ASSUME NEW r \in Reporters, GiveMessages(r) PROVE NothingLost'
  BY <1>17, ItemsAssumption, ConnectionsAssumption
     DEF GiveMessages, Give, Owns, Of, Window, Items, Step, Goto, Carried, connection,
         items, reporters, TypeOK, NothingLost
<1>18. ASSUME UNCHANGED vars PROVE NothingLost'
  BY <1>18 DEF vars, connection, items, reporters, TypeOK, NothingLost
<1>19. QED
  BY <1>1, <1>2, <1>3, <1>4, <1>5, <1>6, <1>7, <1>8, <1>9, <1>10, <1>11, <1>12, <1>13,
      <1>14, <1>15, <1>16, <1>17, <1>18 DEF Next, Reporting

\* The invariant holds initially and every step keeps it.
LEMMA Invariance == Spec => []Inv
<1>1. Init => Inv
  BY ItemsAssumption, ConnectionsAssumption
     DEF Init, Inv, TypeOK, Numbered, Unspawned, Carried, Once, OwnWindow,
         NothingLost, Items,
         Windows, Reporters, Labels, Window
<1>2. Inv /\ [Next]_vars => Inv'
  BY TypeStep, CarryStep, OnceStep, WindowStep, LossStep DEF Inv
<1>3. QED
  BY <1>1, <1>2, PTL DEF Spec

\* However many connections begin and end, the counters of the windows stay in step
\* with the epoch and every variable of the loop keeps its type.
THEOREM TypeCorrect == Spec => []TypeOK
<1>1. Inv => TypeOK
  BY DEF Inv
<1>2. QED
  BY <1>1, Invariance, PTL

\* No frame or command is counted in two batches, through any number of failed
\* sends, given-back windows and late reporters.
THEOREM CountsOnce == Spec => []CountedOnce
<1>1. Inv => CountedOnce
  BY DEF Inv, Once, CountedOnce
<1>2. QED
  BY <1>1, Invariance, PTL

\* A window never holds a time of another connection.
THEOREM WindowsAreOwn == Spec => []OwnWindow
<1>1. Inv => OwnWindow
  BY DEF Inv
<1>2. QED
  BY <1>1, Invariance, PTL

\* While its window lasts, a time is waiting to be reported or was reported.
THEOREM LosesNothing == Spec => []NothingLost
<1>1. Inv => NothingLost
  BY DEF Inv
<1>2. QED
  BY <1>1, Invariance, PTL

\* No time is counted twice, and none is lost while its window lasts.
THEOREM AccountsForAll == Spec => []Accounted
<1>1. CountedOnce /\ NothingLost => Accounted
  BY DEF Accounted
<1>2. QED
  BY <1>1, CountsOnce, LosesNothing, PTL
=============================================================================
