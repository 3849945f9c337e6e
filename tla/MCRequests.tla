----------------------------- MODULE MCRequests -----------------------------
(* Requests for TLC: short polls, four playlists, hints and budgets at their edges. *)
EXTENDS Requests
Line(kind, origin, fragment) ==
    [kind |-> kind, origin |-> origin, absolute |-> origin = "storage", fragment |-> fragment]
MCPlaylists ==
    {<<Line("comment", "none", FALSE), Line("map", "none", FALSE), Line("map", "home", FALSE),
       Line("segment", "home", TRUE), Line("segment", "storage", TRUE)>>,
     <<Line("blank", "none", FALSE), Line("segment", "home", TRUE)>>,
     <<Line("segment", "home", FALSE)>>,
     <<Line("map", "home", FALSE)>>}
MCSessionPoll == [max |-> 2, attempts |-> 2]
MCSdpPoll == [max |-> 1, attempts |-> 2]
MCHints == {Unreadable, 0, 40}
MCGraces == {NoBound, 1, 40}
MCPredictions == {-5, 1}
=============================================================================
