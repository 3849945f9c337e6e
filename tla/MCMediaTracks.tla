--------------------------- MODULE MCMediaTracks ---------------------------
(***************************************************************************)
(* The instance for TLC: one input and one output, the input declared       *)
(* first, a name no session declares, and a bound the engine refuses.       *)
(***************************************************************************)
EXTENDS MediaTracks

MCDeclared ==
    <<[name |-> "camera", dir |-> "sendonly"], [name |-> "main", dir |-> "recvonly"]>>
MCBitrateNames == {"camera"}
MCPauseNames == {"main"}
MCPublishNames == {"camera"}
MCAsked == {-2, 1, 2}
MCRefused == {2}
MCApplications ==
    {[bounds |-> TRUE, calls |-> 2, drops |-> 0], [bounds |-> FALSE, calls |-> 2, drops |-> 0],
     [bounds |-> FALSE, calls |-> 1, drops |-> 1]}
=============================================================================
