-------------------------- MODULE MediaTracksProofs --------------------------
(***************************************************************************)
(* Theorems about MediaTracks, for every list of declared tracks, every     *)
(* application and any number of connections.                               *)
(***************************************************************************)
EXTENDS MediaTracks, TLAPS

(* A transceiver is of a declared track.                                    *)
LEMMA TransceiversAreDeclared == Transceivers \subseteq Names
  BY DEF Transceivers, Names

(***************************************************************************)
(* Places: where an attempt is, and what the peer is by then.               *)
(***************************************************************************)
PeerFields == {"n", "tracks", "bounds", "answer", "remote", "framing", "inactive", "sender"}

IsPeer(p) ==
    /\ DOMAIN p = PeerFields
    /\ p.n \in Nat \ {0}
    /\ p.tracks \subseteq Names
    /\ DOMAIN p.bounds = Slots
    /\ DOMAIN p.framing = Channels

(* A peer that was built and has not been published.                        *)
IsNew(p) ==
    /\ IsPeer(p) /\ p.n = epoch
    /\ p.answer = "none" /\ p.sender = {}
    /\ \A c \in Channels : p.framing[c] = "unopened"

Building == attempt.at \in {"begun", "building", "applied"}
Connecting == attempt.at \in {"prepared", "handed", "taken", "gated", "open", "ready"}

(* A peer has the number of its connection; the one an attempt builds is    *)
(* newer than the one there is.                                             *)
ShapeInv ==
    /\ epoch \in Nat
    /\ peer # NoPeer => IsPeer(peer)
    /\ peer.n \in 0..epoch
    /\ DOMAIN attempt = {"at", "kind", "peer", "next"}
    /\ Building => peer.n < epoch
    /\ attempt.at \in {"building", "applied"} => IsNew(attempt.peer)

(* An attempt is never under way while the status is Ready, but to tear the *)
(* connection down or to resume its tracks; and a connection that is up, or *)
(* comes up, has a peer unless a teardown has closed it.                    *)
StageInv ==
    /\ DOMAIN tearing = {"own", "other"}
    /\ \A w \in {"own", "other"} : DOMAIN tearing[w] = {"at", "keep"}
    /\ attempt.at \notin {"idle", "recycling", "resuming"} => status # "Ready"
    /\ attempt.at = "recycling" /\ tearing["own"].at = "none" => status # "Ready"
    /\ ~closing /\ (status = "Ready" \/ Connecting) => peer # NoPeer

(* No peer has the number 0, and only it.                                   *)
LEMMA NoPeerIs == NoPeer.n = 0 /\ \A p : IsPeer(p) => p # NoPeer
  BY DEF NoPeer, IsPeer

(* The steps of Next, by name: a bound is asked for one of the slots.       *)
LEMMA NextIs ==
  ASSUME [Next]_vars
  PROVE \/ Connect \/ Reconnect \/ Recycled \/ NoSessionLeft \/ SessionReady \/ ApplyBitrate
        \/ Prepared \/ RemoteDescriptionSet \/ GateOpens \/ GatePassed \/ SetReady \/ AutoResume
        \/ AttemptReturns \/ AttemptFails \/ AttemptTearsDown \/ AttemptEnds
        \/ \E answer \in {"plain", "chunked"} : Answered(answer)
        \/ EngineTakesAnswer \/ EngineRefusesAnswer
        \/ \E keep \in BOOLEAN : TeardownAsked(keep)
        \/ \E w \in {"own", "other"} : TeardownCloses(w)
        \/ \E w \in {"own", "other"} : TeardownClears(w)
        \/ ChannelsOpen \/ \E c \in Channels : BrokenFrame(c)
        \/ \E name \in PauseNames, on \in BOOLEAN : AppAsks(name, on)
        \/ \E v \in Asked : SetBitrate(v)
        \/ \E v \in Asked, name \in BitrateNames : SetTrackBitrate(name, v)
        \/ \E name \in PublishNames : Publish(name)
        \/ \E name \in PublishNames : Unpublish(name)
        \/ \E who \in Callers : PauseSent(who)
        \/ \E who \in Callers : PauseRecorded(who)
        \/ BitrateApplied \/ BitrateRemembered \/ PublishFails \/ SenderReplaced \/ PublishAccepted
        \/ \E k \in 1..MaxConnects : LoopStep(k)
        \/ UNCHANGED vars
<1>1. ASSUME NEW name \in PauseNames, PauseTrack(name) \/ ResumeTrack(name)
      PROVE \E on \in BOOLEAN : AppAsks(name, on)
  BY <1>1 DEF PauseTrack, ResumeTrack
<1> QED
  BY <1>1, Zenon DEF Next, AttemptStep, CallStep, TeardownStep

(* What a step makes of the peer that is there: it stays, apart from what   *)
(* is named here, or goes, or prepare() publishes the one it built.         *)
Changed(fields) ==
    /\ peer # NoPeer /\ IsPeer(peer')
    /\ \A f \in PeerFields \ fields : peer'[f] = peer[f]

(* A field that is assigned is all that changes.                            *)
LEMMA Assigned ==
  ASSUME peer # NoPeer, IsPeer(peer), NEW f \in {"answer", "remote", "inactive", "sender"}, NEW x,
         peer' = [peer EXCEPT ![f] = x]
  PROVE Changed({f})
<1>1. DOMAIN peer' = PeerFields /\ \A g \in PeerFields \ {f} : peer'[g] = peer[g]
  BY DEF IsPeer
<1>2. f \notin {"n", "tracks", "bounds", "framing"}
  OBVIOUS
<1>3. {"n", "tracks", "bounds", "framing"} \subseteq PeerFields
  BY DEF PeerFields
<1>4. /\ peer'["n"] = peer["n"] /\ peer'["tracks"] = peer["tracks"]
      /\ peer'["bounds"] = peer["bounds"] /\ peer'["framing"] = peer["framing"]
  BY <1>1, <1>2, <1>3
<1>5. IsPeer(peer')
  BY <1>1, <1>4 DEF IsPeer
<1> QED
  BY <1>1, <1>5 DEF Changed

(* Pausing or resuming a track changes no more of the peer than which       *)
(* transceivers are inactive.                                               *)
LEMMA PauseLeaves ==
  ASSUME ShapeInv, NEW who, NEW name, NEW on, PauseAsked(who, name, on)
  PROVE UNCHANGED peer \/ Changed({"inactive"})
<1>1. CASE UNCHANGED peer
  BY <1>1
<1>2. CASE peer # NoPeer /\ \E x : peer' = [peer EXCEPT !.inactive = x]
  <2>1. PICK x : peer' = [peer EXCEPT !["inactive"] = x]
    BY <1>2
  <2>2. IsPeer(peer)
    BY <1>2 DEF ShapeInv
  <2> QED
    BY <1>2, <2>1, <2>2, Assigned
<1> QED
  BY <1>1, <1>2 DEF PauseAsked, Flips

(* Every step, by what it does to the peer.                                 *)
LEMMA PeerStep ==
  ASSUME ShapeInv, [Next]_vars
  PROVE \/ UNCHANGED peer
        \/ peer' = NoPeer /\ (SessionReady \/ \E w \in {"own", "other"} : TeardownCloses(w))
        \/ Prepared
        \/ (\E answer \in {"plain", "chunked"} : Answered(answer)) /\ Changed({"remote"})
        \/ EngineTakesAnswer /\ Changed({"answer"})
        \/ EngineRefusesAnswer /\ Changed({"remote"})
        \/ ChannelsOpen /\ Changed({"framing"})
        \/ (\E c \in Channels : BrokenFrame(c)) /\ Changed({"framing"})
        \/ (\E who, name, on : PauseAsked(who, name, on)) /\ Changed({"inactive"})
        \/ BitrateApplied /\ Changed({"bounds"})
        \/ SenderReplaced /\ Changed({"sender"})
<1>1. peer # NoPeer => IsPeer(peer)
  BY DEF ShapeInv
<1>2. CASE \E answer \in {"plain", "chunked"} : Answered(answer)
  <2>1. PICK answer : peer # NoPeer /\ peer' = [peer EXCEPT !["remote"] = answer]
    BY <1>2 DEF Answered, OnAnswer
  <2>2. Changed({"remote"})
    BY <1>1, <2>1, Assigned
  <2> QED
    BY <1>2, <2>2
<1>3. CASE EngineTakesAnswer
  <2>1. CASE peer = NoPeer
    <3>1. peer' = [NoPeer EXCEPT !.answer = attempt.peer.answer]
      BY <1>3, <2>1 DEF EngineTakesAnswer
    <3>2. peer' = peer
      BY <2>1, <3>1 DEF NoPeer
    <3> QED
      BY <3>2
  <2>2. CASE peer # NoPeer
    <3>1. peer' = [peer EXCEPT !["answer"] = attempt.peer.answer]
      BY <1>3 DEF EngineTakesAnswer
    <3>2. Changed({"answer"})
      BY <1>1, <2>2, <3>1, Assigned
    <3> QED
      BY <1>3, <3>2
  <2> QED
    BY <2>1, <2>2
<1>4. CASE EngineRefusesAnswer
  <2>1. CASE peer = NoPeer
    <3>1. peer' = [NoPeer EXCEPT !.remote = "plain"] \/ peer' = peer
      BY <1>4, <2>1 DEF EngineRefusesAnswer
    <3>2. peer' = peer
      BY <2>1, <3>1 DEF NoPeer
    <3> QED
      BY <3>2
  <2>2. CASE peer # NoPeer
    <3>1. peer' = [peer EXCEPT !["remote"] = "plain"] \/ peer' = peer
      BY <1>4 DEF EngineRefusesAnswer
    <3>2. Changed({"remote"}) \/ peer' = peer
      BY <1>1, <2>2, <3>1, Assigned
    <3> QED
      BY <1>4, <3>2
  <2> QED
    BY <2>1, <2>2
<1>5. CASE ChannelsOpen
  <2>1. peer # NoPeer /\ \E x : DOMAIN x = Channels /\ peer' = [peer EXCEPT !.framing = x]
    BY <1>5 DEF ChannelsOpen
  <2>2. Changed({"framing"})
    BY <1>1, <2>1 DEF Changed, IsPeer, PeerFields
  <2> QED
    BY <1>5, <2>2
<1>6. CASE \E c \in Channels : BrokenFrame(c)
  <2>1. peer # NoPeer /\ \E c \in Channels : peer' = [peer EXCEPT !.framing = [@ EXCEPT ![c] = "closed"]]
    BY <1>6 DEF BrokenFrame
  <2>2. Changed({"framing"})
    BY <1>1, <2>1 DEF Changed, IsPeer, PeerFields
  <2> QED
    BY <1>6, <2>2
<1>7. CASE \E name \in PauseNames, on \in BOOLEAN : AppAsks(name, on)
  <2>1. PICK name \in PauseNames, on \in BOOLEAN : PauseAsked("app", name, on)
    BY <1>7 DEF AppAsks
  <2> QED
    BY <2>1, PauseLeaves
<1>8. CASE AutoResume
  <2>1. (\E name : PauseAsked("auto", name, TRUE)) \/ UNCHANGED peer
    BY <1>8 DEF AutoResume
  <2> QED
    BY <2>1, PauseLeaves
<1>9. CASE BitrateApplied
  <2>1. CASE UNCHANGED peer
    BY <2>1
  <2>2. CASE peer' # peer
    <3> DEFINE c == call["app"]
    <3>1. peer' = [peer EXCEPT !.bounds = [@ EXCEPT ![c.name] = c.bound]] /\ c.target # 0 /\ peer.n = c.target
      BY <1>9, <2>2 DEF BitrateApplied
    <3>2. peer # NoPeer
      BY <3>1 DEF NoPeer
    <3>3. Changed({"bounds"})
      BY <1>1, <3>1, <3>2 DEF Changed, IsPeer, PeerFields
    <3> QED
      BY <1>9, <3>3
  <2> QED
    BY <2>1, <2>2
<1>10. CASE SenderReplaced
  <2>1. UNCHANGED peer \/ \E x : peer' = [peer EXCEPT !["sender"] = x]
    BY <1>10 DEF SenderReplaced
  <2>2. CASE peer = NoPeer
    BY <2>1, <2>2 DEF NoPeer
  <2>3. CASE peer # NoPeer /\ peer' # peer
    <3>1. Changed({"sender"})
      BY <1>1, <2>1, <2>3, Assigned
    <3> QED
      BY <1>10, <3>1
  <2> QED
    BY <2>2, <2>3
<1>11. CASE SessionReady \/ \E w \in {"own", "other"} : TeardownCloses(w)
  BY <1>11 DEF SessionReady, Close, TeardownCloses
<1>12. CASE RemoteDescriptionSet
  BY <1>12 DEF RemoteDescriptionSet, OnAnswer
<1>13. CASE \/ Connect \/ Reconnect \/ Recycled \/ NoSessionLeft \/ ApplyBitrate \/ GateOpens
            \/ GatePassed \/ SetReady \/ AttemptReturns \/ AttemptFails \/ AttemptTearsDown \/ AttemptEnds
  BY <1>13 DEF Connect, Reconnect, Recycled, NoSessionLeft, ApplyBitrate, GateOpens, GatePassed,
               SetReady, AttemptReturns, AttemptFails, AttemptTearsDown, AttemptEnds
<1>14. CASE \/ \E keep \in BOOLEAN : TeardownAsked(keep)
            \/ \E w \in {"own", "other"} : TeardownClears(w)
            \/ \E v \in Asked : SetBitrate(v)
            \/ \E v \in Asked, name \in BitrateNames : SetTrackBitrate(name, v)
            \/ \E name \in PublishNames : Publish(name) \/ Unpublish(name)
  BY <1>14 DEF TeardownAsked, TeardownClears, SetBitrate, SetTrackBitrate, AsksBound, Publish, Unpublish
<1>15. CASE \/ \E who \in Callers : PauseSent(who) \/ PauseRecorded(who)
            \/ BitrateRemembered \/ PublishFails \/ PublishAccepted
            \/ \E k \in 1..MaxConnects : LoopStep(k)
            \/ UNCHANGED vars
  BY <1>15 DEF PauseSent, PauseRecorded, BitrateRemembered, PublishFails, PublishAccepted, LoopStep,
               LoopStarts, LoopPings, LoopWakes, vars
<1> QED
  BY NextIs, <1>2, <1>3, <1>4, <1>5, <1>6, <1>7, <1>8, <1>9, <1>10, <1>11, <1>12, <1>13, <1>14, <1>15

(* Every step, by what it does to the attempt.                              *)
LEMMA AttemptMoves ==
  ASSUME ShapeInv, [Next]_vars
  PROVE \/ UNCHANGED <<attempt, epoch>>
        \/ Connect \/ Recycled \/ SessionReady \/ ApplyBitrate
        \/ /\ UNCHANGED epoch
           /\ DOMAIN attempt' = {"at", "kind", "peer", "next"}
           /\ ~Building'
<1> USE DEF At, core, ghosts, fixed
<1>1. DOMAIN attempt = {"at", "kind", "peer", "next"}
  BY DEF ShapeInv
<1>2. CASE NoSessionLeft \/ GateOpens \/ GatePassed
  BY <1>1, <1>2 DEF NoSessionLeft, GateOpens, GatePassed, Building
<1>8. CASE Prepared \/ RemoteDescriptionSet
  BY <1>1, <1>8 DEF Prepared, RemoteDescriptionSet, Building
<1>9. CASE Reconnect
  BY <1>1, <1>9 DEF Reconnect, Building
<1>3. CASE SetReady \/ AttemptReturns \/ AttemptFails \/ AttemptTearsDown \/ AttemptEnds
  BY <1>1, <1>3 DEF SetReady, AttemptReturns, AttemptFails, AttemptTearsDown, AttemptEnds, Building
<1>4. CASE AutoResume
  BY <1>1, <1>4 DEF AutoResume, Resuming, Building
<1>5. CASE EngineTakesAnswer \/ EngineRefusesAnswer \/ \E answer \in {"plain", "chunked"} : Answered(answer)
  BY <1>1, <1>5 DEF EngineTakesAnswer, EngineRefusesAnswer, Answered, Building
<1>6. CASE \/ \E keep \in BOOLEAN : TeardownAsked(keep)
           \/ \E w \in {"own", "other"} : TeardownCloses(w)
           \/ \E w \in {"own", "other"} : TeardownClears(w)
           \/ ChannelsOpen \/ \E c \in Channels : BrokenFrame(c)
           \/ \E name \in PauseNames, on \in BOOLEAN : AppAsks(name, on)
           \/ \E v \in Asked : SetBitrate(v)
           \/ \E v \in Asked, name \in BitrateNames : SetTrackBitrate(name, v)
           \/ \E name \in PublishNames : Publish(name) \/ Unpublish(name)
  BY <1>6 DEF TeardownAsked, TeardownCloses, TeardownClears, ChannelsOpen, BrokenFrame, AppAsks,
              SetBitrate, SetTrackBitrate, AsksBound, Publish, Unpublish
<1>7. CASE \/ \E who \in Callers : PauseSent(who) \/ PauseRecorded(who)
           \/ BitrateApplied \/ BitrateRemembered \/ PublishFails \/ SenderReplaced \/ PublishAccepted
           \/ \E k \in 1..MaxConnects : LoopStep(k)
           \/ UNCHANGED vars
  BY <1>7 DEF PauseSent, PauseRecorded, BitrateApplied, BitrateRemembered, PublishFails, SenderReplaced,
              PublishAccepted, LoopStep, LoopStarts, LoopPings, LoopWakes, vars
<1> QED
  BY NextIs, <1>2, <1>3, <1>4, <1>5, <1>6, <1>7, <1>8, <1>9

(* A new peer is one, on the engine's defaults.                             *)
LEMMA NewPeerIs ==
  ASSUME NEW n \in Nat \ {0}, NEW names \in SUBSET Names
  PROVE /\ IsPeer(NewPeer(n, names)) /\ NewPeer(n, names).n = n /\ NewPeer(n, names).tracks = names
        /\ NewPeer(n, names).answer = "none" /\ NewPeer(n, names).sender = {}
        /\ \A c \in Channels : NewPeer(n, names).framing[c] = "unopened"
        /\ NewPeer(n, names).bounds = [s \in Slots |-> Default]
  BY DEF NewPeer, IsPeer, PeerFields

(* The remembered bounds are all that apply_bitrate() changes of it.        *)
LEMMA ReboundIs ==
  ASSUME NEW p, IsPeer(p)
  PROVE /\ IsPeer(Rebound(p)) /\ \A f \in PeerFields \ {"bounds"} : Rebound(p)[f] = p[f]
        /\ \A s \in p.tracks \cup {"connection"} : Rebound(p).bounds[s] = Takes(p.bounds[s], remembered[s])
<1> DEFINE b == [s \in Slots |-> IF s \in p.tracks \cup {"connection"}
                                   THEN Takes(p.bounds[s], remembered[s]) ELSE p.bounds[s]]
<1>1. Rebound(p) = [p EXCEPT !.bounds = b]
  BY DEF Rebound
<1>2. DOMAIN b = Slots /\ \A s \in p.tracks \cup {"connection"} : b[s] = Takes(p.bounds[s], remembered[s])
  <2>1. p.tracks \cup {"connection"} \subseteq Slots
    BY DEF IsPeer, Slots
  <2> QED
    BY <2>1
<1> HIDE DEF b
<1> QED
  BY <1>1, <1>2 DEF IsPeer, PeerFields

(* Where the attempt is and which peer there is go together, throughout.    *)
LEMMA ShapeStep == ShapeInv /\ [Next]_vars => ShapeInv'
<1> SUFFICES ASSUME ShapeInv, [Next]_vars PROVE ShapeInv'
  OBVIOUS
<1>1. /\ peer' # NoPeer => IsPeer(peer')
      /\ peer'.n \in 0..epoch
      /\ peer'.n = peer.n \/ peer'.n = 0 \/ Prepared
  <2>1. CASE UNCHANGED peer
    BY <2>1 DEF ShapeInv, IsPeer
  <2>2. CASE peer' = NoPeer
    BY <2>2 DEF ShapeInv, NoPeer
  <2>3. CASE Prepared
    BY <2>3 DEF Prepared, ShapeInv, IsNew, IsPeer
  <2>4. ASSUME NEW f \in PeerFields \ {"n"}, Changed({f})
        PROVE IsPeer(peer') /\ peer'.n = peer.n
    BY <2>4 DEF Changed, PeerFields
  <2>5. CASE IsPeer(peer') /\ peer'.n = peer.n
    BY <2>5 DEF ShapeInv
  <2> QED
    BY <2>1, <2>2, <2>3, <2>4, <2>5, PeerStep DEF PeerFields
<1>2. CASE Connect
  <2>1. UNCHANGED peer /\ epoch' = epoch + 1 /\ attempt' = [at |-> "begun", kind |-> "connect", peer |-> NoPeer, next |-> 1]
    BY <1>2 DEF Connect, Begun
  <2> QED
    BY <1>1, <2>1 DEF ShapeInv, Building, IsPeer
<1>3. CASE Recycled
  <2>1. UNCHANGED peer /\ epoch' = epoch + 1 /\ attempt' = [attempt EXCEPT !.at = "begun"]
    BY <1>3 DEF Recycled, Begun, At
  <2> QED
    BY <1>1, <2>1 DEF ShapeInv, Building, IsPeer
<1>4. CASE SessionReady
  <2>1. PICK names \in SUBSET Names :
          attempt' = [attempt EXCEPT !.at = "building", !.peer = NewPeer(epoch, names)]
    BY <1>4, TransceiversAreDeclared DEF SessionReady
  <2>2. UNCHANGED epoch /\ attempt.at = "begun" /\ (peer' = peer \/ peer' = NoPeer)
    BY <1>4 DEF SessionReady, Close
  <2>3. epoch \in Nat \ {0} /\ peer'.n < epoch
    BY <2>2 DEF ShapeInv, Building, NoPeer
  <2>4. IsPeer(NewPeer(epoch, names)) /\ IsNew(NewPeer(epoch, names))
    BY <2>3, NewPeerIs DEF IsNew
  <2> HIDE DEF NewPeer
  <2>5. DOMAIN attempt' = {"at", "kind", "peer", "next"} /\ attempt'.peer = NewPeer(epoch, names)
    BY <2>1 DEF ShapeInv
  <2>6. IsNew(attempt.peer)'
    BY <2>2, <2>4, <2>5 DEF IsNew, IsPeer
  <2> QED
    BY <1>1, <2>2, <2>3, <2>5, <2>6 DEF ShapeInv, IsPeer
<1>5. CASE ApplyBitrate
  <2>1. attempt' = [attempt EXCEPT !.at = "applied", !.peer = Rebound(@)] /\ attempt.at = "building"
          /\ UNCHANGED <<peer, epoch>>
    BY <1>5 DEF ApplyBitrate, core
  <2>2. IsNew(attempt.peer)
    BY <2>1 DEF ShapeInv
  <2>3. IsNew(Rebound(attempt.peer))
    BY <2>2, ReboundIs DEF IsNew, PeerFields
  <2> HIDE DEF Rebound
  <2>4. DOMAIN attempt' = {"at", "kind", "peer", "next"} /\ attempt'.peer = Rebound(attempt.peer)
    BY <2>1 DEF ShapeInv
  <2>5. IsNew(attempt.peer)'
    BY <2>1, <2>3, <2>4 DEF IsNew, IsPeer
  <2>6. peer.n < epoch
    BY <2>1 DEF ShapeInv, Building
  <2> QED
    BY <1>1, <2>1, <2>4, <2>5, <2>6 DEF ShapeInv, IsPeer
<1>6. CASE UNCHANGED <<attempt, epoch>>
  <2>1. ~Prepared \/ ~Building
    BY <1>6 DEF Prepared, Building, ShapeInv
  <2>2. Building => peer'.n < epoch
    BY <1>1, <2>1 DEF Prepared, Building, ShapeInv
  <2> QED
    BY <1>1, <1>6, <2>2 DEF ShapeInv, IsNew, IsPeer, Building
<1>7. CASE /\ UNCHANGED epoch
           /\ DOMAIN attempt' = {"at", "kind", "peer", "next"}
           /\ ~Building'
  BY <1>1, <1>7 DEF ShapeInv, IsNew, IsPeer, Building
<1> QED
  BY <1>2, <1>3, <1>4, <1>5, <1>6, <1>7, AttemptMoves

(* It holds before anything was asked.                                      *)
LEMMA ShapeInit == Init => ShapeInv
  BY DEF Init, ShapeInv, Building, NoPeer

(* A peer is closed by prepare() or by a teardown alone.                    *)
LEMMA PeerStays ==
  ASSUME ShapeInv, [Next]_vars, peer # NoPeer
  PROVE peer' # NoPeer \/ SessionReady \/ \E w \in {"own", "other"} : TeardownCloses(w)
<1>1. CASE Prepared
  BY <1>1, NoPeerIs DEF Prepared, ShapeInv, IsNew
<1>2. ASSUME NEW f \in PeerFields, Changed({f}) PROVE peer' # NoPeer
  BY <1>2, NoPeerIs DEF Changed
<1> QED
  BY <1>1, <1>2, PeerStep DEF PeerFields

(* The status, the teardowns and the attempt follow one another.            *)
LEMMA StageStep == ShapeInv /\ StageInv /\ [Next]_vars => StageInv'
<1> SUFFICES ASSUME ShapeInv, StageInv, [Next]_vars PROVE StageInv'
  OBVIOUS
<1>0. DOMAIN attempt = {"at", "kind", "peer", "next"}
  BY DEF ShapeInv
<1> USE DEF StageInv, Connecting, At, core, ghosts, fixed
<1>1. CASE Connect
  BY <1>0, <1>1 DEF Connect, Begun
<1>2. CASE Reconnect
  <2>1. CASE status = "Ready"
    BY <1>0, <1>2, <2>1 DEF Reconnect
  <2>2. CASE status # "Ready"
    BY <1>0, <1>2, <2>2 DEF Reconnect
  <2> QED
    BY <2>1, <2>2
<1>3. CASE Recycled
  BY <1>0, <1>3 DEF Recycled, Begun
<1>4. CASE NoSessionLeft
  BY <1>0, <1>4 DEF NoSessionLeft
<1>5. CASE SessionReady
  BY <1>0, <1>5 DEF SessionReady
<1>6. CASE ApplyBitrate
  BY <1>0, <1>6 DEF ApplyBitrate
<1>7. CASE Prepared
  <2>1. peer' # NoPeer
    BY <1>7, NoPeerIs DEF Prepared, ShapeInv, IsNew
  <2> QED
    BY <1>0, <1>7, <2>1 DEF Prepared
<1>8. CASE \/ RemoteDescriptionSet \/ EngineTakesAnswer \/ EngineRefusesAnswer
           \/ \E answer \in {"plain", "chunked"} : Answered(answer)
  <2>1. peer # NoPeer => peer' # NoPeer
    <3>1. UNCHANGED tearing /\ attempt.at # "begun"
      BY <1>8 DEF RemoteDescriptionSet, EngineTakesAnswer, EngineRefusesAnswer, Answered
    <3>2. \A w \in {"own", "other"} : ~TeardownCloses(w)
      BY <3>1 DEF TeardownCloses
    <3>3. ~SessionReady
      BY <3>1 DEF SessionReady
    <3> QED
      BY <3>2, <3>3, PeerStays
  <2>2. UNCHANGED <<status, closing, tearing>> /\ status # "Ready" /\ (attempt.at # "prepared" => Connecting)
          /\ attempt'.at \in {"gated", "taken", "failed", "handed"} /\ Connecting
    BY <1>0, <1>8 DEF RemoteDescriptionSet, EngineTakesAnswer, EngineRefusesAnswer, Answered
  <2> QED
    BY <2>1, <2>2
<1>9. CASE GateOpens
  BY <1>0, <1>9 DEF GateOpens
<1>10. CASE GatePassed
  BY <1>0, <1>10 DEF GatePassed
<1>11. CASE SetReady
  BY <1>0, <1>11 DEF SetReady
<1>12. CASE AutoResume
  <2>1. peer # NoPeer => peer' # NoPeer
    BY <1>12, PeerStays DEF SessionReady, TeardownCloses, AutoResume, Resuming
  <2>2. UNCHANGED <<status, closing, tearing>> /\ attempt'.at = attempt.at /\ attempt.at = "resuming"
    BY <1>0, <1>12 DEF AutoResume, Resuming
  <2> QED
    BY <2>1, <2>2
<1>13. CASE AttemptReturns \/ AttemptFails
  BY <1>0, <1>13 DEF AttemptReturns, AttemptFails
<1>14. CASE AttemptTearsDown \/ AttemptEnds
  BY <1>0, <1>14 DEF AttemptTearsDown, AttemptEnds
<1>15. CASE \E keep \in BOOLEAN : TeardownAsked(keep)
  BY <1>15 DEF TeardownAsked
<1>16. ASSUME NEW w \in {"own", "other"}, TeardownCloses(w) PROVE StageInv'
  BY <1>16 DEF TeardownCloses
<1>17. ASSUME NEW w \in {"own", "other"}, TeardownClears(w) PROVE StageInv'
  BY <1>17 DEF TeardownClears, Forgets
<1>18. CASE /\ UNCHANGED <<status, closing, tearing, attempt>>
            /\ ~\E w \in {"own", "other"} : TeardownCloses(w)
            /\ ~SessionReady
  <2>1. peer # NoPeer => peer' # NoPeer
    BY <1>18, PeerStays
  <2> QED
    BY <1>18, <2>1
<1>19. CASE \/ ChannelsOpen \/ \E c \in Channels : BrokenFrame(c)
            \/ \E name \in PauseNames, on \in BOOLEAN : AppAsks(name, on)
            \/ \E v \in Asked : SetBitrate(v)
            \/ \E v \in Asked, name \in BitrateNames : SetTrackBitrate(name, v)
            \/ \E name \in PublishNames : Publish(name) \/ Unpublish(name)
  <2>1. UNCHANGED <<status, closing, tearing, attempt>>
    BY <1>19 DEF ChannelsOpen, BrokenFrame, AppAsks, SetBitrate, SetTrackBitrate, AsksBound, Publish, Unpublish
  <2>2. \A w \in {"own", "other"} : ~TeardownCloses(w)
    BY <2>1 DEF TeardownCloses
  <2>3. ~SessionReady
    BY <1>0, <2>1 DEF SessionReady
  <2> QED
    BY <1>18, <2>1, <2>2, <2>3
<1>20. CASE \/ \E who \in Callers : PauseSent(who) \/ PauseRecorded(who)
            \/ BitrateApplied \/ BitrateRemembered \/ PublishFails \/ SenderReplaced \/ PublishAccepted
            \/ \E k \in 1..MaxConnects : LoopStep(k)
            \/ UNCHANGED vars
  <2>1. UNCHANGED <<status, closing, tearing, attempt>>
    BY <1>20 DEF PauseSent, PauseRecorded, BitrateApplied, BitrateRemembered, PublishFails, SenderReplaced,
              PublishAccepted, LoopStep, LoopStarts, LoopPings, LoopWakes, vars
  <2>2. \A w \in {"own", "other"} : ~TeardownCloses(w)
    BY <2>1 DEF TeardownCloses
  <2>3. ~SessionReady
    BY <1>0, <2>1 DEF SessionReady
  <2> QED
    BY <1>18, <2>1, <2>2, <2>3
<1> QED
  BY NextIs, <1>1, <1>2, <1>3, <1>4, <1>5, <1>6, <1>7, <1>8, <1>9, <1>10, <1>11, <1>12, <1>13, <1>14,
     <1>15, <1>16, <1>17, <1>19, <1>20

(* It holds before anything was asked.                                      *)
LEMMA StageInit == Init => StageInv
  BY DEF Init, StageInv, Connecting

(***************************************************************************)
(* Framing.                                                                *)
(***************************************************************************)

(* What is recorded of an answer is what the engine will apply, and no      *)
(* channel opens before it is applied.                                      *)
FrameInv ==
    /\ attempt.at = "prepared" /\ peer # NoPeer => peer.answer = "none"
    /\ attempt.at = "handed" =>
         /\ attempt.peer.n # 0
         /\ peer.n = attempt.peer.n => peer.answer = "none" /\ peer.remote = attempt.peer.answer
    /\ peer # NoPeer =>
         /\ peer.answer = "none" => \A c \in Channels : peer.framing[c] = "unopened"
         /\ peer.answer # "none" => peer.remote = peer.answer
         /\ \A c \in Channels : peer.framing[c] \in {"plain", "chunked"} => peer.framing[c] = peer.answer
    /\ stepped /\ (status = "Ready" \/ attempt.at = "ready") /\ peer # NoPeer =>
         peer.framing["data"] \in {"chunked", "closed"}

(* Which step brings an attempt to a place.                                 *)
LEMMA Arrives ==
  ASSUME ShapeInv, [Next]_vars
  PROVE /\ attempt'.at = "prepared" => Prepared \/ UNCHANGED attempt
        /\ attempt'.at = "handed" => (\E a \in {"plain", "chunked"} : Answered(a)) \/ UNCHANGED attempt
        /\ attempt'.at = "ready" => GatePassed \/ UNCHANGED attempt
        /\ status' = "Ready" => SetReady \/ UNCHANGED status
        /\ UNCHANGED <<host, stepped>>
<1>0. DOMAIN attempt = {"at", "kind", "peer", "next"}
  BY DEF ShapeInv
<1> USE DEF At, core, ghosts, fixed
<1>1. CASE Connect \/ Recycled
  BY <1>0, <1>1 DEF Connect, Recycled, Begun
<1>2. CASE Reconnect
  BY <1>0, <1>2 DEF Reconnect
<1>12. CASE NoSessionLeft
  BY <1>0, <1>12 DEF NoSessionLeft
<1>13. CASE SessionReady
  BY <1>0, <1>13 DEF SessionReady
<1>3. CASE ApplyBitrate \/ Prepared \/ RemoteDescriptionSet
  BY <1>0, <1>3 DEF ApplyBitrate, Prepared, RemoteDescriptionSet
<1>4. CASE GateOpens \/ GatePassed
  BY <1>0, <1>4 DEF GateOpens, GatePassed
<1>5. CASE SetReady \/ AttemptReturns \/ AttemptFails
  BY <1>0, <1>5 DEF SetReady, AttemptReturns, AttemptFails
<1>6. CASE AttemptTearsDown \/ AttemptEnds
  BY <1>0, <1>6 DEF AttemptTearsDown, AttemptEnds
<1>7. CASE AutoResume
  BY <1>0, <1>7 DEF AutoResume, Resuming
<1>8. CASE EngineTakesAnswer \/ EngineRefusesAnswer \/ \E a \in {"plain", "chunked"} : Answered(a)
  BY <1>0, <1>8 DEF EngineTakesAnswer, EngineRefusesAnswer, Answered
<1>9. CASE \E w \in {"own", "other"} : TeardownClears(w)
  BY <1>9 DEF TeardownClears
<1>10. CASE \/ \E keep \in BOOLEAN : TeardownAsked(keep)
            \/ \E w \in {"own", "other"} : TeardownCloses(w)
            \/ ChannelsOpen \/ \E c \in Channels : BrokenFrame(c)
            \/ \E name \in PauseNames, on \in BOOLEAN : AppAsks(name, on)
            \/ \E v \in Asked : SetBitrate(v)
            \/ \E v \in Asked, name \in BitrateNames : SetTrackBitrate(name, v)
            \/ \E name \in PublishNames : Publish(name) \/ Unpublish(name)
  BY <1>10 DEF TeardownAsked, TeardownCloses, ChannelsOpen, BrokenFrame, AppAsks, SetBitrate,
               SetTrackBitrate, AsksBound, Publish, Unpublish
<1>11. CASE \/ \E who \in Callers : PauseSent(who) \/ PauseRecorded(who)
            \/ BitrateApplied \/ BitrateRemembered \/ PublishFails \/ SenderReplaced \/ PublishAccepted
            \/ \E k \in 1..MaxConnects : LoopStep(k)
            \/ UNCHANGED vars
  BY <1>11 DEF PauseSent, PauseRecorded, BitrateApplied, BitrateRemembered, PublishFails, SenderReplaced,
               PublishAccepted, LoopStep, LoopStarts, LoopPings, LoopWakes, vars
<1> QED
  BY NextIs, <1>1, <1>2, <1>3, <1>4, <1>5, <1>6, <1>7, <1>8, <1>9, <1>10, <1>11, <1>12, <1>13

(* A step that leaves a peer's answer and framing alone, and hands over no  *)
(* answer, leaves the framing right.                                        *)
LEMMA FrameKept ==
  ASSUME ShapeInv, StageInv, FrameInv, [Next]_vars, ~Prepared,
         ~\E a \in {"plain", "chunked"} : Answered(a),
         peer'.n = peer.n, peer' = NoPeer <=> peer = NoPeer,
         peer # NoPeer => /\ peer'.answer = peer.answer /\ peer'.remote = peer.remote
                          /\ peer'.framing = peer.framing
  PROVE FrameInv'
<1>1. attempt'.at \in {"prepared", "handed"} => UNCHANGED attempt
  BY Arrives
<1>2. ASSUME stepped', status' = "Ready" \/ attempt'.at = "ready", peer' # NoPeer
      PROVE peer'.framing["data"] \in {"chunked", "closed"}
  <2>1. CASE GatePassed
    <3>1. attempt'.at = IF stepped /\ ~Chunked THEN "failed" ELSE "ready"
      BY <2>1 DEF GatePassed, At, ShapeInv
    <3>2. UNCHANGED status /\ attempt.at = "open"
      BY <2>1 DEF GatePassed, core
    <3>3. status # "Ready"
      BY <3>2 DEF StageInv
    <3> QED
      BY <1>2, <3>1, <3>2, <3>3, Arrives DEF Chunked
  <2>2. CASE SetReady
    BY <1>2, <2>2, Arrives DEF SetReady, FrameInv
  <2>3. CASE ~GatePassed /\ ~SetReady
    BY <1>2, <2>3, Arrives DEF FrameInv
  <2> QED
    BY <2>1, <2>2, <2>3
<1>3. attempt'.at = "prepared" /\ peer' # NoPeer => peer'.answer = "none"
  BY <1>1 DEF FrameInv
<1>4. attempt'.at = "handed" =>
        /\ attempt'.peer.n # 0
        /\ peer'.n = attempt'.peer.n => peer'.answer = "none" /\ peer'.remote = attempt'.peer.answer
  <2> SUFFICES ASSUME attempt'.at = "handed" PROVE
        /\ attempt'.peer.n # 0
        /\ peer'.n = attempt'.peer.n => peer'.answer = "none" /\ peer'.remote = attempt'.peer.answer
    OBVIOUS
  <2>1. attempt' = attempt /\ attempt.at = "handed" /\ attempt.peer.n # 0
    BY <1>1 DEF FrameInv
  <2>2. CASE peer = NoPeer
    BY <2>1, <2>2, NoPeerIs
  <2>3. CASE peer # NoPeer
    BY <2>1, <2>3 DEF FrameInv
  <2> QED
    BY <2>2, <2>3
<1> QED
  BY <1>2, <1>3, <1>4 DEF FrameInv

(* Every step leaves the framing right.                                     *)
LEMMA FrameStep == ShapeInv /\ StageInv /\ FrameInv /\ [Next]_vars => FrameInv'
<1> SUFFICES ASSUME ShapeInv, StageInv, FrameInv, [Next]_vars PROVE FrameInv'
  OBVIOUS
<1>0. DOMAIN attempt = {"at", "kind", "peer", "next"}
  BY DEF ShapeInv
<1>1. CASE Prepared
  <2>1. /\ peer' = attempt.peer /\ IsNew(attempt.peer)
        /\ attempt'.at = "prepared" /\ UNCHANGED status /\ status # "Ready"
    BY <1>0, <1>1 DEF Prepared, ShapeInv, StageInv, core
  <2> QED
    BY <2>1 DEF FrameInv, IsNew
<1>2. ASSUME NEW a \in {"plain", "chunked"}, Answered(a) PROVE FrameInv'
  <2>1. /\ peer # NoPeer /\ peer' = [peer EXCEPT !.remote = a] /\ attempt.at = "prepared"
        /\ attempt' = [attempt EXCEPT !.at = "handed", !.peer = [n |-> peer.n, answer |-> a]]
        /\ UNCHANGED status
    BY <1>2 DEF Answered, OnAnswer
  <2>2. IsPeer(peer) /\ peer.answer = "none" /\ status # "Ready"
    BY <2>1 DEF ShapeInv, StageInv, FrameInv
  <2>3. /\ peer'.remote = a /\ peer'.n = peer.n /\ peer'.answer = "none" /\ peer'.framing = peer.framing
        /\ peer.n # 0
    BY <2>1, <2>2 DEF IsPeer, PeerFields
  <2>4. attempt'.at = "handed" /\ attempt'.peer.n = peer.n /\ attempt'.peer.answer = a
    BY <1>0, <2>1
  <2> QED
    BY <2>1, <2>2, <2>3, <2>4 DEF FrameInv
<1> USE DEF PeerFields
<1>3. CASE EngineTakesAnswer /\ Changed({"answer"})
  <2>1. /\ peer' = [peer EXCEPT !.answer = attempt.peer.answer] /\ attempt.at = "handed"
        /\ attempt'.at = "taken" /\ UNCHANGED status /\ peer.n = attempt.peer.n
    BY <1>0, <1>3 DEF EngineTakesAnswer, At, core
  <2>2. IsPeer(peer) /\ peer # NoPeer /\ peer.remote = attempt.peer.answer /\ peer.answer = "none" /\ status # "Ready"
    BY <1>3, <2>1 DEF ShapeInv, StageInv, FrameInv, Changed
  <2>3. peer'.remote = peer.remote /\ peer'.framing = peer.framing /\ peer'.answer = peer.remote
    BY <2>1, <2>2 DEF IsPeer
  <2>4. \A c \in Channels : peer.framing[c] = "unopened"
    BY <2>2 DEF FrameInv
  <2> QED
    BY <2>1, <2>2, <2>3, <2>4 DEF FrameInv
<1>4. CASE EngineRefusesAnswer /\ Changed({"remote"})
  <2>1. attempt.at = "handed" /\ attempt'.at = "failed" /\ UNCHANGED status /\ peer # NoPeer
    BY <1>0, <1>4 DEF EngineRefusesAnswer, At, core, Changed
  <2>2. CASE peer.n = attempt.peer.n
    <3>1. peer.answer = "none" /\ peer'.answer = "none" /\ peer'.framing = peer.framing /\ status # "Ready"
      BY <1>4, <2>1, <2>2 DEF FrameInv, Changed, StageInv
    <3> QED
      BY <2>1, <3>1 DEF FrameInv
  <2>3. CASE peer.n # attempt.peer.n
    <3>1. peer' = peer /\ status # "Ready"
      BY <1>4, <2>1, <2>3 DEF EngineRefusesAnswer, StageInv
    <3> QED
      BY <2>1, <3>1 DEF FrameInv
  <2> QED
    BY <2>2, <2>3
<1>5. CASE ChannelsOpen /\ Changed({"framing"})
  <2>1. /\ peer # NoPeer /\ IsPeer(peer) /\ peer.answer # "none"
        /\ peer' = [peer EXCEPT !.framing = [c \in Channels |-> Decide]]
        /\ UNCHANGED <<status, attempt>> /\ peer.framing["data"] = "unopened" /\ UNCHANGED stepped
    BY <1>5 DEF ChannelsOpen, Changed, ShapeInv, fixed
  <2>2. Decide = peer.answer
    BY <2>1 DEF FrameInv, Decide
  <2>3. peer'.answer = peer.answer /\ peer'.remote = peer.remote /\ \A c \in Channels : peer'.framing[c] = peer.answer
    BY <2>1, <2>2 DEF IsPeer
  <2>4. ~(stepped /\ (status = "Ready" \/ attempt.at = "ready"))
    BY <2>1 DEF FrameInv
  <2>5. peer'.n = peer.n
    BY <1>5 DEF Changed
  <2> QED
    BY <2>1, <2>3, <2>4, <2>5 DEF FrameInv
<1>6. CASE (\E c \in Channels : BrokenFrame(c)) /\ Changed({"framing"})
  <2>1. PICK c \in Channels : peer' = [peer EXCEPT !.framing = [@ EXCEPT ![c] = "closed"]] /\ UNCHANGED <<status, attempt, stepped>>
                              /\ peer.framing[c] = "chunked"
    BY <1>6 DEF BrokenFrame, core, fixed
  <2>2. IsPeer(peer) /\ peer # NoPeer
    BY <1>6 DEF Changed, ShapeInv
  <2>3. /\ peer'.answer = peer.answer /\ peer'.remote = peer.remote /\ peer'.n = peer.n
        /\ peer'.framing[c] = "closed" /\ \A d \in Channels \ {c} : peer'.framing[d] = peer.framing[d]
    BY <2>1, <2>2 DEF IsPeer
  <2>4. peer.answer # "none"
    BY <2>1, <2>2 DEF FrameInv
  <2> QED
    BY <2>1, <2>2, <2>3, <2>4 DEF FrameInv, Channels
<1>7. CASE UNCHANGED peer /\ ~Prepared /\ ~\E a \in {"plain", "chunked"} : Answered(a)
  BY <1>7, FrameKept
<1>8. CASE peer' = NoPeer /\ (SessionReady \/ \E w \in {"own", "other"} : TeardownCloses(w))
  <2>1. attempt'.at # "handed" \/ UNCHANGED attempt
    BY <1>0, <1>8 DEF SessionReady, TeardownCloses
  <2> QED
    BY <1>8, <2>1, NoPeerIs DEF FrameInv
<1>9. ASSUME NEW f \in {"inactive", "bounds", "sender"}, Changed({f}), ~Prepared,
             ~\E a \in {"plain", "chunked"} : Answered(a)
      PROVE FrameInv'
  BY <1>9, FrameKept, NoPeerIs DEF Changed
<1> QED
  BY PeerStep, <1>1, <1>2, <1>3, <1>4, <1>5, <1>6, <1>7, <1>8, <1>9

(* A channel that is open is framed as the answer that was applied says,    *)
(* and a stepped session is never Ready on a data channel that is not       *)
(* chunked, whichever steps of the attempt, the engine and the teardowns    *)
(* cross.                                                                   *)
THEOREM FramesAgree == Spec => []FramedAlike
<1>1. Init => FrameInv
  BY DEF Init, FrameInv, NoPeer
<1>2. FrameInv => FramedAlike
  BY DEF FrameInv, FramedAlike, Open
<1> QED
  BY <1>1, <1>2, ShapeInit, StageInit, ShapeStep, StageStep, FrameStep, PTL DEF Spec

(***************************************************************************)
(* Calls.                                                                  *)
(***************************************************************************)
Publishing == call["app"].op \in {"publish", "unpublish"}

(* What a call under way holds, by what it is.                              *)
CallInv ==
    /\ DOMAIN call = Callers
    /\ \A who \in Callers : Pausing(who) => DOMAIN call[who] = {"op", "name", "at"}
    /\ Bounding => DOMAIN call["app"] = {"op", "at", "name", "bound", "target"} /\ call["app"].name \in Slots
    /\ Publishing => DOMAIN call["app"] = {"op", "at", "name", "n"}
    /\ call["auto"].op \in {"none", "pause", "resume"}
    /\ \A who \in Callers : call[who].op = "none" => call[who] = NoCall

(* A step that changes nothing of the calls leaves them as they are.        *)
LEMMA CallsKept == CallInv /\ UNCHANGED call => CallInv'
  BY DEF CallInv, Pausing, Bounding, Publishing

(* One caller's call becomes another.                                       *)
LEMMA CallTurns ==
  ASSUME CallInv, NEW who \in Callers, NEW c, call' = [call EXCEPT ![who] = c],
         \/ c = NoCall
         \/ DOMAIN c = {"op", "name", "at"} /\ c.op \in {"pause", "resume"}
         \/ who = "app" /\ c.op = "bitrate" /\ c.name \in Slots
            /\ DOMAIN c = {"op", "at", "name", "bound", "target"}
         \/ who = "app" /\ c.op \in {"publish", "unpublish"} /\ DOMAIN c = {"op", "at", "name", "n"}
  PROVE CallInv'
<1>1. DOMAIN call' = Callers /\ call'[who] = c /\ \A w \in Callers \ {who} : call'[w] = call[w]
  BY DEF CallInv
<1>2. NoCall.op = "none"
  BY DEF NoCall
<1>3. CASE who = "app"
  BY <1>1, <1>2, <1>3 DEF CallInv, Pausing, Bounding, Publishing, Callers
<1>4. CASE who = "auto"
  BY <1>1, <1>2, <1>4 DEF CallInv, Pausing, Bounding, Publishing, Callers
<1> QED
  BY <1>3, <1>4 DEF Callers

(* A pause or resume is asked of the native transport, or over at once.     *)
LEMMA PauseCalls ==
  ASSUME CallInv, NEW who \in Callers, NEW name, NEW on, PauseAsked(who, name, on) PROVE CallInv'
<1>1. CASE UNCHANGED call
  BY <1>1, CallsKept
<1>2. CASE \E op \in {"pause", "resume"} :
             call' = [call EXCEPT ![who] = [op |-> op, name |-> name, at |-> "asked"]]
  BY <1>2, CallTurns
<1> QED
  BY <1>1, <1>2 DEF PauseAsked

(* The calls of the application and the attempt keep their shapes.          *)
LEMMA CallStepKeeps == CallInv /\ [Next]_vars => CallInv'
<1> SUFFICES ASSUME CallInv, [Next]_vars PROVE CallInv'
  OBVIOUS
<1>1. CASE \/ Connect \/ Reconnect \/ Recycled \/ NoSessionLeft \/ SessionReady \/ ApplyBitrate
           \/ Prepared \/ RemoteDescriptionSet \/ GateOpens \/ GatePassed \/ SetReady
           \/ AttemptReturns \/ AttemptFails \/ AttemptTearsDown \/ AttemptEnds
           \/ EngineTakesAnswer \/ EngineRefusesAnswer
           \/ \E a \in {"plain", "chunked"} : Answered(a)
  <2>1. UNCHANGED call
    BY <1>1 DEF Connect, Reconnect, Recycled, NoSessionLeft, SessionReady, ApplyBitrate, Prepared,
                RemoteDescriptionSet, GateOpens, GatePassed, SetReady, AttemptReturns, AttemptFails,
                AttemptTearsDown, AttemptEnds, EngineTakesAnswer, EngineRefusesAnswer, Answered
  <2> QED
    BY <2>1, CallsKept
<1>2. CASE \/ \E keep \in BOOLEAN : TeardownAsked(keep)
           \/ \E w \in {"own", "other"} : TeardownClears(w)
           \/ ChannelsOpen \/ \E c \in Channels : BrokenFrame(c)
           \/ \E k \in 1..MaxConnects : LoopStep(k)
           \/ UNCHANGED vars
  <2>1. UNCHANGED call
    BY <1>2 DEF TeardownAsked, TeardownClears, ChannelsOpen, BrokenFrame, LoopStep, LoopStarts,
                LoopPings, LoopWakes, vars
  <2> QED
    BY <2>1, CallsKept
<1>3. CASE AutoResume
  <2>1. (\E name : PauseAsked("auto", name, TRUE)) \/ UNCHANGED call
    BY <1>3 DEF AutoResume
  <2> QED
    BY <2>1, PauseCalls, CallsKept DEF Callers
<1>4. CASE \E name \in PauseNames, on \in BOOLEAN : AppAsks(name, on)
  <2>1. \E name, on : PauseAsked("app", name, on)
    BY <1>4 DEF AppAsks
  <2> QED
    BY <2>1, PauseCalls DEF Callers
<1>5. CASE \E w \in {"own", "other"} : TeardownCloses(w)
  <2>1. call' = [call EXCEPT !["app"] = NoCall] \/ call' = [call EXCEPT !["app"] = call["app"]]
    BY <1>5 DEF TeardownCloses, FailAll
  <2>2. call' = [call EXCEPT !["app"] = call["app"]] => call' = call \/ CallInv'
    <3> SUFFICES ASSUME call' = [call EXCEPT !["app"] = call["app"]] PROVE CallInv'
      OBVIOUS
    <3>1. DOMAIN call' = Callers /\ \A w \in Callers : call'[w] = call[w]
      BY DEF CallInv
    <3> QED
      BY <3>1 DEF CallInv, Pausing, Bounding, Publishing, Callers
  <2> QED
    BY <2>1, <2>2, CallTurns, CallsKept DEF Callers
<1>6. CASE (\E v \in Asked : SetBitrate(v)) \/ (\E v \in Asked, name \in BitrateNames : SetTrackBitrate(name, v))
  <2>1. PICK slot, bound, target : slot \in Slots /\
          call' = [call EXCEPT !["app"] = [op |-> "bitrate", at |-> "asked", name |-> slot,
                                           bound |-> bound, target |-> target]]
    BY <1>6 DEF SetBitrate, SetTrackBitrate, AsksBound, Slots
  <2> QED
    BY <2>1, CallTurns DEF Callers
<1>7. ASSUME NEW name, Publish(name) PROVE CallInv'
  BY <1>7, CallTurns DEF Publish, Callers
<1>8. ASSUME NEW name, Unpublish(name) PROVE CallInv'
  <2>1. \/ call' = [call EXCEPT !["app"] = NoCall]
        \/ call' = [call EXCEPT !["app"] = [op |-> "unpublish", at |-> "attaching", name |-> name, n |-> peer.n]]
    <3> DEFINE made == [op |-> "publish", at |-> "attaching", name |-> name, n |-> peer.n]
    <3>1. [made EXCEPT !.op = "unpublish"] = [op |-> "unpublish", at |-> "attaching", name |-> name, n |-> peer.n]
      OBVIOUS
    <3>2. Attach(name) = made \/ Attach(name) = NoCall
      BY DEF Attach
    <3> HIDE DEF made
    <3> QED
      BY <1>8, <3>1, <3>2 DEF Unpublish
  <2> QED
    BY <2>1, CallTurns DEF Callers
<1>9. ASSUME NEW who \in Callers, PauseSent(who) \/ PauseRecorded(who) PROVE CallInv'
  <2>1. \/ call' = [call EXCEPT ![who] = [call[who] EXCEPT !.at = "sent"]]
        \/ call' = [call EXCEPT ![who] = NoCall]
    BY <1>9 DEF PauseSent, PauseRecorded
  <2>2. DOMAIN call[who] = {"op", "name", "at"} /\ call[who].op \in {"pause", "resume"}
    BY <1>9 DEF PauseSent, PauseRecorded, CallInv, Pausing
  <2>3. DOMAIN [call[who] EXCEPT !.at = "sent"] = {"op", "name", "at"}
          /\ [call[who] EXCEPT !.at = "sent"].op \in {"pause", "resume"}
    BY <2>2
  <2> QED
    BY <2>1, <2>3, CallTurns
<1>10. CASE BitrateApplied
  <2>1. \/ call' = [call EXCEPT !["app"] = [call["app"] EXCEPT !.at = "applied"]]
        \/ call' = [call EXCEPT !["app"] = NoCall]
    BY <1>10 DEF BitrateApplied
  <2>2. DOMAIN call["app"] = {"op", "at", "name", "bound", "target"} /\ call["app"].name \in Slots
          /\ call["app"].op = "bitrate"
    BY <1>10 DEF BitrateApplied, CallInv, Bounding
  <2> QED
    BY <2>1, <2>2, CallTurns DEF Callers
<1>11. CASE BitrateRemembered \/ PublishFails \/ SenderReplaced
  <2>1. call' = [call EXCEPT !["app"] = NoCall]
    BY <1>11 DEF BitrateRemembered, PublishFails, SenderReplaced
  <2> QED
    BY <2>1, CallTurns DEF Callers
<1>12. CASE PublishAccepted
  <2>1. \/ call' = [call EXCEPT !["app"] = NoCall]
        \/ call' = [call EXCEPT !["app"] = [op |-> "publish", at |-> "attaching",
                                            name |-> call["app"].name, n |-> peer.n]]
    BY <1>12 DEF PublishAccepted, Attach
  <2> QED
    BY <2>1, CallTurns DEF Callers
<1> QED
  BY NextIs, <1>1, <1>2, <1>3, <1>4, <1>5, <1>6, <1>7, <1>8, <1>9, <1>10, <1>11, <1>12

(* It holds before anything was asked.                                      *)
LEMMA CallInit == Init => CallInv
<1> SUFFICES ASSUME Init PROVE CallInv
  OBVIOUS
<1>1. DOMAIN call = Callers /\ \A who \in Callers : call[who] = NoCall /\ call[who].op = "none"
  BY DEF Init, NoCall
<1> QED
  BY <1>1 DEF CallInv, Pausing, Bounding, Publishing, Callers

(***************************************************************************)
(* Pausing.                                                                *)
(***************************************************************************)
Heard == {x \in Names : told[x] = "pause"}
Sent(who) == Pausing(who) /\ call[who].at = "sent"

(* What the client lists as paused is what the runtime heard, but for the   *)
(* one track whose call is between the send and the record.                 *)
InStep ==
    /\ ~(Sent("app") /\ Sent("auto"))
    /\ (\A who \in Callers : ~Sent(who)) => paused = Heard
    /\ \A who \in Callers : Sent(who) =>
         /\ call[who].op = "resume" => paused \ {call[who].name} = Heard
         /\ call[who].op = "pause" => paused \cup {call[who].name} = Heard

(* Unless two calls crossed, or a teardown overtook one, a connection's     *)
(* lists are in step, and before it is Ready they are empty.                *)
PauseInv ==
    /\ DOMAIN told = Names
    /\ ~crossed /\ peer # NoPeer => InStep
    /\ ~crossed /\ status # "Ready" => paused = {} /\ \A who \in Callers : ~Pausing(who)

(* A track that can be paused is a declared one.                            *)
LEMMA DirectedAreNamed == ASSUME ShapeInv, NEW name, Directed(name) PROVE name \in Names
<1>1. CASE IsStepInput(name)
  BY <1>1 DEF IsStepInput, Names
<1>2. CASE HasTransceiver(name)
  BY <1>2 DEF HasTransceiver, ShapeInv, IsPeer
<1> QED
  BY <1>1, <1>2 DEF Directed

(* What the runtime has heard once it was told.                             *)
LEMMA HeardThen ==
  ASSUME PauseInv, NEW who, NEW name \in Names, NEW on \in BOOLEAN, Speaks(who, name, on)
  PROVE /\ DOMAIN told' = Names
        /\ Heard' = IF on THEN Heard \ {name} ELSE Heard \cup {name}
        /\ ~crossed' => ~crossed /\ \A w \in Callers \ {who} : ~Pausing(w)
<1>1. told' = [told EXCEPT ![name] = IF on THEN "resume" ELSE "pause"]
  BY DEF Speaks
<1>2. DOMAIN told' = Names /\ told'[name] = (IF on THEN "resume" ELSE "pause")
        /\ \A x \in Names \ {name} : told'[x] = told[x]
  BY <1>1 DEF PauseInv
<1>3. Heard' = IF on THEN Heard \ {name} ELSE Heard \cup {name}
  <2>1. CASE on
    BY <1>2, <2>1 DEF Heard
  <2>2. CASE ~on
    BY <1>2, <2>2 DEF Heard
  <2> QED
    BY <2>1, <2>2
<1>4. crossed' = (crossed \/ \E w \in Callers \ {who} : Pausing(w))
  BY DEF Speaks
<1> QED
  BY <1>2, <1>3, <1>4

(* A pause or resume begins; in the browser it is also over.                *)
LEMMA PauseBegins ==
  ASSUME ShapeInv, CallInv, PauseInv, NEW who \in Callers, NEW name, NEW on \in BOOLEAN,
         PauseAsked(who, name, on), UNCHANGED status, peer' # NoPeer <=> peer # NoPeer
  PROVE PauseInv'
<1>0. call[who] = NoCall /\ status = "Ready" /\ ~Pausing(who)
  BY DEF PauseAsked, Pausing, NoCall
<1>1. CASE host = "native"
  <2>1. /\ UNCHANGED <<peer, paused, told, crossed>>
        /\ call' = [call EXCEPT ![who] = [op |-> IF on THEN "resume" ELSE "pause",
                                          name |-> name, at |-> "asked"]]
    BY <1>1 DEF PauseAsked
  <2>2. call'[who].at = "asked" /\ \A w \in Callers \ {who} : call'[w] = call[w]
    BY <2>1 DEF CallInv
  <2>3. \A w \in Callers : (Sent(w)' <=> Sent(w)) /\ (Sent(w) => call'[w] = call[w])
    BY <1>0, <2>2 DEF Sent, Pausing
  <2>4. InStep => InStep'
    BY <2>1, <2>3 DEF InStep, Heard, Callers
  <2> QED
    BY <1>0, <2>1, <2>4 DEF PauseInv
<1>2. CASE host # "native" /\ UNCHANGED <<call, paused, told, crossed>>
  <2>1. InStep => InStep'
    BY <1>2 DEF InStep, Heard, Sent, Pausing
  <2> QED
    BY <1>0, <1>2, <2>1 DEF PauseInv
<1>3. CASE host # "native" /\ Records(name, on) /\ Speaks(who, name, on) /\ UNCHANGED call
  <2>1. Directed(name) /\ peer # NoPeer
    BY <1>3 DEF PauseAsked
  <2>2. name \in Names
    BY <2>1, DirectedAreNamed
  <2>3. /\ DOMAIN told' = Names
        /\ Heard' = IF on THEN Heard \ {name} ELSE Heard \cup {name}
        /\ ~crossed' => ~crossed /\ \A w \in Callers \ {who} : ~Pausing(w)
    BY <1>3, <2>2, HeardThen
  <2>4. ASSUME ~crossed' PROVE InStep'
    <3>1. \A w \in Callers : ~Sent(w) /\ ~Sent(w)'
      BY <1>0, <1>3, <2>3, <2>4 DEF Sent, Pausing
    <3>2. paused = Heard
      BY <2>1, <2>3, <2>4, <3>1 DEF PauseInv, InStep
    <3>3. paused' = Heard'
      BY <1>3, <2>3, <3>2 DEF Records
    <3> QED
      BY <3>1, <3>3 DEF InStep, Callers
  <2> QED
    BY <1>0, <2>3, <2>4 DEF PauseInv
<1> QED
  BY <1>1, <1>2, <1>3 DEF PauseAsked

(* The runtime is told, or cannot be.                                       *)
LEMMA PauseTells ==
  ASSUME ShapeInv, CallInv, PauseInv, NEW who \in Callers, PauseSent(who) PROVE PauseInv'
<1> DEFINE name == call[who].name
           on == call[who].op = "resume"
<1>1. UNCHANGED <<status, paused, peer>> /\ Pausing(who) /\ call[who].at = "asked"
  BY DEF PauseSent, core
<1>2. DOMAIN call = Callers /\ DOMAIN call[who] = {"op", "name", "at"}
  BY <1>1 DEF CallInv
<1>3. CASE Directed(name) /\ Open("control") /\ Speaks(who, name, on)
             /\ call' = [call EXCEPT ![who] = [call[who] EXCEPT !.at = "sent"]]
  <2>1. name \in Names /\ peer # NoPeer
    BY <1>3, DirectedAreNamed DEF Open
  <2>2. /\ DOMAIN told' = Names
        /\ Heard' = IF on THEN Heard \ {name} ELSE Heard \cup {name}
        /\ ~crossed' => ~crossed /\ \A w \in Callers \ {who} : ~Pausing(w)
    <3> HIDE DEF name
    <3> QED
      BY <1>3, <2>1, HeardThen
  <2>3. call'[who] = [call[who] EXCEPT !.at = "sent"] /\ \A w \in Callers \ {who} : call'[w] = call[w]
    BY <1>2, <1>3
  <2>4. call'[who].op = call[who].op /\ call'[who].name = name
    BY <1>2, <2>3
  <2>5. ASSUME ~crossed' PROVE InStep' /\ status = "Ready"
    <3>1. \A w \in Callers \ {who} : ~Sent(w) /\ ~Sent(w)'
      BY <2>2, <2>3, <2>5 DEF Sent, Pausing
    <3>2. ~Sent(who)
      BY <1>1 DEF Sent
    <3>3. paused = Heard
      BY <2>1, <2>2, <2>5, <3>1, <3>2 DEF PauseInv, InStep
    <3>4. call[who].op \in {"pause", "resume"}
      BY <1>1 DEF Pausing
    <3>5. /\ call'[who].op = "resume" => paused' \ {call'[who].name} = Heard'
          /\ call'[who].op = "pause" => paused' \cup {call'[who].name} = Heard'
      BY <1>1, <2>2, <2>4, <3>3, <3>4
    <3>6. Sent(who)'
      BY <1>2, <2>3, <2>4, <3>4 DEF Sent, Pausing
    <3>7. status = "Ready"
      BY <1>1, <2>2, <2>5 DEF PauseInv
    <3> QED
      BY <3>1, <3>5, <3>6, <3>7 DEF InStep, Callers
  <2> QED
    BY <1>1, <2>2, <2>5 DEF PauseInv
<1>4. CASE call' = [call EXCEPT ![who] = NoCall] /\ UNCHANGED <<told, crossed>>
  <2>1. call'[who] = NoCall /\ \A w \in Callers \ {who} : call'[w] = call[w]
    BY <1>2, <1>4
  <2>2. ~Sent(who) /\ ~Sent(who)' /\ ~Pausing(who)' /\ \A w \in Callers \ {who} : (Sent(w)' <=> Sent(w)) /\ (Pausing(w)' <=> Pausing(w))
    BY <1>1, <2>1 DEF Sent, Pausing, NoCall
  <2>3. InStep => InStep'
    BY <1>1, <1>4, <2>1, <2>2 DEF InStep, Heard, Callers
  <2> QED
    BY <1>1, <1>4, <2>2, <2>3 DEF PauseInv
<1> QED
  BY <1>3, <1>4 DEF PauseSent

(* What the runtime was told is recorded.                                   *)
LEMMA PauseEnds ==
  ASSUME ShapeInv, CallInv, PauseInv, NEW who \in Callers, PauseRecorded(who) PROVE PauseInv'
<1>1. /\ UNCHANGED <<status, peer, told, crossed>> /\ Sent(who)
      /\ Records(call[who].name, call[who].op = "resume") /\ call' = [call EXCEPT ![who] = NoCall]
  BY DEF PauseRecorded, Sent, ghosts
<1>2. DOMAIN call = Callers
  BY DEF CallInv
<1>3. call'[who] = NoCall /\ \A w \in Callers \ {who} : call'[w] = call[w]
  BY <1>1, <1>2
<1>4. ~Sent(who)' /\ ~Pausing(who)' /\ \A w \in Callers \ {who} : (Sent(w)' <=> Sent(w)) /\ (Pausing(w)' <=> Pausing(w))
  BY <1>3 DEF Sent, Pausing, NoCall
<1>5. call[who].op \in {"pause", "resume"}
  BY <1>1 DEF Sent, Pausing
<1>6. InStep => InStep'
  <2> SUFFICES ASSUME InStep PROVE InStep'
    OBVIOUS
  <2>1. \A w \in Callers : ~Sent(w)'
    BY <1>1, <1>4 DEF InStep, Callers
  <2>2. paused' = Heard'
    BY <1>1, <1>5 DEF InStep, Records, Heard
  <2> QED
    BY <2>1, <2>2 DEF InStep, Callers
<1>7. ~crossed => status = "Ready"
  BY <1>1 DEF PauseInv, Sent
<1> QED
  BY <1>1, <1>6, <1>7 DEF PauseInv

(* A step that changes nothing of the lists, of the pauses under way and of *)
(* whether there is a connection.                                           *)
LEMMA PauseKept ==
  ASSUME PauseInv, UNCHANGED <<paused, told, crossed>>,
         \A who \in Callers : (Pausing(who)' <=> Pausing(who)) /\ (Pausing(who) => call'[who] = call[who]),
         peer' # NoPeer => peer # NoPeer, status' # "Ready" => status # "Ready"
  PROVE PauseInv'
<1>1. \A who \in Callers : (Sent(who)' <=> Sent(who)) /\ (Sent(who) => call'[who] = call[who])
  BY DEF Sent
<1>2. InStep => InStep'
  BY <1>1 DEF InStep, Heard, Callers
<1> QED
  BY <1>2 DEF PauseInv

(* The application's other calls are no pauses.                             *)
LEMMA OtherCalls ==
  ASSUME CallInv, NEW c, call' = [call EXCEPT !["app"] = c], ~Pausing("app"),
         c.op \notin {"pause", "resume"}
  PROVE \A who \in Callers : (Pausing(who)' <=> Pausing(who)) /\ (Pausing(who) => call'[who] = call[who])
<1>1. call'["app"] = c /\ call'["auto"] = call["auto"]
  BY DEF CallInv, Callers
<1> QED
  BY <1>1 DEF Pausing, Callers

(* Every step keeps the lists in step, as far as the claim goes.            *)
LEMMA PauseStep == ShapeInv /\ StageInv /\ CallInv /\ PauseInv /\ [Next]_vars => PauseInv'
<1> SUFFICES ASSUME ShapeInv, StageInv, CallInv, PauseInv, [Next]_vars PROVE PauseInv'
  OBVIOUS
<1>0. DOMAIN attempt = {"at", "kind", "peer", "next"}
  BY DEF ShapeInv
<1> USE DEF core, ghosts, fixed
<1>1. CASE UNCHANGED call /\ UNCHANGED <<paused, told, crossed>> /\ (peer' # NoPeer => peer # NoPeer)
             /\ (status' # "Ready" => status # "Ready")
  BY <1>1, PauseKept DEF Pausing
<1>2. CASE Connect \/ Recycled \/ SessionReady
  BY <1>1, <1>2 DEF Connect, Recycled, SessionReady, Begun, Close, StageInv
<1>3. CASE \/ Reconnect \/ NoSessionLeft \/ ApplyBitrate \/ GateOpens \/ GatePassed \/ SetReady
           \/ AttemptReturns \/ AttemptFails \/ AttemptTearsDown \/ AttemptEnds
  BY <1>1, <1>3 DEF Reconnect, NoSessionLeft, ApplyBitrate, GateOpens, GatePassed, SetReady,
                    AttemptReturns, AttemptFails, AttemptTearsDown, AttemptEnds
<1>4. CASE Prepared
  <2>1. /\ UNCHANGED <<status, paused, call, crossed>> /\ status # "Ready"
        /\ told' = [x \in Names |-> "none"]
    BY <1>4 DEF Prepared, StageInv
  <2>2. DOMAIN told' = Names /\ Heard' = {}
    BY <2>1 DEF Heard
  <2>3. ~crossed => paused' = {} /\ \A who \in Callers : ~Pausing(who)' /\ ~Sent(who)'
    BY <2>1 DEF PauseInv, Pausing, Sent
  <2>4. ~crossed => InStep'
    BY <2>2, <2>3 DEF InStep, Callers
  <2> QED
    BY <2>1, <2>2, <2>3, <2>4 DEF PauseInv
<1>5. CASE \/ RemoteDescriptionSet \/ EngineTakesAnswer \/ EngineRefusesAnswer
           \/ \E a \in {"plain", "chunked"} : Answered(a)
  <2>1. ~Prepared
    BY <1>5 DEF RemoteDescriptionSet, EngineTakesAnswer, EngineRefusesAnswer, Answered, Prepared
  <2>2. peer' # NoPeer => peer # NoPeer
    BY <2>1, PeerStep DEF Changed
  <2>3. UNCHANGED <<call, paused, told, crossed, status>>
    BY <1>5 DEF RemoteDescriptionSet, EngineTakesAnswer, EngineRefusesAnswer, Answered
  <2> QED
    BY <1>1, <2>2, <2>3
<1>6. CASE AutoResume
  <2>1. CASE \E name : PauseAsked("auto", name, TRUE)
    <3>1. peer' # NoPeer <=> peer # NoPeer
      BY <2>1, PauseLeaves, NoPeerIs DEF Changed
    <3>2. UNCHANGED status
      BY <1>6 DEF AutoResume
    <3> QED
      BY <2>1, <3>1, <3>2, PauseBegins DEF Callers
  <2>2. CASE UNCHANGED <<call, peer, paused, told, crossed>>
    <3>1. UNCHANGED status
      BY <1>6 DEF AutoResume
    <3> QED
      BY <1>1, <2>2, <3>1
  <2> QED
    BY <1>6, <2>1, <2>2 DEF AutoResume
<1>7. CASE \E name \in PauseNames, on \in BOOLEAN : AppAsks(name, on)
  <2>1. PICK name \in PauseNames, on \in BOOLEAN : PauseAsked("app", name, on) /\ UNCHANGED status
    BY <1>7 DEF AppAsks
  <2>2. peer' # NoPeer <=> peer # NoPeer
    BY <2>1, PauseLeaves, NoPeerIs DEF Changed
  <2> QED
    BY <2>1, <2>2, PauseBegins DEF Callers
<1>8. ASSUME NEW w \in {"own", "other"}, TeardownCloses(w) PROVE PauseInv'
  <2>1. UNCHANGED <<paused, told, crossed, status>> /\ peer' = NoPeer /\ call' = FailAll
    BY <1>8 DEF TeardownCloses
  <2>2. call'["auto"] = call["auto"] /\ (call'["app"] = call["app"] \/ (call["app"].op = "publish" /\ call'["app"] = NoCall))
    BY <2>1 DEF FailAll, CallInv, Callers
  <2>3. \A who \in Callers : (Pausing(who)' <=> Pausing(who)) /\ (Pausing(who) => call'[who] = call[who])
    BY <2>2 DEF Pausing, NoCall, Callers
  <2> QED
    BY <2>1, <2>3, PauseKept
<1>9. ASSUME NEW w \in {"own", "other"}, TeardownClears(w) PROVE PauseInv'
  <2>1. /\ paused' = {} /\ UNCHANGED <<told, peer, call>>
        /\ crossed' = (peer # NoPeer \/ \E c \in Callers : Pausing(c))
    BY <1>9 DEF TeardownClears, Forgets
  <2>2. ~crossed' => peer' = NoPeer /\ \A c \in Callers : ~Pausing(c)'
    BY <2>1 DEF Pausing
  <2> QED
    BY <2>1, <2>2 DEF PauseInv
<1>10. CASE \/ \E keep \in BOOLEAN : TeardownAsked(keep)
            \/ ChannelsOpen \/ \E c \in Channels : BrokenFrame(c)
            \/ \E k \in 1..MaxConnects : LoopStep(k)
            \/ UNCHANGED vars
  BY <1>1, <1>10 DEF TeardownAsked, ChannelsOpen, BrokenFrame, LoopStep, LoopStarts, LoopPings, LoopWakes, vars
<1>11. CASE (\E v \in Asked : SetBitrate(v)) \/ (\E v \in Asked, name \in BitrateNames : SetTrackBitrate(name, v))
  <2>1. PICK slot, bound, target :
          call' = [call EXCEPT !["app"] = [op |-> "bitrate", at |-> "asked", name |-> slot,
                                           bound |-> bound, target |-> target]]
    BY <1>11 DEF SetBitrate, SetTrackBitrate, AsksBound
  <2>2. call["app"] = NoCall /\ UNCHANGED <<peer, status, paused, told, crossed>>
    BY <1>11 DEF SetBitrate, SetTrackBitrate, AsksBound
  <2>3. ~Pausing("app")
    BY <2>2 DEF Pausing, NoCall
  <2> QED
    BY <2>1, <2>2, <2>3, OtherCalls, PauseKept
<1>12. CASE \E name \in PublishNames : Publish(name)
  <2>1. PICK name : call' = [call EXCEPT !["app"] = [op |-> "publish", at |-> "asked", name |-> name, n |-> peer.n]]
    BY <1>12 DEF Publish
  <2>2. call["app"] = NoCall /\ UNCHANGED <<peer, status, paused, told, crossed>>
    BY <1>12 DEF Publish
  <2>3. ~Pausing("app")
    BY <2>2 DEF Pausing, NoCall
  <2> QED
    BY <2>1, <2>2, <2>3, OtherCalls, PauseKept
<1>13. CASE \E name \in PublishNames : Unpublish(name)
  <2>1. PICK c : call' = [call EXCEPT !["app"] = c] /\ c.op \notin {"pause", "resume"}
    <3>1. PICK name : call' = [call EXCEPT !["app"] = IF Attach(name) = NoCall THEN NoCall
                                                      ELSE [Attach(name) EXCEPT !.op = "unpublish"]]
      BY <1>13 DEF Unpublish
    <3>2. NoCall.op = "none"
      BY DEF NoCall
    <3>3. Attach(name) # NoCall => [Attach(name) EXCEPT !.op = "unpublish"].op = "unpublish"
      BY DEF Attach
    <3> HIDE DEF Attach, NoCall
    <3> QED
      BY <3>1, <3>2, <3>3
  <2>2. call["app"] = NoCall /\ UNCHANGED <<peer, status, paused, told, crossed>>
    BY <1>13 DEF Unpublish
  <2>3. ~Pausing("app")
    BY <2>2 DEF Pausing, NoCall
  <2> QED
    BY <2>1, <2>2, <2>3, OtherCalls, PauseKept
<1>14. CASE BitrateApplied \/ BitrateRemembered \/ PublishFails \/ SenderReplaced \/ PublishAccepted
  <2>1. PICK c : call' = [call EXCEPT !["app"] = c] /\ c.op \notin {"pause", "resume"}
    <3>1. CASE BitrateApplied
      <4>1. \/ call' = [call EXCEPT !["app"] = [call["app"] EXCEPT !.at = "applied"]]
            \/ call' = [call EXCEPT !["app"] = NoCall]
        BY <3>1 DEF BitrateApplied
      <4>2. DOMAIN call["app"] = {"op", "at", "name", "bound", "target"} /\ call["app"].op = "bitrate"
        BY <3>1 DEF BitrateApplied, CallInv, Bounding
      <4>3. [call["app"] EXCEPT !.at = "applied"].op = "bitrate"
        BY <4>2
      <4>4. NoCall.op = "none"
        BY DEF NoCall
      <4> QED
        BY <4>1, <4>3, <4>4
    <3>2. CASE BitrateRemembered \/ PublishFails \/ SenderReplaced
      BY <3>2 DEF BitrateRemembered, PublishFails, SenderReplaced, NoCall
    <3>3. CASE PublishAccepted
      <4>1. call' = [call EXCEPT !["app"] = Attach(call["app"].name)]
        BY <3>3 DEF PublishAccepted
      <4>2. Attach(call["app"].name).op \in {"publish", "none"}
        BY DEF Attach, NoCall
      <4> QED
        BY <4>1, <4>2
    <3> QED
      BY <1>14, <3>1, <3>2, <3>3
  <2>2. call["app"].op \in {"bitrate", "publish", "unpublish"} /\ UNCHANGED <<status, paused, told, crossed>>
    BY <1>14 DEF BitrateApplied, BitrateRemembered, PublishFails, SenderReplaced, PublishAccepted, Bounding
  <2>3. ~Pausing("app")
    BY <2>2 DEF Pausing
  <2>4. peer' # NoPeer => peer # NoPeer
    <3>1. CASE Prepared
      BY <1>14, <3>1, <1>0 DEF Prepared, BitrateApplied, BitrateRemembered, PublishFails, SenderReplaced, PublishAccepted
    <3>2. CASE ~Prepared
      BY <3>2, PeerStep DEF Changed
    <3> QED
      BY <3>1, <3>2
  <2> QED
    BY <2>1, <2>2, <2>3, <2>4, OtherCalls, PauseKept
<1> QED
  BY NextIs, <1>2, <1>3, <1>4, <1>5, <1>6, <1>7, <1>8, <1>9, <1>10, <1>11, <1>12, <1>13, <1>14,
     PauseTells, PauseEnds

(***************************************************************************)
(* Publishing.                                                             *)
(***************************************************************************)

(* A publish is of a connection there has been, never of the one being      *)
(* built; media goes to a sender, or is on its way, only once the runtime   *)
(* accepted the track on that connection.                                   *)
PublishInv ==
    /\ Publishing => call["app"].n \in 1..epoch /\ (Building => call["app"].n < epoch)
    /\ /\ call["app"].op = "publish" /\ call["app"].at = "attaching"
       /\ peer # NoPeer /\ peer.n = call["app"].n
       => call["app"].name \in claimed
    /\ peer # NoPeer => peer.sender \subseteq claimed

(* A connection is begun with a number of its own.                          *)
LEMMA Ages ==
  ASSUME ShapeInv, [Next]_vars
  PROVE /\ epoch' \in {epoch, epoch + 1}
        /\ Building' => epoch' = epoch + 1 \/ (Building /\ epoch' = epoch)
<1>1. CASE Connect \/ Recycled
  BY <1>1 DEF Connect, Recycled, Begun
<1>2. CASE SessionReady
  BY <1>2 DEF SessionReady, Building
<1>3. CASE ApplyBitrate
  BY <1>3 DEF ApplyBitrate, Building, core
<1> QED
  BY <1>1, <1>2, <1>3, AttemptMoves DEF Building

(* What a step leaves alone of publishing, but for the five that publish.   *)
LEMMA PublishLeft ==
  ASSUME CallInv, [Next]_vars
  PROVE \/ Prepared \/ PublishAccepted \/ SenderReplaced
        \/ \E name \in PublishNames : Publish(name)
        \/ \E name \in PublishNames : Unpublish(name)
        \/ UNCHANGED claimed /\ (call'["app"] = call["app"] \/ ~Publishing')
<1> USE DEF ghosts
<1>0. DOMAIN call = Callers
  BY DEF CallInv
<1>1. CASE \/ Connect \/ Reconnect \/ Recycled \/ NoSessionLeft \/ SessionReady \/ ApplyBitrate
           \/ RemoteDescriptionSet \/ GateOpens \/ GatePassed \/ SetReady
           \/ AttemptReturns \/ AttemptFails \/ AttemptTearsDown \/ AttemptEnds
           \/ EngineTakesAnswer \/ EngineRefusesAnswer
           \/ \E a \in {"plain", "chunked"} : Answered(a)
  BY <1>1 DEF Connect, Reconnect, Recycled, NoSessionLeft, SessionReady, ApplyBitrate,
              RemoteDescriptionSet, GateOpens, GatePassed, SetReady, AttemptReturns, AttemptFails,
              AttemptTearsDown, AttemptEnds, EngineTakesAnswer, EngineRefusesAnswer, Answered
<1>2. CASE \/ \E keep \in BOOLEAN : TeardownAsked(keep)
           \/ \E w \in {"own", "other"} : TeardownClears(w)
           \/ ChannelsOpen \/ \E c \in Channels : BrokenFrame(c)
           \/ \E k \in 1..MaxConnects : LoopStep(k)
           \/ UNCHANGED vars
  BY <1>2 DEF TeardownAsked, TeardownClears, ChannelsOpen, BrokenFrame, LoopStep, LoopStarts,
              LoopPings, LoopWakes, vars
<1>3. ASSUME NEW who \in Callers, NEW name, NEW on, PauseAsked(who, name, on)
      PROVE call'["app"] = call["app"] \/ ~Publishing'
  BY <1>0, <1>3 DEF PauseAsked, Publishing, Callers
<1>4. CASE AutoResume
  <2>1. UNCHANGED claimed /\ ((\E name : PauseAsked("auto", name, TRUE)) \/ UNCHANGED call)
    BY <1>4 DEF AutoResume
  <2> QED
    BY <1>3, <2>1 DEF Callers
<1>5. CASE \E name \in PauseNames, on \in BOOLEAN : AppAsks(name, on)
  <2>1. UNCHANGED claimed /\ \E name, on : PauseAsked("app", name, on)
    BY <1>5 DEF AppAsks
  <2> QED
    BY <1>3, <2>1 DEF Callers
<1>6. CASE \E who \in Callers : PauseSent(who) \/ PauseRecorded(who)
  BY <1>0, <1>6 DEF PauseSent, PauseRecorded, Pausing, Publishing, Callers, CallInv, NoCall
<1>7. CASE \E w \in {"own", "other"} : TeardownCloses(w)
  BY <1>0, <1>7 DEF TeardownCloses, FailAll, Publishing, NoCall, Callers
<1>8. CASE (\E v \in Asked : SetBitrate(v)) \/ (\E v \in Asked, name \in BitrateNames : SetTrackBitrate(name, v))
  <2>1. UNCHANGED claimed /\ \E slot, bound, target :
          call' = [call EXCEPT !["app"] = [op |-> "bitrate", at |-> "asked", name |-> slot,
                                           bound |-> bound, target |-> target]]
    BY <1>8 DEF SetBitrate, SetTrackBitrate, AsksBound
  <2> QED
    BY <1>0, <2>1 DEF Publishing, Callers
<1>9. CASE BitrateApplied
  <2>1. UNCHANGED claimed
    BY <1>9 DEF BitrateApplied
  <2>2. \/ call' = [call EXCEPT !["app"] = [call["app"] EXCEPT !.at = "applied"]]
        \/ call' = [call EXCEPT !["app"] = NoCall]
    BY <1>9 DEF BitrateApplied
  <2>3. DOMAIN call["app"] = {"op", "at", "name", "bound", "target"} /\ call["app"].op = "bitrate"
    BY <1>9 DEF BitrateApplied, CallInv, Bounding
  <2>4. [call["app"] EXCEPT !.at = "applied"].op = "bitrate" /\ NoCall.op = "none"
    BY <2>3 DEF NoCall
  <2> QED
    BY <1>0, <2>1, <2>2, <2>4 DEF Publishing, Callers
<1>10. CASE BitrateRemembered \/ PublishFails
  <2>1. UNCHANGED claimed /\ call' = [call EXCEPT !["app"] = NoCall]
    BY <1>10 DEF BitrateRemembered, PublishFails
  <2> QED
    BY <1>0, <2>1 DEF Publishing, NoCall, Callers
<1> QED
  BY NextIs, <1>1, <1>2, <1>4, <1>5, <1>6, <1>7, <1>8, <1>9, <1>10

(* Every step keeps media to the senders the runtime accepted.              *)
LEMMA PublishStep == ShapeInv /\ CallInv /\ PublishInv /\ [Next]_vars => PublishInv'
<1> SUFFICES ASSUME ShapeInv, CallInv, PublishInv, [Next]_vars PROVE PublishInv'
  OBVIOUS
<1>0. DOMAIN call = Callers /\ epoch \in Nat
  BY DEF CallInv, ShapeInv
<1>1. ASSUME NEW n \in 1..epoch, Building => n < epoch PROVE n \in 1..epoch' /\ (Building' => n < epoch')
  BY <1>0, <1>1, Ages
<1>2. ASSUME peer # NoPeer PROVE peer.n \in 1..epoch /\ (Building => peer.n < epoch)
  BY <1>2 DEF ShapeInv, IsPeer
<1>3. CASE Prepared
  <2>1. /\ peer' = attempt.peer /\ IsNew(attempt.peer) /\ claimed' = {} /\ UNCHANGED call /\ Building
    BY <1>3 DEF Prepared, ShapeInv, Building
  <2>2. Publishing => call["app"].n \in 1..epoch /\ call["app"].n # peer'.n
    BY <2>1 DEF PublishInv, IsNew
  <2>3. Publishing' => call'["app"].n \in 1..epoch' /\ (Building' => call'["app"].n < epoch')
    BY <1>1, <2>1 DEF PublishInv, Publishing
  <2> QED
    BY <2>1, <2>2, <2>3 DEF PublishInv, IsNew, Publishing
<1>4. ASSUME ~Prepared PROVE peer' # NoPeer => peer # NoPeer /\ peer'.n = peer.n
  BY <1>4, PeerStep DEF Changed, PeerFields
<1>5. ASSUME ~Prepared, ~SenderReplaced PROVE peer' # NoPeer => peer'.sender = peer.sender
  BY <1>5, PeerStep DEF Changed, PeerFields
<1>6. CASE ~Prepared /\ ~SenderReplaced /\ UNCHANGED claimed /\ (call'["app"] = call["app"] \/ ~Publishing')
  <2>1. Publishing' => call'["app"].n \in 1..epoch' /\ (Building' => call'["app"].n < epoch')
    BY <1>1, <1>6 DEF PublishInv, Publishing
  <2> QED
    BY <1>4, <1>5, <1>6, <2>1 DEF PublishInv, Publishing
<1>7. CASE PublishAccepted
  <2>1. /\ claimed' = claimed \cup {call["app"].name} /\ UNCHANGED peer /\ peer.n = call["app"].n
        /\ call' = [call EXCEPT !["app"] = Attach(call["app"].name)] /\ Publishing
    BY <1>7 DEF PublishAccepted, Publishing
  <2>2. call'["app"] = Attach(call["app"].name)
    BY <1>0, <2>1 DEF Callers
  <2>3. \/ call'["app"].op = "none"
        \/ call'["app"].n = peer.n /\ peer # NoPeer /\ call'["app"].name = call["app"].name
    BY <2>2 DEF Attach, NoCall, HasTransceiver
  <2>4. Publishing' => call'["app"].n \in 1..epoch' /\ (Building' => call'["app"].n < epoch')
    BY <1>1, <1>2, <2>3 DEF Publishing
  <2> QED
    BY <2>1, <2>3, <2>4 DEF PublishInv
<1>8. CASE SenderReplaced
  <2>1. /\ UNCHANGED claimed /\ call' = [call EXCEPT !["app"] = NoCall] /\ Publishing /\ call["app"].at = "attaching"
        /\ \/ /\ peer.n = call["app"].n
              /\ peer' = [peer EXCEPT !.sender =
                            IF call["app"].op = "publish" THEN @ \cup {call["app"].name}
                              ELSE @ \ {call["app"].name}]
           \/ UNCHANGED peer
    BY <1>8 DEF SenderReplaced, Publishing, ghosts
  <2>2. ~Publishing'
    BY <1>0, <2>1 DEF Publishing, NoCall, Callers
  <2>3. CASE UNCHANGED peer
    BY <2>1, <2>2, <2>3 DEF PublishInv, Publishing
  <2>4. CASE peer' # peer
    <3>1. peer # NoPeer /\ peer.n = call["app"].n
      BY <2>1, <2>4 DEF PublishInv, NoPeer
    <3>2. IsPeer(peer)
      BY <3>1 DEF ShapeInv
    <3>3. peer'.sender = IF call["app"].op = "publish" THEN peer.sender \cup {call["app"].name}
                           ELSE peer.sender \ {call["app"].name}
      BY <2>1, <2>4, <3>2 DEF IsPeer, PeerFields
    <3>4. peer'.sender \subseteq claimed
      BY <2>1, <3>1, <3>3 DEF PublishInv
    <3> QED
      BY <2>1, <2>2, <3>4 DEF PublishInv, Publishing
  <2> QED
    BY <2>3, <2>4
<1>9. ASSUME NEW name, Publish(name) PROVE PublishInv'
  <2>1. /\ call' = [call EXCEPT !["app"] = [op |-> "publish", at |-> "asked", name |-> name, n |-> peer.n]]
        /\ UNCHANGED <<peer, claimed>> /\ peer # NoPeer
    BY <1>9 DEF Publish, Open, ghosts
  <2>2. call'["app"].n = peer.n /\ call'["app"].at = "asked"
    BY <1>0, <2>1 DEF Callers
  <2> QED
    BY <1>1, <1>2, <2>1, <2>2 DEF PublishInv
<1>10. ASSUME NEW name, Unpublish(name) PROVE PublishInv'
  <2>1. /\ UNCHANGED <<peer, claimed>> /\ peer # NoPeer
        /\ call' = [call EXCEPT !["app"] = IF Attach(name) = NoCall THEN NoCall
                                             ELSE [Attach(name) EXCEPT !.op = "unpublish"]]
    BY <1>10 DEF Unpublish, Open, ghosts
  <2>2. NoCall.op = "none"
    BY DEF NoCall
  <2>3. Attach(name) # NoCall => [Attach(name) EXCEPT !.op = "unpublish"].op = "unpublish"
                                  /\ [Attach(name) EXCEPT !.op = "unpublish"].n = peer.n
    BY DEF Attach
  <2> HIDE DEF Attach, NoCall
  <2>4. call'["app"].op = "none" \/ (call'["app"].op = "unpublish" /\ call'["app"].n = peer.n)
    BY <1>0, <2>1, <2>2, <2>3 DEF Callers
  <2> QED
    BY <1>1, <1>2, <2>1, <2>4 DEF PublishInv, Publishing
<1> QED
  BY PublishLeft, <1>3, <1>6, <1>7, <1>8, <1>9, <1>10

(* On a connection that is up, what the client lists as paused is what the  *)
(* runtime was last told to pause, and media is only on senders the runtime *)
(* accepted on that connection: for every list of tracks, any number of     *)
(* connections, and calls and teardowns in any order.                       *)
THEOREM ClientAndRuntimeAgree == Spec => []RuntimeAgrees
<1>1. Init => PauseInv /\ PublishInv
  <2> SUFFICES ASSUME Init PROVE PauseInv /\ PublishInv
    OBVIOUS
  <2>1. call["app"] = NoCall /\ call["auto"] = NoCall /\ NoCall.op = "none" /\ peer = NoPeer
          /\ DOMAIN told = Names /\ paused = {}
    BY DEF Init, NoCall, Callers
  <2> QED
    BY <2>1 DEF PauseInv, PublishInv, Publishing, Pausing, Callers
<1>2. StageInv /\ PauseInv /\ PublishInv => RuntimeAgrees
  <2> SUFFICES ASSUME StageInv, PauseInv, PublishInv PROVE RuntimeAgrees
    OBVIOUS
  <2>1. ASSUME status = "Ready", ~closing, ~crossed, \A c \in Callers : ~Pausing(c)
        PROVE paused = {x \in Names : told[x] = "pause"}
    <3>1. peer # NoPeer
      BY <2>1 DEF StageInv
    <3>2. \A c \in Callers : ~Sent(c)
      BY <2>1 DEF Sent
    <3> QED
      BY <2>1, <3>1, <3>2 DEF PauseInv, InStep, Heard
  <2> QED
    BY <2>1 DEF RuntimeAgrees, PublishInv
<1> QED
  BY <1>1, <1>2, ShapeInit, StageInit, CallInit, ShapeStep, StageStep, CallStepKeeps, PauseStep,
     PublishStep, PTL DEF Spec

(***************************************************************************)
(* Bitrate bounds.                                                         *)
(***************************************************************************)
Held(p) == p.tracks \cup {"connection"}
Right(p, s) == p.bounds[s] = Takes(Default, accepted[s])
Applied == Bounding /\ call["app"].at = "applied"

(* What is remembered is what was accepted; a peer being built starts on    *)
(* the defaults and then holds what is remembered, and so does the live     *)
(* one, but for the slot a call has applied and not yet remembered.  A call *)
(* under way is to the live peer, or for a slot the peer does not have.     *)
BoundInv ==
    /\ remembered = accepted /\ DOMAIN accepted = Slots /\ DOMAIN raced = {"live", "building"}
    /\ attempt.at = "building" => \A s \in Held(attempt.peer) : attempt.peer.bounds[s] = Default
    /\ attempt.at = "applied" /\ ~raced.building =>
         ~Bounding /\ \A s \in Held(attempt.peer) : Right(attempt.peer, s)
    /\ peer # NoPeer /\ ~raced.live =>
         /\ \A s \in Held(peer) : Right(peer, s) \/ (Applied /\ s = call["app"].name)
         /\ Bounding => \/ call["app"].target = peer.n
                        \/ call["app"].target = 0 /\ call["app"].name \notin Held(peer)
         /\ Applied /\ call["app"].name \in Held(peer) =>
              peer.bounds[call["app"].name] = Takes(Default, call["app"].bound)

(* What a peer has is among the slots.                                      *)
LEMMA HeldAreSlots == \A p : IsPeer(p) => Held(p) \subseteq Slots
  BY DEF Held, IsPeer, Slots

(* A step that changes none of the bounds and no call about them.           *)
LEMMA BoundKept ==
  ASSUME ShapeInv, BoundInv, [Next]_vars, ~Prepared, ~SessionReady, ~ApplyBitrate, ~BitrateApplied,
         UNCHANGED <<remembered, accepted, raced>>,
         (Bounding' <=> Bounding) /\ (Bounding => call'["app"] = call["app"])
  PROVE BoundInv'
<1>1. peer' # NoPeer => peer # NoPeer /\ peer'.n = peer.n /\ peer'.tracks = peer.tracks /\ peer'.bounds = peer.bounds
  BY PeerStep DEF Changed, PeerFields
<1>2. attempt'.at \in {"building", "applied"} => UNCHANGED attempt
  <2>1. CASE Connect
    BY <2>1 DEF Connect
  <2>2. CASE Recycled
    BY <2>2 DEF Recycled, At, ShapeInv
  <2> QED
    BY <2>1, <2>2, AttemptMoves DEF Building
<1>3. Applied' <=> Applied
  BY DEF Applied
<1>4. attempt'.at = "building" => \A s \in Held(attempt'.peer) : attempt'.peer.bounds[s] = Default
  BY <1>2 DEF BoundInv
<1>5. attempt'.at = "applied" /\ ~raced'.building =>
         ~Bounding' /\ \A s \in Held(attempt'.peer) : Right(attempt.peer, s)'
  BY <1>2 DEF BoundInv, Right
<1>6. ASSUME peer' # NoPeer, ~raced'.live
      PROVE /\ \A s \in Held(peer') : Right(peer, s)' \/ (Applied' /\ s = call'["app"].name)
            /\ Bounding' => \/ call'["app"].target = peer'.n
                            \/ call'["app"].target = 0 /\ call'["app"].name \notin Held(peer')
            /\ Applied' /\ call'["app"].name \in Held(peer') =>
                 peer'.bounds[call'["app"].name] = Takes(Default, call'["app"].bound)
  <2>1. peer # NoPeer /\ ~raced.live /\ Held(peer') = Held(peer)
    BY <1>1, <1>6 DEF Held
  <2>2. \A s \in Held(peer) : Right(peer, s)' <=> Right(peer, s)
    BY <1>1, <1>6 DEF Right
  <2>3. Applied => Bounding
    BY DEF Applied
  <2> QED
    BY <1>1, <1>3, <1>6, <2>1, <2>2, <2>3 DEF BoundInv
<1> QED
  BY <1>4, <1>5, <1>6 DEF BoundInv

(* prepare() builds a peer on the defaults, then on what is remembered.     *)
LEMMA BoundBuilt ==
  ASSUME ShapeInv, StageInv, CallInv, BoundInv, [Next]_vars, SessionReady \/ ApplyBitrate \/ Prepared
  PROVE BoundInv'
<1>0. DOMAIN attempt = {"at", "kind", "peer", "next"} /\ epoch \in Nat
  BY DEF ShapeInv
<1>1. UNCHANGED <<remembered, accepted, call>>
  BY DEF SessionReady, ApplyBitrate, Prepared, ghosts
<1>2. CASE SessionReady
  <2>1. PICK names \in SUBSET Names :
          attempt' = [attempt EXCEPT !.at = "building", !.peer = NewPeer(epoch, names)]
    BY <1>2, TransceiversAreDeclared DEF SessionReady
  <2>2. UNCHANGED raced /\ (peer' = peer \/ peer' = NoPeer) /\ attempt.at = "begun"
    BY <1>2 DEF SessionReady, Close, ghosts
  <2>3. epoch \in Nat \ {0}
    BY <2>2 DEF ShapeInv, Building, NoPeer
  <2>4. NewPeer(epoch, names).bounds = [s \in Slots |-> Default] /\ IsPeer(NewPeer(epoch, names))
    BY <2>3, NewPeerIs
  <2> HIDE DEF NewPeer
  <2>5. attempt'.at = "building" /\ attempt'.peer = NewPeer(epoch, names)
    BY <1>0, <2>1
  <2>6. \A s \in Held(attempt'.peer) : attempt'.peer.bounds[s] = Default
    BY <2>4, <2>5, HeldAreSlots
  <2>7. CASE peer' = NoPeer
    BY <1>1, <2>2, <2>5, <2>6, <2>7 DEF BoundInv
  <2>8. CASE peer' = peer
    BY <1>1, <2>2, <2>5, <2>6, <2>8 DEF BoundInv, Right, Applied, Bounding
  <2> QED
    BY <2>2, <2>7, <2>8
<1>3. CASE ApplyBitrate
  <2>1. /\ attempt' = [attempt EXCEPT !.at = "applied", !.peer = Rebound(@)] /\ attempt.at = "building"
        /\ UNCHANGED peer /\ raced' = [raced EXCEPT !.building = Bounding]
    BY <1>3 DEF ApplyBitrate
  <2>2. IsPeer(attempt.peer) /\ \A s \in Held(attempt.peer) : attempt.peer.bounds[s] = Default
    BY <2>1 DEF ShapeInv, IsNew, BoundInv
  <2>3. \A s \in Held(attempt.peer) : Rebound(attempt.peer).bounds[s] = Takes(Default, accepted[s])
    BY <2>2, ReboundIs DEF Held, BoundInv
  <2>4. Held(Rebound(attempt.peer)) = Held(attempt.peer)
    BY <2>2, ReboundIs DEF Held, PeerFields
  <2> HIDE DEF Rebound
  <2>5. attempt'.at = "applied" /\ attempt'.peer = Rebound(attempt.peer)
    BY <1>0, <2>1
  <2>6. DOMAIN raced' = {"live", "building"} /\ raced'.live = raced.live /\ raced'.building = Bounding
    BY <2>1 DEF BoundInv
  <2>7. \A s \in Held(attempt'.peer) : Right(attempt.peer, s)'
    BY <1>1, <2>3, <2>4, <2>5 DEF Right
  <2> QED
    BY <1>1, <2>1, <2>5, <2>6, <2>7 DEF BoundInv, Right, Applied, Bounding
<1>4. CASE Prepared
  <2>1. /\ peer' = attempt.peer /\ attempt.at = "applied" /\ attempt'.at = "prepared"
        /\ raced' = [raced EXCEPT !.live = raced.building \/ Bounding]
    BY <1>0, <1>4 DEF Prepared
  <2>2. DOMAIN raced' = {"live", "building"} /\ raced'.live = (raced.building \/ Bounding)
    BY <2>1 DEF BoundInv
  <2>3. ~raced'.live => ~Bounding' /\ \A s \in Held(peer') : Right(peer, s)'
    BY <1>1, <2>1, <2>2 DEF BoundInv, Right, Bounding
  <2> QED
    BY <1>1, <2>1, <2>2, <2>3 DEF BoundInv, Applied
<1> QED
  BY <1>2, <1>3, <1>4

(* A bound is asked for: of the live peer, or of a slot it does not have.   *)
LEMMA BoundAsked ==
  ASSUME ShapeInv, CallInv, BoundInv, NEW slot, NEW v, NEW targets, AsksBound(slot, v, targets),
         peer # NoPeer => \A t \in targets : t = peer.n \/ (t = 0 /\ slot \notin Held(peer))
  PROVE BoundInv'
<1>1. PICK target \in targets :
        call' = [call EXCEPT !["app"] = [op |-> "bitrate", at |-> "asked", name |-> slot,
                                         bound |-> BoundOf(v), target |-> target]]
  BY DEF AsksBound
<1>2. /\ call["app"] = NoCall /\ UNCHANGED <<attempt, peer, remembered, accepted>>
      /\ raced' = [raced EXCEPT !.building = @ \/ attempt.at = "applied"]
  BY DEF AsksBound
<1>3. call'["app"].at = "asked" /\ call'["app"].target = target /\ call'["app"].name = slot
  BY <1>1 DEF CallInv, Callers
<1>4. ~Bounding /\ ~Applied /\ ~Applied'
  BY <1>2, <1>3 DEF Bounding, Applied, NoCall
<1>5. DOMAIN raced' = {"live", "building"} /\ raced'.live = raced.live
        /\ raced'.building = (raced.building \/ attempt.at = "applied")
  BY <1>2 DEF BoundInv
<1>6. ASSUME peer' # NoPeer, ~raced'.live
      PROVE /\ \A s \in Held(peer') : Right(peer, s)' \/ (Applied' /\ s = call'["app"].name)
            /\ Bounding' => \/ call'["app"].target = peer'.n
                            \/ call'["app"].target = 0 /\ call'["app"].name \notin Held(peer')
            /\ Applied' /\ call'["app"].name \in Held(peer') =>
                 peer'.bounds[call'["app"].name] = Takes(Default, call'["app"].bound)
  BY <1>1, <1>2, <1>3, <1>4, <1>5, <1>6 DEF BoundInv, Right
<1>7. attempt'.at = "building" => \A s \in Held(attempt'.peer) : attempt'.peer.bounds[s] = Default
  BY <1>2 DEF BoundInv
<1> QED
  BY <1>2, <1>5, <1>6, <1>7 DEF BoundInv

(* The engine takes a bound, or refuses it; only then is it remembered.     *)
LEMMA BoundTaken ==
  ASSUME ShapeInv, CallInv, BoundInv, BitrateApplied PROVE BoundInv'
<1> DEFINE c == call["app"]
<1>1. Bounding /\ c.at = "asked" /\ ~Applied /\ UNCHANGED <<attempt, accepted, raced>>
  BY DEF BitrateApplied, Applied, ghosts
<1>2. DOMAIN call = Callers /\ DOMAIN c = {"op", "at", "name", "bound", "target"} /\ c.name \in Slots
  BY <1>1 DEF CallInv
<1>3. attempt.at = "applied" => raced.building
  BY <1>1 DEF BoundInv
<1>4. ASSUME peer # NoPeer, ~raced.live
      PROVE /\ \A s \in Held(peer) : Right(peer, s)
            /\ c.target = peer.n \/ (c.target = 0 /\ c.name \notin Held(peer))
  <2>1. /\ \A s \in Held(peer) : Right(peer, s) \/ (Applied /\ s = c.name)
        /\ c.target = peer.n \/ (c.target = 0 /\ c.name \notin Held(peer))
    BY <1>1, <1>4 DEF BoundInv
  <2> QED
    BY <1>1, <2>1
<1>5. CASE /\ c.target = 0 \/ c.bound \notin Refused
           /\ call' = [call EXCEPT !["app"] = [c EXCEPT !.at = "applied"]]
           /\ peer' = IF c.target # 0 /\ peer.n = c.target
                        THEN [peer EXCEPT !.bounds = [@ EXCEPT ![c.name] = c.bound]] ELSE peer
           /\ UNCHANGED remembered
  <2>1. call'["app"] = [c EXCEPT !.at = "applied"]
    BY <1>2, <1>5 DEF Callers
  <2>2. /\ call'["app"].op = "bitrate" /\ call'["app"].at = "applied" /\ call'["app"].name = c.name
        /\ call'["app"].bound = c.bound /\ call'["app"].target = c.target
    BY <1>1, <1>2, <2>1 DEF Bounding
  <2>3. Applied' /\ Bounding'
    BY <2>2 DEF Applied, Bounding
  <2>4. ASSUME peer' # NoPeer, ~raced'.live
        PROVE /\ \A s \in Held(peer') : Right(peer, s)' \/ (Applied' /\ s = call'["app"].name)
              /\ Bounding' => \/ call'["app"].target = peer'.n
                              \/ call'["app"].target = 0 /\ call'["app"].name \notin Held(peer')
              /\ Applied' /\ call'["app"].name \in Held(peer') =>
                   peer'.bounds[call'["app"].name] = Takes(Default, call'["app"].bound)
    <3>1. CASE c.target # 0 /\ peer.n = c.target
      <4>1. peer # NoPeer /\ IsPeer(peer)
        BY <3>1 DEF NoPeer, ShapeInv
      <4>2. /\ peer'.n = peer.n /\ peer'.tracks = peer.tracks /\ peer'.bounds[c.name] = c.bound
            /\ \A s \in Slots \ {c.name} : peer'.bounds[s] = peer.bounds[s]
        BY <1>2, <1>5, <3>1, <4>1 DEF IsPeer, PeerFields
      <4>3. Held(peer') = Held(peer) /\ Held(peer) \subseteq Slots
        BY <4>1, <4>2, HeldAreSlots DEF Held
      <4>4. \A s \in Held(peer) : Right(peer, s)
        BY <1>1, <1>4, <2>4, <4>1
      <4>5. \A s \in Held(peer) \ {c.name} : Right(peer, s)'
        BY <1>1, <4>2, <4>3, <4>4 DEF Right
      <4>6. c.bound = Takes(Default, c.bound)
        BY <1>5, <3>1 DEF Takes
      <4> QED
        BY <2>2, <2>3, <3>1, <4>2, <4>3, <4>5, <4>6
    <3>2. CASE ~(c.target # 0 /\ peer.n = c.target)
      <4>1. peer' = peer /\ peer # NoPeer /\ ~raced.live
        BY <1>1, <1>5, <2>4, <3>2
      <4>2. peer.n # 0
        BY <4>1 DEF ShapeInv, IsPeer
      <4>3. c.target = 0 /\ c.name \notin Held(peer) /\ \A s \in Held(peer) : Right(peer, s)
        BY <1>4, <3>2, <4>1, <4>2
      <4>4. \A s \in Held(peer') : Right(peer, s)'
        BY <1>1, <4>1, <4>3 DEF Right
      <4> QED
        BY <2>2, <4>1, <4>3, <4>4
    <3> QED
      BY <3>1, <3>2
  <2> HIDE DEF c
  <2> QED
    BY <1>1, <1>3, <1>5, <2>4 DEF BoundInv
<1>6. CASE call' = [call EXCEPT !["app"] = NoCall] /\ UNCHANGED <<remembered, peer>>
  <2>1. ~Bounding' /\ ~Applied'
    BY <1>2, <1>6 DEF Bounding, Applied, NoCall, Callers
  <2>2. peer' # NoPeer /\ ~raced'.live => \A s \in Held(peer') : Right(peer, s)'
    BY <1>1, <1>4, <1>6 DEF Right
  <2> QED
    BY <1>1, <1>3, <1>6, <2>1, <2>2 DEF BoundInv
<1> QED
  BY <1>5, <1>6 DEF BitrateApplied, Commit

(* What was applied is remembered, and the call answered.                   *)
LEMMA BoundRemembered ==
  ASSUME ShapeInv, CallInv, BoundInv, BitrateRemembered PROVE BoundInv'
<1> DEFINE c == call["app"]
<1>1. /\ Bounding /\ Applied /\ UNCHANGED <<attempt, peer, raced>>
      /\ remembered' = [remembered EXCEPT ![c.name] = c.bound]
      /\ accepted' = [accepted EXCEPT ![c.name] = c.bound]
      /\ call' = [call EXCEPT !["app"] = NoCall]
  BY DEF BitrateRemembered, Applied, Commit
<1>2. DOMAIN call = Callers /\ c.name \in Slots
  BY <1>1 DEF CallInv
<1>3. ~Bounding' /\ ~Applied'
  BY <1>1, <1>2 DEF Bounding, Applied, NoCall, Callers
<1>4. /\ DOMAIN accepted' = Slots /\ accepted'[c.name] = c.bound /\ remembered' = accepted'
      /\ \A s \in Slots \ {c.name} : accepted'[s] = accepted[s]
  BY <1>1, <1>2 DEF BoundInv
<1>5. attempt.at = "applied" => raced.building
  BY <1>1 DEF BoundInv
<1>6. ASSUME peer # NoPeer, ~raced.live, NEW s \in Held(peer) PROVE Right(peer, s)'
  <2>1. s \in Slots
    BY <1>6, HeldAreSlots DEF ShapeInv
  <2>2. CASE s = c.name
    BY <1>1, <1>4, <1>6, <2>2 DEF BoundInv, Right
  <2>3. CASE s # c.name
    BY <1>1, <1>4, <1>6, <2>1, <2>3 DEF BoundInv, Right
  <2> QED
    BY <2>2, <2>3
<1> HIDE DEF c
<1> QED
  BY <1>1, <1>3, <1>4, <1>5, <1>6 DEF BoundInv

(* A step that is none of these changes no bound and no call about one.     *)
LEMMA BoundLeft ==
  ASSUME CallInv, [Next]_vars
  PROVE \/ SessionReady \/ ApplyBitrate \/ Prepared \/ BitrateApplied \/ BitrateRemembered
        \/ \E v \in Asked : SetBitrate(v)
        \/ \E v \in Asked, name \in BitrateNames : SetTrackBitrate(name, v)
        \/ /\ UNCHANGED <<remembered, accepted, raced>>
           /\ (Bounding' <=> Bounding) /\ (Bounding => call'["app"] = call["app"])
<1> USE DEF ghosts
<1>0. DOMAIN call = Callers
  BY DEF CallInv
<1>1. CASE \/ Connect \/ Reconnect \/ Recycled \/ NoSessionLeft
           \/ RemoteDescriptionSet \/ GateOpens \/ GatePassed \/ SetReady
           \/ AttemptReturns \/ AttemptFails \/ AttemptTearsDown \/ AttemptEnds
           \/ EngineTakesAnswer \/ EngineRefusesAnswer
           \/ \E a \in {"plain", "chunked"} : Answered(a)
  BY <1>1 DEF Connect, Reconnect, Recycled, NoSessionLeft, Bounding,
              RemoteDescriptionSet, GateOpens, GatePassed, SetReady, AttemptReturns, AttemptFails,
              AttemptTearsDown, AttemptEnds, EngineTakesAnswer, EngineRefusesAnswer, Answered
<1>2. CASE \/ \E keep \in BOOLEAN : TeardownAsked(keep)
           \/ \E w \in {"own", "other"} : TeardownClears(w)
           \/ ChannelsOpen \/ \E c \in Channels : BrokenFrame(c)
           \/ \E k \in 1..MaxConnects : LoopStep(k)
           \/ UNCHANGED vars
  BY <1>2 DEF TeardownAsked, TeardownClears, ChannelsOpen, BrokenFrame, LoopStep, LoopStarts,
              LoopPings, LoopWakes, Bounding, vars
<1>3. ASSUME NEW who \in Callers, NEW name, NEW on, PauseAsked(who, name, on)
      PROVE (Bounding' <=> Bounding) /\ (Bounding => call'["app"] = call["app"])
  <2>1. call[who] = NoCall
    BY <1>3 DEF PauseAsked
  <2>2. UNCHANGED call \/ \E op \in {"pause", "resume"} :
             call' = [call EXCEPT ![who] = [op |-> op, name |-> name, at |-> "asked"]]
    BY <1>3 DEF PauseAsked
  <2> QED
    BY <1>0, <2>1, <2>2 DEF Bounding, Callers, NoCall
<1>4. CASE AutoResume
  <2>1. /\ UNCHANGED <<remembered, accepted, raced>>
        /\ (\E name : PauseAsked("auto", name, TRUE)) \/ UNCHANGED call
    BY <1>4 DEF AutoResume
  <2> QED
    BY <1>3, <2>1 DEF Callers, Bounding
<1>5. CASE \E name \in PauseNames, on \in BOOLEAN : AppAsks(name, on)
  <2>1. UNCHANGED <<remembered, accepted, raced>> /\ \E name, on : PauseAsked("app", name, on)
    BY <1>5 DEF AppAsks
  <2> QED
    BY <1>3, <2>1 DEF Callers
<1>6. ASSUME NEW who \in Callers, PauseSent(who) \/ PauseRecorded(who)
      PROVE /\ UNCHANGED <<remembered, accepted, raced>>
            /\ (Bounding' <=> Bounding) /\ (Bounding => call'["app"] = call["app"])
  <2>1. UNCHANGED <<remembered, accepted, raced>> /\ call[who].op \in {"pause", "resume"}
    BY <1>6 DEF PauseSent, PauseRecorded, Pausing
  <2>2. PICK c : call' = [call EXCEPT ![who] = c] /\ (c = NoCall \/ c = [call[who] EXCEPT !.at = "sent"])
    BY <1>6 DEF PauseSent, PauseRecorded
  <2>3. DOMAIN call[who] = {"op", "name", "at"}
    BY <2>1 DEF CallInv, Pausing
  <2>4. c.op # "bitrate"
    BY <2>1, <2>2, <2>3 DEF NoCall
  <2> QED
    BY <1>0, <2>1, <2>2, <2>4 DEF Bounding, Callers
<1>7. CASE \E w \in {"own", "other"} : TeardownCloses(w)
  BY <1>0, <1>7 DEF TeardownCloses, FailAll, Bounding, NoCall, Callers
<1>8. ASSUME NEW c, call' = [call EXCEPT !["app"] = c], c.op # "bitrate", call["app"].op # "bitrate"
      PROVE (Bounding' <=> Bounding) /\ (Bounding => call'["app"] = call["app"])
  BY <1>0, <1>8 DEF Bounding, Callers
<1>9. CASE \/ \E name \in PublishNames : Publish(name) \/ Unpublish(name)
           \/ PublishAccepted \/ PublishFails \/ SenderReplaced
  <2>1. UNCHANGED <<remembered, accepted, raced>> /\ call["app"].op # "bitrate"
    BY <1>9 DEF Publish, Unpublish, PublishAccepted, PublishFails, SenderReplaced, NoCall
  <2>2. \A name : Attach(name).op # "bitrate"
    BY DEF Attach, NoCall
  <2>3. \A name : Attach(name) # NoCall => [Attach(name) EXCEPT !.op = "unpublish"].op = "unpublish"
    BY DEF Attach
  <2>4. NoCall.op = "none"
    BY DEF NoCall
  <2> HIDE DEF Attach, NoCall
  <2>5. \E c : call' = [call EXCEPT !["app"] = c] /\ c.op # "bitrate"
    <3>1. CASE \E name \in PublishNames : Publish(name)
      <4>1. PICK name : call' = [call EXCEPT !["app"] = [op |-> "publish", at |-> "asked", name |-> name, n |-> peer.n]]
        BY <3>1 DEF Publish
      <4>2. [op |-> "publish", at |-> "asked", name |-> name, n |-> peer.n].op # "bitrate"
        OBVIOUS
      <4> QED
        BY <4>1, <4>2
    <3>2. CASE \E name \in PublishNames : Unpublish(name)
      BY <2>3, <2>4, <3>2 DEF Unpublish
    <3>3. CASE PublishAccepted
      <4>1. call' = [call EXCEPT !["app"] = Attach(call["app"].name)]
        BY <3>3 DEF PublishAccepted
      <4> QED
        BY <2>2, <4>1
    <3>4. CASE PublishFails \/ SenderReplaced
      BY <2>4, <3>4 DEF PublishFails, SenderReplaced
    <3> QED
      BY <1>9, <3>1, <3>2, <3>3, <3>4
  <2> QED
    BY <1>8, <2>1, <2>5
<1> QED
  BY NextIs, <1>1, <1>2, <1>4, <1>5, <1>6, <1>7, <1>9

(* Every step keeps the bounds.                                             *)
LEMMA BoundStep == ShapeInv /\ StageInv /\ CallInv /\ BoundInv /\ [Next]_vars => BoundInv'
<1> SUFFICES ASSUME ShapeInv, StageInv, CallInv, BoundInv, [Next]_vars PROVE BoundInv'
  OBVIOUS
<1>1. ASSUME NEW v, SetBitrate(v) PROVE BoundInv'
  BY <1>1, BoundAsked DEF SetBitrate
<1>2. ASSUME NEW v, NEW name \in BitrateNames, SetTrackBitrate(name, v) PROVE BoundInv'
  <2>1. peer # NoPeer => \A t \in TrackTarget(name) : t = peer.n \/ (t = 0 /\ name \notin Held(peer))
    BY SlotsAssumption DEF TrackTarget, Held
  <2> QED
    BY <1>2, <2>1, BoundAsked DEF SetTrackBitrate
<1> QED
  BY <1>1, <1>2, BoundLeft, BoundKept, BoundBuilt, BoundTaken, BoundRemembered

(* A peer runs on the bounds of the last bitrate call that was answered     *)
(* with success, on every connection made after it, unless a call overlaps  *)
(* prepare(): for every list of tracks, every bound asked for or refused,   *)
(* and any number of connections and teardowns.                             *)
THEOREM BoundsKept == Spec => []BoundsSurvive
<1>1. Init => BoundInv
  BY DEF Init, BoundInv
<1>2. BoundInv => BoundsSurvive
  BY DEF BoundInv, BoundsSurvive, Held, Right, Applied
<1> QED
  BY <1>1, <1>2, ShapeInit, StageInit, CallInit, ShapeStep, StageStep, CallStepKeeps, BoundStep,
     PTL DEF Spec
==============================================================================
