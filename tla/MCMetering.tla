----------------------------- MODULE MCMetering -----------------------------
(* Metering for TLC: two layers of a received video track and a sent audio one; *)
(* a page that passes a good reading, one the wire trims, one it refuses.       *)
EXTENDS Metering

Listed(n, k, m, c, l) ==
    [ssrc |-> n, kind |-> k, mid |-> m, codec |-> c, lost |-> l, name |-> n + 1]
MCInbound == <<Listed(1, "video", "0", "vp9", -1), Listed(2, "video", "0", "vp9", 0)>>
MCOutbound == <<Listed(3, "audio", "1", "opus", 0)>>
MCTracks == {[mid |-> "0", direction |-> "recvonly", kind |-> "video"],
             [mid |-> "1", direction |-> "sendonly", kind |-> "audio"]}

PageStage(f, t) == [name |-> "decode", frames |-> f, ms |-> t]
PageReading(k, c) ==
    [track |-> k, sent |-> FALSE, kind |-> k, codec |-> c, name |-> 3,
     stages |-> {PageStage(1, 1), PageStage(0, 1), PageStage(1, -1)}]
MCPageBatches ==
    {{PageReading("video", "vp9")},
     {PageReading("video", "vp8"), PageReading("audio", "opus")},
     {PageReading("video", "vp9"), PageReading("audio", "flac")}}
=============================================================================
