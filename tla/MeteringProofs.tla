--------------------------- MODULE MeteringProofs ---------------------------
(***************************************************************************)
(* Theorems about Metering, for every list of streams and tracks, any      *)
(* number of connections and of events in them, and every order of reads,  *)
(* samples, batches and teardowns.                                         *)
(***************************************************************************)
EXTENDS Metering, FiniteSetTheorems, SequenceTheorems, TLAPS

(***************************************************************************)
(* Reports: what the engine counts, and what a reading of it holds.         *)
(***************************************************************************)
PairRecord ==
    [priority : Nat, nominated : {TRUE}, state : {"succeeded", "failed"}, bytes : Nat]

(* One pair, or the one an ICE restart left behind and the one it made.     *)
IsPairs(ps) ==
    /\ ps \in Seq(PairRecord) /\ Len(ps) \in {1, 2}
    /\ ps[Len(ps)].state = "succeeded"
    /\ Len(ps) = 2 => ps[1].state = "failed"

Live(e) == e.pairs[Len(e.pairs)]

ReportFields == {"conn", "frames", "known", "timing", "far", "rtt", "pairs", "sent", "stall"}

(* A far end that was never heard is read as zero.                          *)
IsFar(far) ==
    /\ far.rtt \in Nat
    /\ far.rtt > 0 \/ far.lost # 0 => far.heard

IsReport(e) ==
    /\ DOMAIN e = ReportFields
    /\ e.conn \in Nat
    /\ e.frames \in [Numbers -> Nat]
    /\ e.timing.id \in Nat
    /\ IsFar(e.far)
    /\ IsPairs(e.pairs)
    /\ e.sent \in Nat /\ e.stall \in Nat

(* The streams are numbered in the order they are listed.                   *)
LEMMA NumbersAre == Streams \in Seq(Stream) /\ Len(Inbound) \in Nat /\ Numbers = 1..Len(Streams)
  BY StreamsAssumption DEF Streams, Numbers

(* Of a report's pairs, the last one alone is live.                         *)
LEMMA LiveIs ==
  ASSUME NEW ps, IsPairs(ps)
  PROVE LivePair(ps) = {Len(ps)} /\ Min(LivePair(ps)) = Len(ps) /\ ps[Len(ps)] \in PairRecord
<1>1. LivePair(ps) = {Len(ps)}
  <2>1. DOMAIN ps = 1..Len(ps) /\ Len(ps) \in {1, 2} /\ \A k \in 1..Len(ps) : ps[k] \in PairRecord
    BY DEF IsPairs
  <2>2. \A q \in PairRecord : q.nominated
    BY DEF PairRecord
  <2>3. \A k \in 1..Len(ps) : ps[k].state = "succeeded" <=> k = Len(ps)
    <3>1. CASE Len(ps) = 1
      BY <3>1 DEF IsPairs
    <3>2. CASE Len(ps) = 2
      <4>1. ps[1].state = "failed" /\ ps[2].state = "succeeded"
        BY <3>2 DEF IsPairs
      <4>2. \A k \in 1..2 : k = 1 \/ k = 2
        OBVIOUS
      <4> QED
        BY <3>2, <4>1, <4>2
    <3> QED
      BY <2>1, <3>1, <3>2
  <2>4. \A k \in DOMAIN ps : ps[k].nominated
    BY <2>1, <2>2
  <2>5. LivePair(ps) = {k \in 1..Len(ps) : k = Len(ps)}
    BY <2>1, <2>3, <2>4, Zenon DEF LivePair
  <2> QED
    BY <2>1, <2>5
<1>2. Min({Len(ps)}) = Len(ps)
  BY DEF IsPairs, Min
<1>3. ps[Len(ps)] \in PairRecord
  BY DEF IsPairs
<1> QED
  BY <1>1, <1>2, <1>3

(* A report is something.                                                   *)
LEMMA ReportIs == \A e : IsReport(e) => e # None
<1>1. DOMAIN None = {"none"}
  BY DEF None
<1>2. "conn" \in ReportFields /\ "conn" \notin {"none"}
  BY DEF ReportFields
<1> QED
  BY <1>1, <1>2 DEF IsReport

(* A connection that just came up has counted nothing.                      *)
LEMMA FreshIs ==
  ASSUME NEW n \in Nat, NEW p \in Nat
  PROVE /\ IsReport(Fresh(n, p)) /\ Fresh(n, p).conn = n /\ Fresh(n, p).timing.id = 0
        /\ Fresh(n, p).sent = 0 /\ Live(Fresh(n, p)).bytes = 0
<1> DEFINE e == Fresh(n, p)
           ps == <<Pair(p, "succeeded", 0)>>
<1>1. Pair(p, "succeeded", 0) \in PairRecord /\ Pair(p, "succeeded", 0).bytes = 0
        /\ Pair(p, "succeeded", 0).state = "succeeded"
  BY DEF Pair, PairRecord
<1>2. ps \in Seq(PairRecord) /\ Len(ps) = 1 /\ ps[1] = Pair(p, "succeeded", 0)
  BY <1>1
<1>3. IsPairs(ps)
  BY <1>1, <1>2 DEF IsPairs
<1> HIDE DEF ps
<1>4. /\ DOMAIN e = ReportFields /\ e.conn = n /\ e.frames = [i \in Numbers |-> 0]
      /\ e.timing.id = 0 /\ e.far = [rtt |-> 0, lost |-> 0, heard |-> FALSE] /\ e.pairs = ps
      /\ e.sent = 0 /\ e.stall = 0
  BY DEF Fresh, ReportFields, ps
<1> HIDE DEF e
<1>5. IsFar(e.far)
  BY <1>4 DEF IsFar
<1>6. IsReport(e)
  BY <1>3, <1>4, <1>5 DEF IsReport
<1>7. Live(e).bytes = 0
  BY <1>1, <1>2, <1>4 DEF Live
<1> QED
  BY <1>4, <1>6, <1>7 DEF e

(* The steps of Next, by name.                                              *)
LEMMA NextIs ==
  ASSUME [Next]_vars
  PROVE \/ \E i \in Numbers : Frame(i)
        \/ \E i \in Numbers : Restarted(i)
        \/ TimingFrame \/ Message \/ FarReport \/ IceRestart \/ Tick
        \/ \E c \in Callers : ReadStats(c)
        \/ \E c \in Callers : Sample(c)
        \/ ReadTotals \/ ReadReport \/ ReadFails \/ SkipsBatch
        \/ \E ok \in BOOLEAN : SendBatch(ok)
        \/ \E batch \in PageBatches : PageSends(batch)
        \/ Teardown \/ Connect
        \/ UNCHANGED vars
  BY Zenon DEF Next, Engine, Sampling, Reporting

(* The engine counts on: within a connection nothing it counted goes back,  *)
(* unless it is a stream that started again.                                *)
Grows ==
    /\ engine'.conn = engine.conn
    /\ engine.timing.id <= engine'.timing.id
    /\ engine.sent <= engine'.sent
    /\ skipped => skipped'
    /\ ~skipped' => \A i \in Numbers : engine.frames[i] <= engine'.frames[i]

(* The pair it counts on is the one it was, or another after a restart.     *)
Carried ==
    \/ /\ Len(engine'.pairs) = Len(engine.pairs)
       /\ Live(engine').priority = Live(engine).priority
       /\ Live(engine).bytes <= Live(engine').bytes
       /\ UNCHANGED rated \/ \E c \in Callers : Sample(c)
    \/ /\ Len(engine.pairs) = 1 /\ Len(engine'.pairs) = 2
       /\ Live(engine').priority = Live(engine).priority + 1
       /\ rated' = 0 /\ UNCHANGED <<raw, previous, shown>>

(* A step that only changes one of the counters.                            *)
LEMMA CounterStep ==
  ASSUME IsReport(engine), NEW f \in {"timing", "far", "rtt", "sent", "stall"}, NEW x,
         engine' = [engine EXCEPT ![f] = x],
         f = "timing" => x.id \in Nat /\ engine.timing.id <= x.id,
         f = "far" => IsFar(x),
         f \in {"sent", "stall"} => x \in Nat,
         f = "sent" => engine.sent <= x,
         UNCHANGED <<skipped, rated>>
  PROVE IsReport(engine') /\ Grows /\ Carried
<1>1. DOMAIN engine' = ReportFields /\ engine'[f] = x /\ \A g \in ReportFields \ {f} : engine'[g] = engine[g]
  BY DEF IsReport, ReportFields
<1>2. /\ engine'.conn = engine.conn /\ engine'.frames = engine.frames /\ engine'.pairs = engine.pairs
      /\ engine'.timing = (IF f = "timing" THEN x ELSE engine.timing)
      /\ engine'.far = (IF f = "far" THEN x ELSE engine.far)
      /\ engine'.sent = (IF f = "sent" THEN x ELSE engine.sent)
      /\ engine'.stall = (IF f = "stall" THEN x ELSE engine.stall)
  BY <1>1 DEF ReportFields
<1>3. IsReport(engine')
  BY <1>1, <1>2 DEF IsReport
<1>4. Grows
  BY <1>2 DEF Grows, IsReport
<1>5. Live(engine') = Live(engine) /\ Live(engine) \in PairRecord
  BY <1>2, LiveIs DEF Live, IsReport
<1>6. Carried
  BY <1>2, <1>5 DEF Carried, PairRecord
<1> QED
  BY <1>3, <1>4, <1>6

(* One more byte of a pair.                                                 *)
LEMMA OneMore ==
  ASSUME NEW q \in PairRecord, NEW r, r = [q EXCEPT !.bytes = @ + 1]
  PROVE r \in PairRecord /\ r.state = q.state /\ r.priority = q.priority /\ r.bytes = q.bytes + 1 /\ q.bytes \in Nat
<1>1. /\ DOMAIN q = {"priority", "nominated", "state", "bytes"} /\ q.bytes \in Nat
      /\ q.priority \in Nat /\ q.nominated \in {TRUE} /\ q.state \in {"succeeded", "failed"}
  BY DEF PairRecord
<1>2. /\ DOMAIN r = {"priority", "nominated", "state", "bytes"}
      /\ r.state = q.state /\ r.priority = q.priority /\ r.bytes = q.bytes + 1 /\ r.nominated = q.nominated
  BY <1>1
<1>3. r = [priority |-> r.priority, nominated |-> r.nominated, state |-> r.state, bytes |-> r.bytes]
  BY <1>2
<1>4. \A a \in Nat, b \in {TRUE}, c \in {"succeeded", "failed"}, d \in Nat :
         [priority |-> a, nominated |-> b, state |-> c, bytes |-> d] \in PairRecord
  BY DEF PairRecord
<1>5. r.priority \in Nat /\ r.state \in {"succeeded", "failed"} /\ r.bytes \in Nat
  BY <1>1, <1>2
<1>6. r.nominated \in {TRUE}
  BY <1>1, <1>2, Zenon
<1>7. [priority |-> r.priority, nominated |-> r.nominated, state |-> r.state, bytes |-> r.bytes] \in PairRecord
  BY <1>4, <1>5, <1>6, Zenon
<1>8. r \in PairRecord
  BY <1>3, <1>7
<1> QED
  BY <1>1, <1>2, <1>8

(* A frame is one more byte of the live pair.                               *)
LEMMA FrameStep ==
  ASSUME IsReport(engine), NEW i \in Numbers, Frame(i) PROVE IsReport(engine') /\ Grows /\ Carried
<1> DEFINE ps == engine.pairs
           n == Len(ps)
           more == [ps[n] EXCEPT !.bytes = @ + 1]
           qs == [ps EXCEPT ![n] = more]
<1>1. Min(LivePair(ps)) = n /\ ps[n] \in PairRecord /\ IsPairs(ps)
  BY LiveIs DEF IsReport
<1>2. Carries(engine) = qs
  BY <1>1 DEF Carries
<1>3. more \in PairRecord /\ more.state = ps[n].state /\ more.priority = ps[n].priority
        /\ more.bytes = ps[n].bytes + 1 /\ ps[n].bytes \in Nat
  BY <1>1, OneMore
<1> HIDE DEF more
<1>4. qs \in Seq(PairRecord) /\ Len(qs) = n /\ qs[n] = more
        /\ \A k \in (1..n) \ {n} : qs[k] = ps[k]
  <2>1. ps \in Seq(PairRecord) /\ n \in {1, 2}
    BY <1>1 DEF IsPairs
  <2>2. \A m \in {1, 2} : m \in 1..m
    OBVIOUS
  <2>3. n \in 1..Len(ps) /\ more \in PairRecord
    BY <1>3, <2>1, <2>2
  <2> HIDE DEF ps, n
  <2>4. qs \in Seq(PairRecord) /\ Len(qs) = Len(ps)
          /\ \A j \in 1..Len(ps) : qs[j] = IF j = n THEN more ELSE ps[j]
    BY <2>1, <2>3, ExceptSeq
  <2> QED
    BY <2>3, <2>4 DEF n
<1>5. IsPairs(qs)
  BY <1>1, <1>3, <1>4 DEF IsPairs
<1>6. engine' = [engine EXCEPT !.frames = [engine.frames EXCEPT ![i] = engine.frames[i] + 1],
                               !.known = engine.known \cup {i}, !.pairs = Carries(engine)]
  BY DEF Frame
<1>7. UNCHANGED <<skipped, rated>>
  BY DEF Frame, sampler
<1> HIDE DEF qs, n, ps
<1>8. /\ DOMAIN engine' = ReportFields /\ engine'.pairs = Carries(engine)
      /\ engine'.frames = [engine.frames EXCEPT ![i] = engine.frames[i] + 1]
      /\ engine'.conn = engine.conn /\ engine'.timing = engine.timing /\ engine'.far = engine.far
      /\ engine'.sent = engine.sent /\ engine'.stall = engine.stall
  BY <1>6 DEF IsReport, ReportFields
<1>9. engine'.frames \in [Numbers -> Nat] /\ \A k \in Numbers : engine.frames[k] <= engine'.frames[k]
  BY <1>8 DEF IsReport
<1>10. IsReport(engine')
  BY <1>2, <1>5, <1>8, <1>9 DEF IsReport
<1>11. Grows
  BY <1>7, <1>8, <1>9 DEF Grows, IsReport
<1>12. Live(engine) = ps[n] /\ Live(engine') = qs[n] /\ Len(engine'.pairs) = Len(engine.pairs)
  BY <1>2, <1>4, <1>8 DEF Live, ps, n
<1>13. Carried
  BY <1>3, <1>4, <1>7, <1>12 DEF Carried
<1> QED
  BY <1>10, <1>11, <1>13

(* The stream that starts again has counted nothing.                        *)
LEMMA RestartedStep ==
  ASSUME IsReport(engine), NEW i \in Numbers, Restarted(i) PROVE IsReport(engine') /\ Grows /\ Carried
<1>1. engine' = [engine EXCEPT !.frames = [engine.frames EXCEPT ![i] = 0]] /\ skipped' = TRUE /\ rated' = rated
  BY DEF Restarted, sampler
<1>2. /\ DOMAIN engine' = ReportFields /\ engine'.frames = [engine.frames EXCEPT ![i] = 0]
      /\ engine'.conn = engine.conn /\ engine'.timing = engine.timing /\ engine'.far = engine.far
      /\ engine'.sent = engine.sent /\ engine'.stall = engine.stall /\ engine'.pairs = engine.pairs
  BY <1>1 DEF IsReport, ReportFields
<1>3. engine'.frames \in [Numbers -> Nat]
  BY <1>2 DEF IsReport
<1>4. IsReport(engine')
  BY <1>2, <1>3 DEF IsReport
<1>5. Grows
  BY <1>1, <1>2 DEF Grows, IsReport
<1>6. Live(engine') = Live(engine) /\ Live(engine) \in PairRecord
  BY <1>2, LiveIs DEF Live, IsReport
<1>7. Carried
  BY <1>1, <1>2, <1>6 DEF Carried, PairRecord
<1> QED
  BY <1>4, <1>5, <1>7

(* An ICE restart leaves the old pair failed and counts on another.         *)
LEMMA RestartStep ==
  ASSUME IsReport(engine), IceRestart PROVE IsReport(engine') /\ Grows /\ Carried
<1> DEFINE q == engine.pairs[1]
           old == [q EXCEPT !.state = "failed"]
           new == Pair(q.priority + 1, "succeeded", 0)
           qs == <<old, new>>
<1>1. Len(engine.pairs) = 1 /\ engine.pairs[1] \in PairRecord /\ Live(engine) = q
  BY LiveIs DEF IceRestart, IsReport, IsPairs, Live
<1>2. q.priority \in Nat /\ q.nominated \in {TRUE} /\ q.bytes \in Nat /\ DOMAIN q = {"priority", "nominated", "state", "bytes"}
  BY <1>1 DEF PairRecord
<1>3. \A a \in Nat, b \in {TRUE}, c \in {"succeeded", "failed"}, d \in Nat :
         [priority |-> a, nominated |-> b, state |-> c, bytes |-> d] \in PairRecord
  BY DEF PairRecord
<1>4. old = [priority |-> q.priority, nominated |-> q.nominated, state |-> "failed", bytes |-> q.bytes]
  BY <1>2
<1>5. old \in PairRecord /\ old.state = "failed"
  <2>1. [priority |-> q.priority, nominated |-> q.nominated, state |-> "failed", bytes |-> q.bytes] \in PairRecord
    BY <1>2, <1>3, Zenon
  <2> QED
    BY <1>4, <2>1
<1>6. new \in PairRecord /\ new.state = "succeeded" /\ new.priority = q.priority + 1
  BY <1>2 DEF Pair, PairRecord
<1> HIDE DEF old, new
<1>7. qs \in Seq(PairRecord) /\ Len(qs) = 2 /\ qs[1] = old /\ qs[2] = new
  BY <1>5, <1>6
<1>8. IsPairs(qs)
  BY <1>5, <1>6, <1>7 DEF IsPairs
<1>9. engine' = [engine EXCEPT !.pairs = qs] /\ rated' = 0 /\ UNCHANGED <<raw, previous, shown, skipped>>
  BY DEF IceRestart, old, new
<1> HIDE DEF qs
<1>10. /\ DOMAIN engine' = ReportFields /\ engine'.frames = engine.frames
       /\ engine'.conn = engine.conn /\ engine'.timing = engine.timing /\ engine'.far = engine.far
       /\ engine'.sent = engine.sent /\ engine'.stall = engine.stall /\ engine'.pairs = qs
  BY <1>9 DEF IsReport, ReportFields
<1>11. IsReport(engine')
  BY <1>8, <1>10 DEF IsReport
<1>12. Grows
  BY <1>9, <1>10 DEF Grows, IsReport
<1>13. Live(engine') = new /\ Len(engine'.pairs) = 2
  BY <1>7, <1>10 DEF Live
<1>14. Carried
  BY <1>1, <1>6, <1>9, <1>13 DEF Carried
<1> QED
  BY <1>11, <1>12, <1>14

(* Every step leaves a report, and unless it is another connection's the    *)
(* counters of this one only grow.                                          *)
LEMMA EngineMoves ==
  ASSUME IsReport(engine), [Next]_vars
  PROVE IsReport(engine') /\ (Connect \/ (Grows /\ Carried))
<1>1. ASSUME NEW i \in Numbers, Frame(i) PROVE IsReport(engine') /\ Grows /\ Carried
  BY <1>1, FrameStep
<1>2. ASSUME NEW i \in Numbers, Restarted(i) PROVE IsReport(engine') /\ Grows /\ Carried
  BY <1>2, RestartedStep
<1>3. CASE TimingFrame
  <2>1. PICK s \in Stamps : engine' = [engine EXCEPT !.timing = [id |-> engine.timing.id + 1, stamps |-> s]]
    BY <1>3 DEF TimingFrame
  <2> DEFINE x == [id |-> engine.timing.id + 1, stamps |-> s]
  <2>2. x.id \in Nat /\ engine.timing.id <= x.id
    BY DEF IsReport
  <2>3. engine' = [engine EXCEPT !["timing"] = x] /\ UNCHANGED <<skipped, rated>>
    BY <1>3, <2>1 DEF TimingFrame, sampler
  <2> HIDE DEF x
  <2> QED
    BY <2>2, <2>3, CounterStep
<1>4. CASE Message
  <2>1. UNCHANGED <<skipped, rated>> /\ engine.sent \in Nat /\ engine.stall \in Nat
    BY <1>4 DEF Message, sampler, IsReport
  <2>2. \/ engine' = [engine EXCEPT !["sent"] = engine.sent + 1]
        \/ engine' = [engine EXCEPT !["stall"] = engine.stall + 1]
    BY <1>4 DEF Message
  <2> QED
    BY <2>1, <2>2, CounterStep
<1>5. CASE FarReport
  <2>1. UNCHANGED <<skipped, rated>>
    BY <1>5 DEF FarReport, sampler
  <2>2. CASE engine' = [engine EXCEPT !["rtt"] = 1]
    BY <2>1, <2>2, CounterStep
  <2>3. ASSUME NEW t \in 0..1, NEW l \in 0..1,
               engine' = [engine EXCEPT !["far"] = [rtt |-> t, lost |-> l, heard |-> TRUE]]
        PROVE IsReport(engine') /\ Grows /\ Carried
    <3> DEFINE x == [rtt |-> t, lost |-> l, heard |-> TRUE]
    <3>1. IsFar(x)
      BY DEF IsFar
    <3>2. engine' = [engine EXCEPT !["far"] = x]
      BY <2>3
    <3> HIDE DEF x
    <3> QED
      BY <2>1, <3>1, <3>2, CounterStep
  <2> QED
    BY <1>5, <2>2, <2>3 DEF FarReport
<1>6. CASE IceRestart
  BY <1>6, RestartStep
<1>7. CASE Connect
  <2>1. PICK p \in 1..2 : engine' = Fresh(engine.conn + 1, p)
    BY <1>7 DEF Connect
  <2>2. engine.conn + 1 \in Nat /\ p \in Nat
    BY DEF IsReport
  <2> QED
    BY <1>7, <2>1, <2>2, FreshIs
<1>8. ASSUME UNCHANGED <<engine, skipped>>, UNCHANGED rated \/ \E c \in Callers : Sample(c)
      PROVE IsReport(engine') /\ Grows /\ Carried
  <2>1. Live(engine) \in PairRecord
    BY LiveIs DEF Live, IsReport
  <2>2. Grows
    BY <1>8 DEF Grows, IsReport
  <2>3. Live(engine') = Live(engine) /\ engine'.pairs = engine.pairs /\ Live(engine).bytes \in Nat
    BY <1>8, <2>1 DEF Live, PairRecord
  <2>4. Live(engine).bytes <= Live(engine').bytes
    BY <2>3
  <2>5. Carried
    BY <1>8, <2>3, <2>4, Zenon DEF Carried
  <2> QED
    BY <1>8, <2>2, <2>5
<1>9. ASSUME NEW c \in Callers, ReadStats(c) PROVE UNCHANGED <<engine, skipped, rated>>
  BY <1>9 DEF ReadStats
<1>10. ASSUME NEW c \in Callers, Sample(c) PROVE UNCHANGED <<engine, skipped>>
  BY <1>10 DEF Sample
<1>11. ASSUME NEW ok \in BOOLEAN, SendBatch(ok) PROVE UNCHANGED <<engine, skipped, rated>>
  BY <1>11 DEF SendBatch, sampler
<1>12. ASSUME NEW b \in PageBatches, PageSends(b) PROVE UNCHANGED <<engine, skipped, rated>>
  BY <1>12 DEF PageSends, sampler
<1>13. ASSUME Tick \/ ReadTotals \/ ReadReport \/ ReadFails \/ SkipsBatch \/ Teardown \/ UNCHANGED vars
       PROVE UNCHANGED <<engine, skipped, rated>>
  BY <1>13 DEF Tick, ReadTotals, ReadReport, ReadFails, SkipsBatch, Teardown, vars, sampler
<1> QED
  BY <1>1, <1>2, <1>3, <1>4, <1>5, <1>6, <1>7, <1>8, <1>9, <1>10, <1>11, <1>12, <1>13, NextIs

(***************************************************************************)
(* What goes out.                                                          *)
(***************************************************************************)

(* The readings in flight and the baselines are numbers.                    *)
ReadInv ==
    /\ IsReport(engine)
    /\ reading # None => IsReport(reading)
    /\ chunked # None => chunked.sent \in Nat /\ chunked.stall \in Nat
    /\ \A i \in Numbers : reporter.totals[i] # None => reporter.totals[i].n \in Nat

(* A mapped report holds the totals that were read before it.               *)
LEMMA MapStatsIs ==
  ASSUME IsReport(engine), chunked.sent \in Nat, chunked.stall \in Nat
  PROVE /\ IsReport(MapStats(engine))
        /\ MapStats(engine).sent = chunked.sent /\ MapStats(engine).stall = chunked.stall
        /\ MapStats(engine).timing = engine.timing /\ MapStats(engine).frames = engine.frames
<1> DEFINE e == MapStats(engine)
<1>1. /\ DOMAIN e = ReportFields /\ e.conn = engine.conn /\ e.frames = engine.frames
      /\ e.timing = engine.timing /\ e.far = engine.far /\ e.pairs = engine.pairs
      /\ e.sent = chunked.sent /\ e.stall = chunked.stall
  BY DEF MapStats, IsReport, ReportFields
<1> HIDE DEF e
<1>2. IsReport(e)
  BY <1>1 DEF IsReport
<1> QED
  BY <1>1, <1>2 DEF e

(* The baseline a batch leaves is its own reading, for the streams it shows.*)
LEMMA CommitIs ==
  ASSUME IsReport(reading)
  PROVE /\ \A i \in Numbers : Commit.totals[i] = (IF Shows(i) THEN [n |-> reading.frames[i]] ELSE reporter.totals[i])
        /\ \A i \in Numbers : Commit.bytes[i] =
             (IF Shows(i) THEN [n |-> reading.frames[i], at |-> clock] ELSE reporter.bytes[i])
        /\ Commit.timing = (IF Timed THEN reading.timing.id ELSE reporter.timing)
        /\ Commit.last = [sent |-> reading.sent, stall |-> reading.stall]
        /\ Commit.held = Held /\ Commit.sentConnectTime = TRUE
        /\ \A i \in Numbers : reading.frames[i] \in Nat
<1>1. reading.frames \in [Numbers -> Nat]
  BY DEF IsReport
<1> QED
  BY <1>1 DEF Commit

(* Nothing but a batch and another connection moves the reporter, and only  *)
(* the report that is awaited makes a reading.                              *)
LEMMA ReportingIs ==
  ASSUME [Next]_vars
  PROVE /\ \/ UNCHANGED <<reporter, batched>>
           \/ reading # None /\ reporter' = Commit /\ SendBatch(TRUE)
           \/ Connect /\ reporter' = NewReporter
        /\ reading' = reading \/ reading' = None \/ ReadReport
        /\ chunked' = chunked \/ chunked' = None \/ ReadTotals
        /\ wire' = wire \/ wire' = None \/ SendBatch(TRUE) \/ \E b \in PageBatches : PageSends(b)
<1>1. CASE \E i \in Numbers : Frame(i) \/ Restarted(i)
  BY <1>1 DEF Frame, Restarted, batches
<1>2. CASE TimingFrame \/ Message \/ FarReport \/ IceRestart \/ Tick \/ UNCHANGED vars
  BY <1>2 DEF TimingFrame, Message, FarReport, IceRestart, Tick, batches, vars
<1>3. CASE \E c \in Callers : ReadStats(c) \/ Sample(c)
  BY <1>3 DEF ReadStats, Sample, batches
<1>4. CASE ReadTotals \/ ReadReport \/ ReadFails \/ SkipsBatch
  BY <1>4 DEF ReadTotals, ReadReport, ReadFails, SkipsBatch
<1>5. ASSUME NEW ok \in BOOLEAN, SendBatch(ok)
      PROVE /\ reading' = None /\ chunked' = chunked
            /\ UNCHANGED <<reporter, batched, wire>> \/ (reading # None /\ reporter' = Commit /\ SendBatch(TRUE))
  <2>1. CASE ok = FALSE
    BY <1>5, <2>1 DEF SendBatch
  <2>2. CASE ok = TRUE
    BY <1>5, <2>2 DEF SendBatch
  <2> QED
    BY <2>1, <2>2
<1>6. CASE \E b \in PageBatches : PageSends(b)
  BY <1>6 DEF PageSends
<1>7. CASE Teardown \/ Connect
  BY <1>7 DEF Teardown, Connect
<1> QED
  BY <1>1, <1>2, <1>3, <1>4, <1>5, <1>6, <1>7, NextIs, Zenon

(* Every step keeps the readings and the baselines numbers.                 *)
LEMMA ReadInvStep == ASSUME ReadInv, [Next]_vars PROVE ReadInv'
<1>1. IsReport(engine')
  BY EngineMoves DEF ReadInv
<1>2. reading' # None => IsReport(reading')
  <2>1. CASE ReadReport
    BY <2>1, MapStatsIs DEF ReadReport, ReadInv
  <2> QED
    BY <2>1, ReportingIs DEF ReadInv
<1>3. chunked' # None => chunked'.sent \in Nat /\ chunked'.stall \in Nat
  <2>1. CASE ReadTotals
    BY <2>1 DEF ReadTotals, ReadInv, IsReport
  <2> QED
    BY <2>1, ReportingIs DEF ReadInv
<1>4. \A i \in Numbers : reporter'.totals[i] # None => reporter'.totals[i].n \in Nat
  <2>1. CASE UNCHANGED reporter
    BY <2>1 DEF ReadInv
  <2>2. CASE reading # None /\ reporter' = Commit
    <3> SUFFICES ASSUME NEW i \in Numbers, reporter'.totals[i] # None PROVE reporter'.totals[i].n \in Nat
      OBVIOUS
    <3>1. IsReport(reading)
      BY <2>2 DEF ReadInv
    <3>2. /\ reporter'.totals[i] = (IF Shows(i) THEN [n |-> reading.frames[i]] ELSE reporter.totals[i])
          /\ reading.frames[i] \in Nat
      BY <2>2, <3>1, CommitIs
    <3> QED
      BY <3>2 DEF ReadInv
  <2>3. CASE reporter' = NewReporter
    BY <2>3 DEF NewReporter
  <2> QED
    BY <2>1, <2>2, <2>3, ReportingIs
<1> QED
  BY <1>1, <1>2, <1>3, <1>4 DEF ReadInv

(* At the start the engine has a report and nobody a reading.               *)
LEMMA ReadInvInit == Init => ReadInv
<1> SUFFICES ASSUME Init PROVE ReadInv
  OBVIOUS
<1>1. IsReport(engine)
  BY FreshIs DEF Init
<1>2. reading = None /\ chunked = None /\ \A i \in Numbers : reporter.totals[i] = None
  BY DEF Init, NewReporter
<1> QED
  BY <1>1, <1>2 DEF ReadInv

(* What one reading of a batch may say.                                     *)
Allowed(t, heard) ==
    /\ t.codec \in Codecs[t.kind]
    /\ t.implementation <= MaxName
    /\ t.kind = "audio" => t.implementation = 0
    /\ \A g \in t.stages : g.name # "" /\ g.frames > 0 /\ g.ms >= 0
    /\ t.metrics # {} => heard

(* A bounded name is within the limit, whatever its length.                 *)
LEMMA BoundedNameIs == \A n \in Nat : BoundedName(n) <= MaxName /\ 0 <= MaxName
  BY BoundsAssumption DEF BoundedName

(* A stage of the engine's has a name, frames and a time.                   *)
LEMMA StagesAllowed ==
  ASSUME ReadInv, reading # None, NEW i \in Numbers, NEW g \in TrackStat(i).stages
  PROVE g.name # "" /\ g.frames > 0 /\ g.ms >= 0
<1> DEFINE decode == IF Stage(i) > 0 THEN {[name |-> "decode", ms |-> Stage(i), frames |-> Stage(i)]} ELSE {}
<1>1. g \in decode \/ g \in TimingFrameStages
  BY DEF TrackStat
<1>2. Stage(i) \in Int
  <2>1. reading.frames \in [Numbers -> Nat]
    BY DEF ReadInv, IsReport
  <2> QED
    BY <2>1 DEF Stage, ReadInv
<1>3. CASE g \in decode
  <2>1. Stage(i) > 0 /\ g = [name |-> "decode", ms |-> Stage(i), frames |-> Stage(i)]
    BY <1>3
  <2> HIDE DEF decode
  <2> QED
    BY <1>2, <2>1
<1>4. CASE g \in TimingFrameStages
  <2>1. PICK stages : stages = TimingFrameOf(reading.timing.stamps)
    OBVIOUS
  <2>2. g \in stages /\ g.ms >= 0
    BY <1>4, <2>1 DEF TimingFrameStages, Measured
  <2>3. g.frames = 1 /\ g.name \in {"encode_wait", "packetize", "pacer"}
    BY <2>1, <2>2 DEF TimingFrameOf
  <2>4. g.frames > 0
    BY <2>3
  <2>5. g.name # ""
    BY <2>3, Zenon
  <2> QED
    BY <2>2, <2>4, <2>5, Zenon
<1> QED
  BY <1>1, <1>3, <1>4

(* A track the engine's report resolves to is told as the wire allows.      *)
LEMMA TrackStatAllowed ==
  ASSUME ReadInv, reading # None, NEW i \in Numbers, Shows(i)
  PROVE Allowed(TrackStat(i), reading.far.heard)
<1> DEFINE t == TrackStat(i)
<1>1. /\ t.kind = TrackKind(i) /\ t.codec = Streams[i].codec
      /\ t.implementation = (IF TrackKind(i) = "video" THEN BoundedName(Streams[i].name) ELSE 0)
      /\ t.metrics = (IF i > Len(Inbound) THEN FarMetrics ELSE {})
  BY DEF TrackStat
<1>2. \A g \in t.stages : g.name # "" /\ g.frames > 0 /\ g.ms >= 0
  BY StagesAllowed
<1> HIDE DEF t
<1>3. t.codec \in Codecs[t.kind]
  BY <1>1 DEF Shows, Resolves
<1>4. Streams[i].name \in Nat
  <2>1. Streams[i] \in Stream
    BY NumbersAre
  <2> QED
    BY <2>1 DEF Stream
<1>5. t.implementation <= MaxName /\ (t.kind = "audio" => t.implementation = 0)
  BY <1>1, <1>4, BoundedNameIs
<1>6. t.metrics # {} => reading.far.heard
  <2>1. reading.far.rtt > 0 \/ reading.far.lost # 0 => reading.far.heard
    BY DEF ReadInv, IsReport, IsFar
  <2>2. FarMetrics # {} => reading.far.rtt > 0 \/ reading.far.lost # 0
    BY DEF FarMetrics, PutMeasured
  <2> QED
    BY <1>1, <2>1, <2>2
<1> QED
  BY <1>2, <1>3, <1>5, <1>6 DEF Allowed, t

(* Two streams that speak for one track are one stream.                     *)
LEMMA OneReading ==
  ASSUME NEW i \in Numbers, NEW j \in Numbers, Shows(i), Shows(j),
         Streams[i].mid = Streams[j].mid, (i > Len(Inbound)) <=> (j > Len(Inbound))
  PROVE i = j
<1>1. i \in Nat /\ j \in Nat /\ Len(Inbound) \in Nat
  BY NumbersAre
<1>2. (i <= Len(Inbound)) <=> (j <= Len(Inbound))
  BY <1>1
<1>3. (i <= Len(Inbound)) = (j <= Len(Inbound)) /\ (j <= Len(Inbound)) = (i <= Len(Inbound))
  BY <1>1, <1>2
<1>4. ~(i < j)
  BY <1>3 DEF Shows
<1>5. ~(j < i)
  BY <1>3 DEF Shows
<1> QED
  BY <1>1, <1>4, <1>5

(* WireAllows, for one batch.                                               *)
WireOf(tracks, heard) ==
    /\ \A t \in tracks : Allowed(t, heard)
    /\ watched = "batches" => \A t, u \in tracks : <<u.mid, u.sent>> = <<t.mid, t.sent>> => u = t

(* WireAllows says of the last batch what WireOf says of one.               *)
LEMMA WireIs == WireAllows <=> (wire # None => WireOf(wire.tracks, wire.heard))
  BY DEF WireAllows, WireOf, Allowed

(* A batch of the engine's reading is one the wire allows.                  *)
LEMMA BatchAllowed ==
  ASSUME ReadInv, reading # None PROVE WireOf(TrackStats, reading.far.heard)
<1>1. \A t \in TrackStats : \E i \in Numbers : Shows(i) /\ t = TrackStat(i)
  BY DEF TrackStats
<1>2. \A t \in TrackStats : Allowed(t, reading.far.heard)
  BY <1>1, TrackStatAllowed
<1>3. ASSUME NEW t \in TrackStats, NEW u \in TrackStats, <<u.mid, u.sent>> = <<t.mid, t.sent>> PROVE u = t
  <2>1. PICK i \in Numbers : Shows(i) /\ t = TrackStat(i)
    BY <1>1
  <2>2. PICK j \in Numbers : Shows(j) /\ u = TrackStat(j)
    BY <1>1
  <2>3. t.mid = Streams[i].mid /\ u.mid = Streams[j].mid
    BY <2>1, <2>2 DEF TrackStat
  <2>4. t.sent = (i > Len(Inbound)) /\ u.sent = (j > Len(Inbound))
    BY <2>1, <2>2 DEF TrackStat
  <2>5. t.mid = u.mid /\ t.sent = u.sent
    BY <1>3
  <2>6. (i > Len(Inbound)) <=> (j > Len(Inbound))
    BY <2>4, <2>5
  <2>7. i = j
    BY <2>1, <2>2, <2>3, <2>5, <2>6, OneReading
  <2> QED
    BY <2>1, <2>2, <2>7
<1> QED
  BY <1>2, <1>3 DEF WireOf

(* A page's readings are trimmed to what the wire allows.                   *)
LEMMA PageAllowed ==
  ASSUME NEW batch \in PageBatches, \A p \in batch : p.codec \in Codecs[p.kind], watched = "page"
  PROVE WireOf({PageTrackStat(p) : p \in batch}, FALSE)
<1> SUFFICES ASSUME NEW p \in batch PROVE Allowed(PageTrackStat(p), FALSE)
  BY DEF WireOf
<1> DEFINE t == PageTrackStat(p)
<1>1. /\ t.kind = p.kind /\ t.codec = p.codec /\ t.metrics = {} /\ t.stages = StageTimes(p.stages)
      /\ t.implementation = (IF p.kind = "video" THEN BoundedName(p.name) ELSE 0)
  BY DEF PageTrackStat
<1> HIDE DEF t
<1>2. p.name \in Nat
  BY StreamsAssumption
<1>3. t.implementation <= MaxName /\ (t.kind = "audio" => t.implementation = 0)
  BY <1>1, <1>2, BoundedNameIs
<1>4. \A g \in t.stages : g.name # "" /\ g.frames > 0 /\ g.ms >= 0
  BY <1>1 DEF StageTimes
<1> QED
  BY <1>1, <1>3, <1>4 DEF Allowed, t

(* Only a batch of the loop or of a page changes what went out last.        *)
LEMMA WireStep == ASSUME ReadInv, WireAllows, [Next]_vars PROVE WireAllows'
<1>0. watched' = watched
  BY NextIs DEF Frame, Restarted, TimingFrame, Message, FarReport, IceRestart, Tick, ReadStats, Sample,
     ReadTotals, ReadReport, ReadFails, SkipsBatch, SendBatch, PageSends, Teardown, Connect, vars
<1>1. (wire' # None => WireOf(wire'.tracks, wire'.heard)) => WireAllows'
  BY <1>0 DEF WireAllows, WireOf, Allowed
<1>2. CASE wire' = wire
  BY <1>1, <1>2, WireIs
<1>3. CASE wire' = None
  BY <1>1, <1>3
<1>4. CASE SendBatch(TRUE)
  <2>1. reading # None /\ wire' = [tracks |-> TrackStats, heard |-> reading.far.heard]
    BY <1>4 DEF SendBatch
  <2>2. wire'.tracks = TrackStats /\ wire'.heard = reading.far.heard
    BY <2>1
  <2> QED
    BY <1>1, <2>1, <2>2, BatchAllowed
<1>5. ASSUME NEW batch \in PageBatches, PageSends(batch) PROVE WireAllows'
  <2>1. CASE \A p \in batch : p.codec \in Codecs[p.kind]
    <3>1. watched = "page" /\ wire' = [tracks |-> {PageTrackStat(p) : p \in batch}, heard |-> FALSE]
      BY <1>5, <2>1 DEF PageSends
    <3>2. wire'.tracks = {PageTrackStat(p) : p \in batch} /\ wire'.heard = FALSE
      BY <3>1
    <3>3. WireOf({PageTrackStat(p) : p \in batch}, FALSE)
      BY <2>1, <3>1, PageAllowed
    <3> QED
      BY <1>1, <3>2, <3>3, Zenon
  <2>2. CASE ~\A p \in batch : p.codec \in Codecs[p.kind]
    BY <1>2, <1>5, <2>2 DEF PageSends
  <2> QED
    BY <2>1, <2>2
<1> QED
  BY <1>2, <1>3, <1>4, <1>5, ReportingIs

(* WireAllows is an invariant: whatever streams the engine lists, whatever  *)
(* tracks the session declared and whatever a page passes, a batch that     *)
(* went out carries a codec of the track's kind, names within the limit,    *)
(* stages with frames and times, no loss of an end that never reported, and *)
(* one reading per track (track_stat, resolve, put_measured, try_from).     *)
THEOREM WireIsAllowed == Spec => []WireAllows
<1>1. Init => ReadInv /\ WireAllows
  BY ReadInvInit DEF Init, WireAllows
<1>2. ReadInv /\ WireAllows /\ [Next]_vars => ReadInv' /\ WireAllows'
  BY ReadInvStep, WireStep
<1> QED
  BY <1>1, <1>2, PTL DEF Spec

(***************************************************************************)
(* Rates.                                                                  *)
(***************************************************************************)

(* A baseline knows the connection it was read from; a rate was measured    *)
(* within one.                                                              *)
SamplerInv ==
    /\ rated \in Nat /\ clock \in Nat
    /\ DOMAIN raw = Callers
    /\ \A c \in Callers : raw[c] # None => IsReport(raw[c])
    /\ previous # None =>
         /\ previous.at \in Nat /\ previous.bytes \in Nat
         /\ previous.of[2] = [j \in Numbers |-> <<previous.conn, Streams[j].ssrc>>]
    /\ RatesOfOneConnection

(* A reading of the pair the engine counts on.                              *)
Current(r) == r.conn = engine.conn /\ Len(r.pairs) = Len(engine.pairs)

(* For the only caller: no rate covers more than the baseline, the reading  *)
(* it holds or the pair has carried, and a reading left over from another   *)
(* pair finds nothing rated.                                                *)
SoleInv(c) ==
    /\ rated <= 8 * Live(engine).bytes
    /\ previous # None /\ previous.of = Identity(engine, Len(engine.pairs)) =>
         rated <= 8 * previous.bytes
    /\ raw[c] # None =>
         /\ raw[c].conn <= engine.conn
         /\ raw[c].conn = engine.conn => Len(raw[c].pairs) <= Len(engine.pairs)
         /\ ~Current(raw[c]) => rated = 0
         /\ Current(raw[c]) =>
              /\ rated <= 8 * Live(raw[c]).bytes
              /\ Live(raw[c]).bytes <= Live(engine).bytes
              /\ Live(raw[c]).priority = Live(engine).priority

(* The baseline a sample of a reading makes.                                *)
Now(r) == Baseline(r, Len(r.pairs), clock)

(* What a sample of a reading would leave as the baseline.                  *)
LEMMA NowIs ==
  ASSUME NEW r, IsReport(r)
  PROVE /\ Now(r) # None
        /\ Now(r).at = clock /\ Now(r).conn = r.conn
        /\ Now(r).bytes = Live(r).bytes /\ Now(r).bytes \in Nat
        /\ Now(r).of = Identity(r, Len(r.pairs))
        /\ Identity(r, Len(r.pairs))[1] = Live(r).priority
        /\ Now(r).of[2] = [j \in Numbers |-> <<Now(r).conn, Streams[j].ssrc>>]
<1>1. Live(r).bytes \in Nat
  BY LiveIs DEF Live, IsReport, PairRecord
<1>2. DOMAIN Now(r) = {"at", "bytes", "of", "conn"} /\ DOMAIN None = {"none"}
  BY DEF Now, Baseline, None
<1>3. "at" \notin {"none"} /\ "at" \in {"at", "bytes", "of", "conn"}
  OBVIOUS
<1>4. Now(r) # None
  BY <1>2, <1>3
<1>5. /\ Now(r).at = clock /\ Now(r).conn = r.conn /\ Now(r).bytes = Live(r).bytes
      /\ Now(r).of = Identity(r, Len(r.pairs))
  BY DEF Now, Baseline, Live
<1>6. Identity(r, Len(r.pairs))[1] = Live(r).priority
  BY DEF Identity, Live
<1>7. Now(r).of[2] = [j \in Numbers |-> <<Now(r).conn, Streams[j].ssrc>>]
  BY DEF Now, Baseline, Identity
<1> QED
  BY <1>1, <1>4, <1>5, <1>6, <1>7

(* A sample answers without a rate, or measures one since the baseline, or  *)
(* takes a baseline it can compare with.                                    *)
LEMMA SampleIs ==
  ASSUME NEW c \in Callers, IsReport(raw[c]), Sample(c)
  PROVE LET r == raw[c] IN
        /\ raw' = [raw EXCEPT ![c] = None] /\ UNCHANGED <<engine, clock>>
        /\ \/ UNCHANGED <<previous, rated>> /\ shown'.rate = None
           \/ /\ Comparable(Now(r)) /\ Measurable(Now(r))
              /\ previous' = Now(r) /\ shown'.rate = RateBps(previous, Now(r))
              /\ rated' = (IF Current(r) THEN rated + RateBps(previous, Now(r)).bits ELSE rated)
           \/ /\ ~Comparable(Now(r))
              /\ previous' = Now(r) /\ shown'.rate = None /\ rated' = rated
<1> DEFINE r == raw[c]
           now == Now(r)
<1>1. LivePair(r.pairs) = {Len(r.pairs)} /\ Min(LivePair(r.pairs)) = Len(r.pairs)
  BY LiveIs DEF IsReport
<1>2. Baseline(r, Min(LivePair(r.pairs)), clock) = now /\ LivePair(r.pairs) # {}
  BY <1>1 DEF Now
<1> DEFINE told(x) == [rate |-> x, path |-> PathOf(r), loss |-> LossRatio(r)]
<1> HIDE DEF r, now
<1>3. /\ raw' = [raw EXCEPT ![c] = None] /\ UNCHANGED <<engine, clock>>
      /\ IF Comparable(now) /\ ~Measurable(now)
           THEN shown' = told(None) /\ UNCHANGED <<previous, rated>>
           ELSE /\ previous' = now
                /\ shown' = told(IF Comparable(now) THEN RateBps(previous, now) ELSE None)
                /\ rated' = IF Comparable(now) /\ Current(r)
                              THEN rated + RateBps(previous, now).bits ELSE rated
  BY <1>2, Zenon DEF Sample, Moved, Current, r
<1>4. \A x : told(x).rate = x
  OBVIOUS
<1> HIDE DEF told
<1>5. CASE Comparable(now) /\ ~Measurable(now)
  BY <1>3, <1>4, <1>5 DEF r, now
<1>6. CASE Comparable(now) /\ Measurable(now)
  BY <1>3, <1>4, <1>6 DEF r, now
<1>7. CASE ~Comparable(now)
  BY <1>3, <1>4, <1>7 DEF r, now
<1> QED
  BY <1>5, <1>6, <1>7

(* What a rate says of its two readings.                                    *)
LEMMA RateIs ==
  ASSUME NEW before, NEW current, before.bytes \in Nat, current.bytes \in Nat
  PROVE LET rate == RateBps(before, current) IN
        /\ rate.bits = (IF current.bytes < before.bytes THEN 0 ELSE 8 * (current.bytes - before.bytes))
        /\ rate.bits \in Nat
        /\ rate.window = current.at - before.at /\ rate.from = before.conn /\ rate.to = current.conn
  BY DEF RateBps

(* Which steps touch the sampler, and how.                                  *)
LEMMA SamplingIs ==
  ASSUME [Next]_vars
  PROVE /\ clock' = clock \/ clock' = clock + 1
        /\ \/ UNCHANGED <<raw, previous, shown, rated>>
           \/ IceRestart /\ UNCHANGED <<raw, previous, shown>> /\ rated' = 0
           \/ Connect /\ UNCHANGED <<raw, previous, shown>> /\ rated' = 0
           \/ Teardown /\ UNCHANGED <<raw, shown, rated, engine>> /\ previous' = None
           \/ \E c \in Callers : ReadStats(c)
           \/ \E c \in Callers : Sample(c)
<1>1. CASE \E i \in Numbers : Frame(i) \/ Restarted(i)
  BY <1>1 DEF Frame, Restarted, sampler
<1>2. CASE TimingFrame \/ Message \/ FarReport \/ IceRestart \/ Tick \/ UNCHANGED vars
  BY <1>2 DEF TimingFrame, Message, FarReport, IceRestart, Tick, sampler, vars
<1>3. CASE \E c \in Callers : ReadStats(c) \/ Sample(c)
  BY <1>3 DEF ReadStats, Sample
<1>4. CASE ReadTotals \/ ReadReport \/ ReadFails \/ SkipsBatch
  BY <1>4 DEF ReadTotals, ReadReport, ReadFails, SkipsBatch, sampler
<1>5. CASE \E ok \in BOOLEAN : SendBatch(ok)
  BY <1>5 DEF SendBatch, sampler
<1>6. CASE \E b \in PageBatches : PageSends(b)
  BY <1>6 DEF PageSends, sampler
<1>7. CASE Teardown \/ Connect
  BY <1>7 DEF Teardown, Connect
<1> QED
  BY <1>1, <1>2, <1>3, <1>4, <1>5, <1>6, <1>7, NextIs, Zenon

(* The conjunct of SamplerInv about the baseline.                           *)
OfItsOwn(b) ==
    b # None =>
      /\ b.at \in Nat /\ b.bytes \in Nat
      /\ b.of[2] = [j \in Numbers |-> <<b.conn, Streams[j].ssrc>>]

(* Every step leaves baselines and rates within their connections.          *)
LEMMA SamplerStep == ASSUME IsReport(engine), SamplerInv, [Next]_vars PROVE SamplerInv'
<1>1. clock' \in Nat
  BY SamplingIs DEF SamplerInv
<1>2. ASSUME UNCHANGED <<raw, shown>>, rated' \in Nat, previous' = previous \/ previous' = None
      PROVE SamplerInv'
  BY <1>1, <1>2 DEF SamplerInv, RatesOfOneConnection
<1>3. ASSUME NEW c \in Callers, ReadStats(c) PROVE SamplerInv'
  <2>1. raw' = [raw EXCEPT ![c] = engine] /\ UNCHANGED <<previous, shown, rated>>
    BY <1>3 DEF ReadStats
  <2>2. DOMAIN raw' = Callers /\ \A d \in Callers : raw'[d] = IF d = c THEN engine ELSE raw[d]
    BY <2>1 DEF SamplerInv
  <2> QED
    BY <1>1, <2>1, <2>2 DEF SamplerInv, RatesOfOneConnection
<1>4. ASSUME NEW c \in Callers, Sample(c) PROVE SamplerInv'
  <2> DEFINE r == raw[c]
             now == Now(r)
  <2>1. IsReport(r)
    BY <1>4 DEF Sample, SamplerInv
  <2>2. /\ now.at = clock /\ now.conn = r.conn /\ now.bytes \in Nat
        /\ now.of[2] = [j \in Numbers |-> <<now.conn, Streams[j].ssrc>>]
    BY <2>1, NowIs
  <2>3. DOMAIN raw' = Callers /\ \A d \in Callers : raw'[d] # None => IsReport(raw'[d])
    <3>1. raw' = [raw EXCEPT ![c] = None]
      BY <1>4, <2>1, SampleIs
    <3>2. DOMAIN raw' = Callers /\ \A d \in Callers : raw'[d] = IF d = c THEN None ELSE raw[d]
      BY <3>1 DEF SamplerInv
    <3> QED
      BY <3>2 DEF SamplerInv
  <2>4. OfItsOwn(now) /\ OfItsOwn(previous)
    BY <2>2 DEF OfItsOwn, SamplerInv
  <2> HIDE DEF now, r
  <2>5. CASE UNCHANGED <<previous, rated>> /\ shown'.rate = None
    BY <1>1, <2>3, <2>4, <2>5 DEF SamplerInv, OfItsOwn, RatesOfOneConnection
  <2>6. CASE previous' = now /\ shown'.rate = None /\ rated' = rated
    BY <1>1, <2>3, <2>4, <2>6 DEF SamplerInv, OfItsOwn, RatesOfOneConnection
  <2>7. CASE /\ Comparable(now) /\ Measurable(now)
             /\ previous' = now /\ shown'.rate = RateBps(previous, now)
             /\ rated' = (IF Current(r) THEN rated + RateBps(previous, now).bits ELSE rated)
    <3>1. previous # None /\ previous.of = now.of /\ now.at - previous.at >= MinWindow
      BY <2>7 DEF Comparable, Measurable
    <3>2. previous.bytes \in Nat /\ previous.of[2] = [j \in Numbers |-> <<previous.conn, Streams[j].ssrc>>]
      BY <2>4, <3>1 DEF OfItsOwn
    <3>3. /\ RateBps(previous, now).bits \in Nat /\ RateBps(previous, now).window = now.at - previous.at
          /\ RateBps(previous, now).from = previous.conn /\ RateBps(previous, now).to = now.conn
      BY <2>2, <3>2, RateIs
    <3>4. Numbers # {} => previous.conn = now.conn
      <4>1. [j \in Numbers |-> <<previous.conn, Streams[j].ssrc>>]
              = [j \in Numbers |-> <<now.conn, Streams[j].ssrc>>]
        BY <2>2, <3>1, <3>2
      <4>2. ASSUME NEW j \in Numbers PROVE previous.conn = now.conn
        <5>1. <<previous.conn, Streams[j].ssrc>> = <<now.conn, Streams[j].ssrc>>
          BY <4>1
        <5> QED
          BY <5>1
      <4> QED
        BY <4>2
    <3>5. RatesOfOneConnection'
      BY <2>7, <3>1, <3>3, <3>4 DEF RatesOfOneConnection
    <3>6. rated' \in Nat
      BY <2>7, <3>3 DEF SamplerInv
    <3> QED
      BY <1>1, <2>3, <2>4, <2>7, <3>5, <3>6 DEF SamplerInv, OfItsOwn
  <2> QED
    BY <1>4, <2>1, <2>5, <2>6, <2>7, SampleIs DEF now, r
<1> QED
  BY <1>2, <1>3, <1>4, SamplingIs DEF SamplerInv

(* At the start there is no baseline and no rate.                           *)
LEMMA SamplerInit == Init => SamplerInv
<1> SUFFICES ASSUME Init PROVE SamplerInv
  OBVIOUS
<1>1. shown.rate = None /\ raw = [c \in Callers |-> None] /\ previous = None /\ rated = 0 /\ clock = 0
  BY DEF Init
<1> QED
  BY <1>1 DEF SamplerInv, RatesOfOneConnection

(* The live pair of a report counts in numbers.                             *)
LEMMA ReportLive ==
  \A e : IsReport(e) => Live(e).bytes \in Nat /\ Len(e.pairs) \in Nat /\ e.conn \in Nat
<1> SUFFICES ASSUME NEW e, IsReport(e)
             PROVE Live(e).bytes \in Nat /\ Len(e.pairs) \in Nat /\ e.conn \in Nat
  OBVIOUS
<1>1. Live(e) \in PairRecord
  BY LiveIs DEF Live, IsReport
<1> QED
  BY <1>1 DEF PairRecord, IsReport, IsPairs

(* Counting on over the same pair keeps what was rated below it.            *)
LEMMA SoleCounts ==
  ASSUME NEW c, IsReport(engine), IsReport(engine'), rated \in Nat, SoleInv(c),
         raw'[c] = raw[c], rated' = rated, previous' = previous \/ previous' = None,
         raw[c] # None => IsReport(raw[c]),
         engine'.conn = engine.conn, Len(engine'.pairs) = Len(engine.pairs),
         Live(engine').priority = Live(engine).priority, Live(engine).bytes <= Live(engine').bytes,
         previous # None => previous.bytes \in Nat
  PROVE SoleInv(c)'
<1>1. Live(engine).bytes \in Nat /\ Live(engine').bytes \in Nat
  BY ReportLive
<1>2. Identity(engine', Len(engine'.pairs)) = Identity(engine, Len(engine.pairs))
  BY DEF Identity, Live
<1>3. raw[c] # None => Live(raw[c]).bytes \in Nat /\ Len(raw[c].pairs) \in Nat
  BY ReportLive
<1>4. rated' <= 8 * Live(engine').bytes
  BY <1>1 DEF SoleInv
<1>5. previous' # None /\ previous'.of = Identity(engine', Len(engine'.pairs)) => rated' <= 8 * previous'.bytes
  BY <1>2 DEF SoleInv
<1>6. ASSUME raw'[c] # None
      PROVE /\ raw'[c].conn <= engine'.conn
            /\ raw'[c].conn = engine'.conn => Len(raw'[c].pairs) <= Len(engine'.pairs)
            /\ ~(raw'[c].conn = engine'.conn /\ Len(raw'[c].pairs) = Len(engine'.pairs)) => rated' = 0
            /\ raw'[c].conn = engine'.conn /\ Len(raw'[c].pairs) = Len(engine'.pairs) =>
                 /\ rated' <= 8 * Live(raw'[c]).bytes
                 /\ Live(raw'[c]).bytes <= Live(engine').bytes
                 /\ Live(raw'[c]).priority = Live(engine').priority
  BY <1>1, <1>3, <1>6 DEF SoleInv, Current
<1> QED
  BY <1>4, <1>5, <1>6 DEF SoleInv, Current

(* On another pair nothing is rated yet, and a reading held is of an older. *)
LEMMA SoleStartsOver ==
  ASSUME NEW c, IsReport(engine'), rated' = 0, previous' # None => previous'.bytes \in Nat,
         raw'[c] # None =>
            /\ raw'[c].conn <= engine'.conn
            /\ raw'[c].conn = engine'.conn => Len(raw'[c].pairs) < Len(engine'.pairs),
         raw'[c] # None => Len(raw'[c].pairs) \in Nat
  PROVE SoleInv(c)'
<1>1. Live(engine').bytes \in Nat /\ Len(engine'.pairs) \in Nat
  BY ReportLive
<1>2. rated' <= 8 * Live(engine').bytes /\ (previous' # None => rated' <= 8 * previous'.bytes)
  BY <1>1
<1>3. raw'[c] # None /\ raw'[c].conn = engine'.conn =>
         Len(raw'[c].pairs) <= Len(engine'.pairs) /\ ~(Len(raw'[c].pairs) = Len(engine'.pairs))
  BY <1>1
<1> QED
  BY <1>2, <1>3 DEF SoleInv, Current

(* What a sample of the sole caller's adds is what the pair carried since   *)
(* the baseline, up to the reading the sample was taken from.               *)
LEMMA SoleSamples ==
  ASSUME NEW c \in Callers, IsReport(engine), SamplerInv, SoleInv(c), Sample(c) PROVE SoleInv(c)'
<1> DEFINE r == raw[c]
           now == Now(r)
<1>1. IsReport(r) /\ r # None
  BY DEF Sample, SamplerInv
<1>2. /\ now # None /\ now.conn = r.conn /\ now.bytes = Live(r).bytes /\ now.bytes \in Nat
      /\ now.of = Identity(r, Len(r.pairs)) /\ now.of[1] = Live(r).priority
  BY <1>1, NowIs
<1>3. Live(engine).bytes \in Nat /\ rated \in Nat
  BY ReportLive DEF SamplerInv
<1>4. raw' = [raw EXCEPT ![c] = None] /\ engine' = engine
  BY <1>1, SampleIs
<1>5. raw'[c] = None
  BY <1>4 DEF SamplerInv
<1>6. /\ ~Current(r) => rated = 0
      /\ Current(r) => /\ rated <= 8 * Live(r).bytes /\ Live(r).bytes <= Live(engine).bytes
                       /\ Live(r).priority = Live(engine).priority
      /\ rated <= 8 * Live(engine).bytes
      /\ previous # None /\ previous.of = Identity(engine, Len(engine.pairs)) => rated <= 8 * previous.bytes
  BY <1>1 DEF SoleInv
<1>7. Current(r) => now.of = Identity(engine, Len(engine.pairs))
  BY <1>2, <1>6 DEF Current, Identity, Live
<1>8. ASSUME rated' <= 8 * Live(engine).bytes,
             previous' # None /\ previous'.of = Identity(engine, Len(engine.pairs)) => rated' <= 8 * previous'.bytes
      PROVE SoleInv(c)'
  BY <1>4, <1>5, <1>8 DEF SoleInv
<1> HIDE DEF r, now
<1>9. CASE UNCHANGED <<previous, rated>>
  BY <1>6, <1>8, <1>9
<1>10. CASE previous' = now /\ rated' = rated
  BY <1>2, <1>3, <1>6, <1>8, <1>10
<1>11. CASE /\ Comparable(now) /\ previous' = now
            /\ rated' = (IF Current(r) THEN rated + RateBps(previous, now).bits ELSE rated)
  <2>1. CASE ~Current(r)
    BY <1>10, <1>11, <2>1
  <2>2. CASE Current(r)
    <3>1. previous # None /\ previous.of = Identity(engine, Len(engine.pairs)) /\ previous.bytes \in Nat
      BY <1>7, <1>11, <2>2 DEF Comparable, SamplerInv
    <3>2. RateBps(previous, now).bits =
            (IF now.bytes < previous.bytes THEN 0 ELSE 8 * (now.bytes - previous.bytes))
      BY <1>2, <3>1, RateIs
    <3>3. rated <= 8 * previous.bytes /\ rated <= 8 * now.bytes /\ now.bytes <= Live(engine).bytes
      BY <1>2, <1>6, <2>2, <3>1
    <3>4. rated' <= 8 * now.bytes
      BY <1>2, <1>3, <1>11, <2>2, <3>1, <3>2, <3>3
    <3>5. rated' \in Nat
      BY <1>2, <1>3, <1>11, <2>2, <3>1, <3>2
    <3> QED
      BY <1>2, <1>3, <1>8, <1>11, <3>3, <3>4, <3>5
  <2> QED
    BY <2>1, <2>2
<1> QED
  BY <1>1, <1>9, <1>10, <1>11, SampleIs DEF now, r

(* With one caller, no step rates a byte of the pair again.                 *)
LEMMA SoleStep ==
  ASSUME NEW c \in Callers, Callers = {c}, IsReport(engine), SamplerInv, SoleInv(c), [Next]_vars
  PROVE SoleInv(c)'
<1>1. IsReport(engine') /\ rated \in Nat /\ (previous # None => previous.bytes \in Nat)
  BY EngineMoves DEF SamplerInv
<1>2. raw[c] # None => IsReport(raw[c])
  BY DEF SamplerInv
<1>3. raw[c] # None => Len(raw[c].pairs) \in Nat /\ raw[c].conn \in Nat
  BY <1>2 DEF IsReport, IsPairs
<1>4. Len(engine.pairs) \in Nat /\ engine.conn \in Nat /\ Len(engine'.pairs) \in Nat
  BY <1>1 DEF IsReport, IsPairs
<1>5. CASE Connect
  <2>1. rated' = 0 /\ UNCHANGED <<raw, previous>>
    BY <1>5 DEF Connect
  <2>2. engine'.conn = engine.conn + 1
    <3>1. PICK p \in 1..2 : engine' = Fresh(engine.conn + 1, p)
      BY <1>5 DEF Connect
    <3> QED
      BY <1>4, <3>1, FreshIs
  <2>3. raw[c] # None => raw[c].conn <= engine.conn
    BY DEF SoleInv
  <2>4. raw'[c] # None => raw'[c].conn <= engine'.conn /\ ~(raw'[c].conn = engine'.conn)
    BY <1>3, <1>4, <2>1, <2>2, <2>3
  <2> QED
    BY <1>1, <1>3, <2>1, <2>4, SoleStartsOver
<1>6. CASE ~Connect /\ UNCHANGED raw /\ (previous' = previous \/ previous' = None)
             /\ ~\E d \in Callers : Sample(d)
  <2>1. Grows /\ Carried
    BY <1>6, EngineMoves
  <2>2. CASE /\ Len(engine'.pairs) = Len(engine.pairs)
             /\ Live(engine').priority = Live(engine).priority
             /\ Live(engine).bytes <= Live(engine').bytes
             /\ UNCHANGED rated
    BY <1>1, <1>2, <1>6, <2>1, <2>2, SoleCounts DEF Grows
  <2>3. CASE Len(engine.pairs) = 1 /\ Len(engine'.pairs) = 2 /\ rated' = 0
    <3>1. raw[c] # None => /\ raw[c].conn <= engine.conn
                           /\ raw[c].conn = engine.conn => Len(raw[c].pairs) <= Len(engine.pairs)
      BY DEF SoleInv
    <3>2. engine'.conn = engine.conn
      BY <2>1 DEF Grows
    <3>3. raw'[c] # None => /\ raw'[c].conn <= engine'.conn
                            /\ raw'[c].conn = engine'.conn => Len(raw'[c].pairs) < Len(engine'.pairs)
      BY <1>3, <1>6, <2>3, <3>1, <3>2
    <3>4. (previous' # None => previous'.bytes \in Nat) /\ (raw'[c] # None => Len(raw'[c].pairs) \in Nat)
      BY <1>1, <1>3, <1>6
    <3> QED
      BY <1>1, <2>3, <3>3, <3>4, SoleStartsOver
  <2> QED
    BY <1>6, <2>1, <2>2, <2>3 DEF Carried
<1>7. CASE ReadStats(c)
  <2>1. raw'[c] = engine /\ UNCHANGED <<engine, previous, rated>>
    BY <1>7 DEF ReadStats, SamplerInv
  <2>2. Live(engine).bytes \in Nat
    BY ReportLive
  <2>3. engine.conn <= engine.conn /\ Len(engine.pairs) <= Len(engine.pairs)
          /\ Live(engine).bytes <= Live(engine).bytes
    BY <1>4, <2>2
  <2> QED
    BY <2>1, <2>3 DEF SoleInv, Current
<1>8. CASE Sample(c)
  BY <1>8, SoleSamples
<1>9. \/ Connect
      \/ UNCHANGED raw /\ (previous' = previous \/ previous' = None)
      \/ ReadStats(c) \/ Sample(c)
  BY SamplingIs
<1>10. (\E d \in Callers : Sample(d)) => Sample(c)
  OBVIOUS
<1> QED
  BY <1>5, <1>6, <1>7, <1>8, <1>9, <1>10

(* RatesCoverOnce is an invariant, for any number of streams, pairs and     *)
(* connections, and of callers as far as it speaks of them: a rate was      *)
(* measured within one connection over a long enough window, and with one   *)
(* caller at a time no byte is in two rates (StatsSampler::sample).         *)
THEOREM NoByteRatedTwice == Spec => []RatesCoverOnce
<1> DEFINE IInv == IsReport(engine) /\ SamplerInv /\ \A c : Callers = {c} => SoleInv(c)
<1>1. Init => IInv
  <2> SUFFICES ASSUME Init PROVE IInv
    OBVIOUS
  <2>1. IsReport(engine) /\ Live(engine).bytes = 0
    BY FreshIs DEF Init
  <2>2. SamplerInv
    BY SamplerInit
  <2>3. ASSUME NEW c, Callers = {c} PROVE SoleInv(c)
    <3>1. raw[c] = None /\ previous = None /\ rated = 0
      BY <2>3 DEF Init
    <3> QED
      BY <2>1, <3>1 DEF SoleInv
  <2> QED
    BY <2>1, <2>2, <2>3
<1>2. IInv /\ [Next]_vars => IInv'
  <2> SUFFICES ASSUME IInv, [Next]_vars PROVE IInv'
    OBVIOUS
  <2>1. IsReport(engine')
    BY EngineMoves
  <2>2. SamplerInv'
    BY SamplerStep
  <2>3. \A c : Callers = {c} => SoleInv(c)'
    BY SoleStep
  <2> QED
    BY <2>1, <2>2, <2>3
<1>3. IInv => RatesCoverOnce
  <2> SUFFICES ASSUME IInv, Cardinality(Callers) = 1, NEW i \in LivePair(engine.pairs)
               PROVE rated <= 8 * engine.pairs[i].bytes
    BY DEF RatesCoverOnce, NothingRatedTwice, SamplerInv
  <2>1. \E c : Callers = {c}
    BY BoundsAssumption, FS_Singleton
  <2>2. i = Len(engine.pairs)
    BY LiveIs DEF IsReport
  <2> QED
    BY <2>1, <2>2 DEF SoleInv, Live
<1> QED
  BY <1>1, <1>2, <1>3, PTL DEF Spec

(***************************************************************************)
(* Batches.                                                                *)
(***************************************************************************)

(* A reading is at or past the baselines of the reporter...                 *)
Covers(r) ==
    /\ reporter.timing <= r.timing.id
    /\ reporter.last # None => reporter.last.sent <= r.sent
    /\ ~skipped => \A i \in Numbers : reporter.totals[i] # None => reporter.totals[i].n <= r.frames[i]

(* ...and not past the engine.                                              *)
Behind(r) ==
    /\ r.timing.id <= engine.timing.id /\ r.sent <= engine.sent
    /\ ~skipped => \A i \in Numbers : r.frames[i] <= engine.frames[i]

(* The baselines, the reading or the totals in flight, and the engine are   *)
(* in this order; nothing is in flight between connections.                 *)
HeldInv ==
    /\ reporter.timing \in Nat
    /\ reporter.last # None => reporter.last.sent \in Nat /\ reporter.last.stall \in Nat
    /\ ~up => reading = None /\ chunked = None
    /\ chunked # None =>
         /\ reading = None /\ chunked.sent <= engine.sent
         /\ reporter.last # None => reporter.last.sent <= chunked.sent
    /\ reading # None => Covers(reading) /\ Behind(reading)
    /\ Covers(engine)

(* Baselines are something.                                                 *)
LEMMA Somethings ==
  /\ \A x : [n |-> x] # None
  /\ \A x, y : [n |-> x, at |-> y] # None
  /\ \A x, y : [sent |-> x, stall |-> y] # None
  /\ \A x : [stall |-> x] # None
<1>1. DOMAIN None = {"none"}
  BY DEF None
<1>2. \A x : DOMAIN [n |-> x] = {"n"} /\ DOMAIN [stall |-> x] = {"stall"}
  OBVIOUS
<1>3. \A x, y : DOMAIN [n |-> x, at |-> y] = {"n", "at"} /\ DOMAIN [sent |-> x, stall |-> y] = {"sent", "stall"}
  OBVIOUS
<1>4. "n" \notin {"none"} /\ "stall" \notin {"none"} /\ "n" \in {"n"} /\ "stall" \in {"stall"}
        /\ "n" \in {"n", "at"} /\ "stall" \in {"sent", "stall"}
  OBVIOUS
<1> QED
  BY <1>1, <1>2, <1>3, <1>4

(* The connection is up until it is torn down.                              *)
LEMMA UpIs == ASSUME [Next]_vars PROVE up' = up \/ Teardown \/ Connect
  BY NextIs DEF Frame, Restarted, TimingFrame, Message, FarReport, IceRestart, Tick, ReadStats, Sample,
     ReadTotals, ReadReport, ReadFails, SkipsBatch, SendBatch, PageSends, vars

(* What a batch commits covers no more than the engine counted.             *)
LEMMA HeldCommits ==
  ASSUME ReadInv, HeldInv, reading # None, reporter' = Commit, SendBatch(TRUE) PROVE HeldInv'
<1>1. IsReport(reading) /\ IsReport(engine)
  BY DEF ReadInv
<1>2. /\ UNCHANGED <<engine, chunked, up, skipped>> /\ reading' = None /\ up
      /\ chunked = None
  BY DEF SendBatch, HeldInv
<1>3. /\ \A i \in Numbers : reporter'.totals[i] = (IF Shows(i) THEN [n |-> reading.frames[i]] ELSE reporter.totals[i])
      /\ reporter'.timing = (IF Timed THEN reading.timing.id ELSE reporter.timing)
      /\ reporter'.last = [sent |-> reading.sent, stall |-> reading.stall]
  BY <1>1, CommitIs
<1>4. Covers(reading) /\ Behind(reading) /\ Covers(engine)
  BY DEF HeldInv
<1>5. reading.timing.id \in Nat /\ reading.sent \in Nat /\ reading.stall \in Nat
  BY <1>1 DEF IsReport
<1>6. reporter'.timing \in Nat /\ reporter'.timing <= engine.timing.id
  BY <1>3, <1>4, <1>5 DEF Covers, Behind, HeldInv
<1>7. reporter'.last.sent \in Nat /\ reporter'.last.stall \in Nat /\ reporter'.last.sent <= engine.sent
  BY <1>3, <1>4, <1>5 DEF Behind
<1>8. ASSUME ~skipped, NEW i \in Numbers, reporter'.totals[i] # None
      PROVE reporter'.totals[i].n <= engine.frames[i]
  <2>1. CASE Shows(i)
    <3>1. reporter'.totals[i] = [n |-> reading.frames[i]]
      BY <1>3, <2>1
    <3>2. reporter'.totals[i].n = reading.frames[i]
      BY <3>1
    <3> QED
      BY <1>4, <1>8, <3>2 DEF Behind
  <2>2. CASE ~Shows(i)
    <3>1. reporter'.totals[i] = reporter.totals[i]
      BY <1>3, <2>2
    <3> QED
      BY <1>4, <1>8, <3>1 DEF Covers
  <2> QED
    BY <2>1, <2>2
<1>9. Covers(engine)'
  BY <1>2, <1>6, <1>7, <1>8 DEF Covers
<1> QED
  BY <1>2, <1>6, <1>7, <1>9 DEF HeldInv

(* Every step keeps baselines, readings and the engine in their order.      *)
LEMMA HeldStep == ASSUME ReadInv, HeldInv, [Next]_vars PROVE HeldInv'
<1>1. IsReport(engine) /\ IsReport(engine')
  BY EngineMoves DEF ReadInv
<1>2. /\ engine.timing.id \in Nat /\ engine.sent \in Nat /\ engine.frames \in [Numbers -> Nat]
      /\ engine'.timing.id \in Nat /\ engine'.sent \in Nat /\ engine'.frames \in [Numbers -> Nat]
  BY <1>1 DEF IsReport
<1>3. reading # None => reading.timing.id \in Nat /\ reading.sent \in Nat /\ reading.frames \in [Numbers -> Nat]
  BY DEF ReadInv, IsReport
<1>4. CASE Connect
  <2>1. reporter' = NewReporter /\ reading' = None /\ chunked' = None /\ up' = TRUE
    BY <1>4 DEF Connect, HeldInv
  <2>2. reporter'.timing = 0 /\ reporter'.last = None /\ \A i \in Numbers : reporter'.totals[i] = None
    BY <2>1 DEF NewReporter
  <2>3. Covers(engine)'
    BY <1>2, <2>2 DEF Covers
  <2> QED
    BY <2>1, <2>2, <2>3 DEF HeldInv
<1>5. CASE reading # None /\ reporter' = Commit /\ SendBatch(TRUE)
  BY <1>5, HeldCommits
<1>6. CASE ~Connect /\ UNCHANGED reporter
  <2>1. Grows
    BY <1>1, <1>6, EngineMoves
  <2>2. ASSUME NEW r, Covers(r) PROVE
          /\ reporter'.timing <= r.timing.id
          /\ reporter'.last # None => reporter'.last.sent <= r.sent
          /\ ~skipped' => \A i \in Numbers : reporter'.totals[i] # None => reporter'.totals[i].n <= r.frames[i]
    BY <1>6, <2>1, <2>2 DEF Covers, Grows
  <2>3. Covers(engine)'
    <3>1. Covers(engine) /\ reporter.timing \in Nat /\ (reporter.last # None => reporter.last.sent \in Nat)
      BY DEF HeldInv
    <3>2. ASSUME ~skipped', NEW i \in Numbers, reporter'.totals[i] # None
          PROVE reporter'.totals[i].n <= engine'.frames[i]
      <4>1. reporter'.totals[i].n <= engine.frames[i] /\ reporter'.totals[i].n \in Nat
        BY <1>6, <3>1, <3>2, <2>2 DEF ReadInv
      <4>2. engine.frames[i] <= engine'.frames[i] /\ engine.frames[i] \in Nat /\ engine'.frames[i] \in Nat
        BY <1>2, <2>1, <3>2 DEF Grows
      <4> QED
        BY <4>1, <4>2
    <3>3. reporter'.timing <= engine'.timing.id
      BY <1>2, <1>6, <2>1, <3>1 DEF Covers, Grows
    <3>4. reporter'.last # None => reporter'.last.sent <= engine'.sent
      BY <1>2, <1>6, <2>1, <3>1 DEF Covers, Grows
    <3> QED
      BY <3>2, <3>3, <3>4 DEF Covers
  <2>4. reading' # None => Covers(reading)' /\ Behind(reading)'
    <3>1. CASE reading' = reading
      <4> SUFFICES ASSUME reading # None PROVE Covers(reading)' /\ Behind(reading)'
        BY <3>1
      <4>1. Covers(reading) /\ Behind(reading)
        BY DEF HeldInv
      <4>2. Covers(reading)'
        BY <2>2, <3>1, <4>1 DEF Covers
      <4>3. ASSUME ~skipped', NEW i \in Numbers PROVE reading'.frames[i] <= engine'.frames[i]
        <5>1. reading.frames[i] <= engine.frames[i] /\ engine.frames[i] <= engine'.frames[i]
          BY <2>1, <4>1, <4>3 DEF Behind, Grows
        <5>2. reading.frames[i] \in Nat /\ engine.frames[i] \in Nat /\ engine'.frames[i] \in Nat
          BY <1>2, <1>3
        <5> QED
          BY <3>1, <5>1, <5>2
      <4>4. reading'.timing.id <= engine'.timing.id /\ reading'.sent <= engine'.sent
        BY <1>2, <1>3, <2>1, <3>1, <4>1 DEF Behind, Grows
      <4> QED
        BY <4>2, <4>3, <4>4 DEF Behind
    <3>2. CASE ReadReport
      <4>1. /\ chunked # None /\ reading' = MapStats(engine) /\ UNCHANGED <<engine, skipped>>
        BY <3>2 DEF ReadReport
      <4>2. /\ reading'.sent = chunked.sent /\ reading'.timing = engine.timing
            /\ reading'.frames = engine.frames
        BY <1>1, <4>1, MapStatsIs DEF ReadInv
      <4>3. chunked.sent <= engine.sent /\ (reporter.last # None => reporter.last.sent <= chunked.sent)
              /\ Covers(engine)
        BY <4>1 DEF HeldInv
      <4>4. Covers(reading)'
        BY <1>6, <4>1, <4>2, <4>3 DEF Covers
      <4>5. Behind(reading)'
        BY <1>2, <4>1, <4>2, <4>3 DEF Behind
      <4> QED
        BY <4>4, <4>5
    <3> QED
      BY <3>1, <3>2, ReportingIs
  <2>5. ~up' => reading' = None /\ chunked' = None
    <3>1. CASE Teardown
      BY <3>1 DEF Teardown
    <3>2. CASE up' = up
      <4> SUFFICES ASSUME ~up PROVE reading' = None /\ chunked' = None
        BY <3>2
      <4>1. reading = None /\ chunked = None /\ ~ReadReport /\ ~ReadTotals
        BY DEF HeldInv, ReadReport, ReadTotals
      <4> QED
        BY <4>1, ReportingIs
    <3> QED
      BY <1>6, <3>1, <3>2, UpIs
  <2>6. chunked' # None => /\ reading' = None /\ chunked'.sent <= engine'.sent
                           /\ reporter'.last # None => reporter'.last.sent <= chunked'.sent
    <3>1. CASE ReadTotals
      <4>1. /\ chunked' = [sent |-> engine.sent, stall |-> engine.stall]
            /\ UNCHANGED <<engine, reading>> /\ reading = None
        BY <3>1 DEF ReadTotals
      <4>2. chunked'.sent = engine.sent
        BY <4>1
      <4> QED
        BY <1>2, <1>6, <4>1, <4>2 DEF HeldInv, Covers
    <3>2. CASE chunked' = chunked
      <4> SUFFICES ASSUME chunked # None
                   PROVE /\ reading' = None /\ chunked'.sent <= engine'.sent
                         /\ reporter'.last # None => reporter'.last.sent <= chunked'.sent
        BY <3>2
      <4>1. reading = None /\ chunked.sent <= engine.sent /\ chunked.sent \in Nat
        BY DEF HeldInv, ReadInv
      <4>2. ~ReadReport
        BY <3>2 DEF ReadReport
      <4>3. reading' = None
        BY <4>1, <4>2, ReportingIs
      <4>4. chunked'.sent <= engine'.sent
        BY <1>2, <2>1, <3>2, <4>1 DEF Grows
      <4> QED
        BY <1>6, <3>2, <4>3, <4>4 DEF HeldInv
    <3> QED
      BY <3>1, <3>2, ReportingIs
  <2>7. /\ reporter'.timing \in Nat
        /\ reporter'.last # None => reporter'.last.sent \in Nat /\ reporter'.last.stall \in Nat
    BY <1>6 DEF HeldInv
  <2> QED
    BY <2>3, <2>4, <2>5, <2>6, <2>7 DEF HeldInv
<1> QED
  BY <1>4, <1>5, <1>6, ReportingIs

(* What the accepted batches of the connection add up to: the timing frames *)
(* up to the baseline's, the stalls between the first batch and the last,   *)
(* and one time to connect.                                                 *)
TotalInv ==
    /\ batched.timing \in Nat /\ batched.timing <= reporter.timing
    /\ batched.stall \in Int /\ reporter.held \in Int
    /\ batched.first # None => batched.first.stall \in Nat
    /\ batched.first # None <=> reporter.last # None
    /\ reporter.sentConnectTime <=> reporter.last # None
    /\ batched.connects = (IF reporter.last = None THEN 0 ELSE 1)
    /\ IF reporter.last = None THEN batched.stall = 0 /\ reporter.held = 0
       ELSE batched.stall + reporter.held = reporter.last.stall - batched.first.stall

(* ...and of one stream, the frames between its first batch and its last.   *)
StreamInv(i) ==
    /\ batched.bytes[i] \in Int /\ batched.frames[i] \in Int
    /\ reporter.totals[i] = None =>
         /\ reporter.bytes[i] = None /\ batched.from[i] = None
         /\ batched.bytes[i] = 0 /\ batched.frames[i] = 0
    /\ reporter.totals[i] # None =>
         /\ reporter.bytes[i] # None /\ batched.from[i] # None
         /\ reporter.bytes[i].n = reporter.totals[i].n /\ batched.from[i].n \in Nat
         /\ ~skipped =>
              /\ batched.bytes[i] <= reporter.totals[i].n - batched.from[i].n
              /\ TrackKind(i) = "video" => batched.frames[i] = reporter.totals[i].n - batched.from[i].n

(* What an accepted batch adds, field by field.                             *)
LEMMA AddsIs ==
  ASSUME SendBatch(TRUE)
  PROVE /\ batched'.timing = batched.timing + (IF NewTiming THEN 1 ELSE 0)
        /\ batched'.stall = batched.stall + StallStage
        /\ batched'.first = (IF batched.first = None THEN [stall |-> reading.stall] ELSE batched.first)
        /\ batched'.connects = batched.connects + (IF "time_to_connect_ms" \in ConnectionStat THEN 1 ELSE 0)
        /\ \A i \in Numbers :
             /\ batched'.bytes[i] = batched.bytes[i] +
                  IF Shows(i) /\ Bitrate(i) # None THEN Bitrate(i).n ELSE 0
             /\ batched'.frames[i] = batched.frames[i] +
                  IF Shows(i) /\ TrackKind(i) = "video" THEN Stage(i) ELSE 0
             /\ batched'.from[i] = (IF batched.from[i] = None /\ Shows(i) THEN reporter'.totals[i]
                                    ELSE batched.from[i])
  BY DEF SendBatch, Adds

(* The time to connect is told until a batch with it was accepted.          *)
LEMMA ConnectTimeOnce == "time_to_connect_ms" \in ConnectionStat <=> ~reporter.sentConnectTime
<1>1. "time_to_connect_ms" \notin PutMeasured("connection_rtt_ms", reading.rtt)
  BY DEF PutMeasured
<1> QED
  BY <1>1 DEF ConnectionStat

(* A window's stalls go out or are held, never both and never neither.      *)
LEMMA StallsAre ==
  ASSUME IsReport(reading), HeldInv, reading # None, reporter.held \in Int
  PROVE /\ StallStage \in Int /\ Held \in Int
        /\ reporter.last = None => StallStage = 0 /\ Held = 0
        /\ reporter.last # None => StallStage + Held = reading.stall - reporter.last.stall + reporter.held
<1>1. reading.sent \in Nat /\ reading.stall \in Nat
  BY DEF IsReport
<1>2. reporter.last # None => /\ reporter.last.sent \in Nat /\ reporter.last.stall \in Nat
                              /\ reporter.last.sent <= reading.sent
  BY DEF HeldInv, Covers
<1>3. CASE reporter.last = None
  <2>1. Window.sent = 0 /\ Window.stall = 0
    BY <1>3 DEF Window
  <2> QED
    BY <1>3, <2>1 DEF StallStage, Held
<1>4. CASE reporter.last # None
  <2>1. ~(reading.sent < reporter.last.sent)
    BY <1>1, <1>2, <1>4
  <2>2. /\ Window.sent = reading.sent - reporter.last.sent
        /\ Window.stall = reading.stall - reporter.last.stall + reporter.held
    BY <1>4, <2>1 DEF Window
  <2>3. Window.sent > 0 \/ Window.sent = 0
    BY <1>1, <1>2, <1>4, <2>2
  <2>4. Window.stall \in Int
    BY <1>1, <1>2, <1>4, <2>2
  <2>5. CASE Window.sent > 0
    BY <1>4, <2>2, <2>4, <2>5 DEF StallStage, Held
  <2>6. CASE Window.sent = 0
    BY <1>4, <2>2, <2>4, <2>6 DEF StallStage, Held
  <2> QED
    BY <2>3, <2>5, <2>6
<1> QED
  BY <1>3, <1>4

(* An accepted batch moves the totals and the baselines together.           *)
LEMMA TotalCommits ==
  ASSUME ReadInv, HeldInv, TotalInv, reading # None, reporter' = Commit, SendBatch(TRUE) PROVE TotalInv'
<1>1. IsReport(reading)
  BY DEF ReadInv
<1>2. /\ reporter'.timing = (IF Timed THEN reading.timing.id ELSE reporter.timing)
      /\ reporter'.last = [sent |-> reading.sent, stall |-> reading.stall]
      /\ reporter'.held = Held /\ reporter'.sentConnectTime = TRUE
  BY <1>1, CommitIs
<1>3. reporter'.last # None /\ reporter'.last.stall = reading.stall /\ reading.stall \in Nat
  BY <1>1, <1>2, Somethings DEF IsReport
<1>4. batched'.timing \in Nat /\ batched'.timing <= reporter'.timing
  <2>1. reading.timing.id \in Nat /\ reporter.timing <= reading.timing.id /\ reporter.timing \in Nat
    BY <1>1 DEF IsReport, HeldInv, Covers
  <2>2. batched'.timing = batched.timing + (IF NewTiming THEN 1 ELSE 0)
    BY AddsIs
  <2>3. batched.timing \in Nat /\ batched.timing <= reporter.timing
    BY DEF TotalInv
  <2>4. CASE NewTiming
    <3>1. Timed /\ reading.timing.id # reporter.timing
      BY <2>4 DEF NewTiming
    <3> QED
      BY <1>2, <2>1, <2>2, <2>3, <2>4, <3>1
  <2>5. CASE ~NewTiming
    BY <1>2, <2>1, <2>2, <2>3, <2>5
  <2> QED
    BY <2>4, <2>5
<1>5. /\ batched'.first # None /\ batched'.first.stall \in Nat
      /\ batched.first # None => batched'.first = batched.first
      /\ batched.first = None => batched'.first.stall = reading.stall
  BY <1>3, AddsIs, Somethings DEF TotalInv
<1>6. batched'.connects = 1
  <2>1. batched'.connects = batched.connects + (IF reporter.sentConnectTime THEN 0 ELSE 1)
    BY AddsIs, ConnectTimeOnce
  <2> QED
    BY <2>1 DEF TotalInv
<1>7. /\ batched'.stall \in Int /\ reporter'.held \in Int
      /\ batched'.stall + reporter'.held = reporter'.last.stall - batched'.first.stall
  <2>1. batched'.stall = batched.stall + StallStage /\ reporter'.held = Held
    BY <1>2, AddsIs
  <2>2. batched.stall \in Int /\ reporter.held \in Int
    BY DEF TotalInv
  <2>3. /\ StallStage \in Int /\ Held \in Int
        /\ reporter.last = None => StallStage = 0 /\ Held = 0
        /\ reporter.last # None => StallStage + Held = reading.stall - reporter.last.stall + reporter.held
    BY <1>1, <2>2, StallsAre
  <2>4. CASE reporter.last = None
    <3>1. batched.stall = 0 /\ batched.first = None
      BY <2>4 DEF TotalInv
    <3> QED
      BY <1>3, <1>5, <2>1, <2>3, <2>4, <3>1
  <2>5. CASE reporter.last # None
    <3>1. /\ batched.stall + reporter.held = reporter.last.stall - batched.first.stall
          /\ batched.first # None /\ batched.first.stall \in Nat
      BY <2>5 DEF TotalInv
    <3>2. reporter.last.stall \in Nat
      BY <2>5 DEF HeldInv
    <3> QED
      BY <1>3, <1>5, <2>1, <2>2, <2>3, <2>5, <3>1, <3>2
  <2> QED
    BY <2>4, <2>5
<1> QED
  BY <1>2, <1>3, <1>4, <1>5, <1>6, <1>7 DEF TotalInv

(* ...and for each stream, by the frames since its baseline.                *)
LEMMA StreamCommits ==
  ASSUME ReadInv, HeldInv, reading # None, reporter' = Commit, SendBatch(TRUE),
         NEW i \in Numbers, StreamInv(i)
  PROVE StreamInv(i)'
<1> DEFINE f == reading.frames[i]
<1>1. IsReport(reading)
  BY DEF ReadInv
<1>2. /\ reporter'.totals[i] = (IF Shows(i) THEN [n |-> f] ELSE reporter.totals[i])
      /\ reporter'.bytes[i] = (IF Shows(i) THEN [n |-> f, at |-> clock] ELSE reporter.bytes[i])
      /\ f \in Nat
  BY <1>1, CommitIs
<1>3. /\ batched'.bytes[i] = batched.bytes[i] + IF Shows(i) /\ Bitrate(i) # None THEN Bitrate(i).n ELSE 0
      /\ batched'.frames[i] = batched.frames[i] + IF Shows(i) /\ TrackKind(i) = "video" THEN Stage(i) ELSE 0
      /\ batched'.from[i] = (IF batched.from[i] = None /\ Shows(i) THEN reporter'.totals[i]
                             ELSE batched.from[i])
  BY AddsIs
<1>4. skipped' = skipped /\ batched.bytes[i] \in Int /\ batched.frames[i] \in Int
  BY DEF SendBatch, StreamInv
<1>5. CASE ~Shows(i)
  <2>1. /\ reporter'.totals[i] = reporter.totals[i] /\ reporter'.bytes[i] = reporter.bytes[i]
        /\ batched'.bytes[i] = batched.bytes[i] /\ batched'.frames[i] = batched.frames[i]
        /\ batched'.from[i] = batched.from[i]
    BY <1>2, <1>3, <1>4, <1>5
  <2> QED
    BY <1>4, <2>1 DEF StreamInv
<1>6. CASE Shows(i)
  <2>1. /\ reporter'.totals[i] # None /\ reporter'.totals[i].n = f
        /\ reporter'.bytes[i] # None /\ reporter'.bytes[i].n = f
    BY <1>2, <1>6, Somethings
  <2>2. CASE reporter.totals[i] = None
    <3>1. /\ reporter.bytes[i] = None /\ batched.from[i] = None
          /\ batched.bytes[i] = 0 /\ batched.frames[i] = 0
      BY <2>2 DEF StreamInv
    <3>2. Stage(i) = 0 /\ Bitrate(i) = None
      BY <2>2, <3>1 DEF Stage, Bitrate
    <3>3. batched'.bytes[i] = 0 /\ batched'.frames[i] = 0 /\ batched'.from[i] = reporter'.totals[i]
      BY <1>3, <1>6, <3>1, <3>2
    <3> QED
      BY <1>2, <1>4, <2>1, <3>3 DEF StreamInv
  <2>3. CASE reporter.totals[i] # None
    <3> DEFINE n == reporter.totals[i].n
    <3>1. /\ reporter.bytes[i] # None /\ batched.from[i] # None
          /\ reporter.bytes[i].n = n /\ batched.from[i].n \in Nat
          /\ n \in Nat
      BY <2>3 DEF StreamInv, ReadInv
    <3>2. Stage(i) \in Int /\ (n <= f => Stage(i) = f - n)
      BY <1>2, <2>3, <3>1 DEF Stage
    <3>3. Bitrate(i) = None \/ Bitrate(i).n = f - n
      <4>1. \A w : [n |-> f - n, window |-> w].n = f - n
        OBVIOUS
      <4> QED
        BY <3>1, <4>1 DEF Bitrate
    <3>4. batched'.bytes[i] = batched.bytes[i] \/ batched'.bytes[i] = batched.bytes[i] + (f - n)
      BY <1>3, <1>4, <1>6, <3>3
    <3>5. batched'.frames[i] = batched.frames[i] + (IF TrackKind(i) = "video" THEN Stage(i) ELSE 0)
            /\ batched'.from[i] = batched.from[i]
      BY <1>3, <1>6, <3>1
    <3>6. batched'.bytes[i] \in Int /\ batched'.frames[i] \in Int
      BY <1>2, <1>4, <3>1, <3>2, <3>4, <3>5
    <3>7. ASSUME ~skipped
          PROVE /\ batched'.bytes[i] <= f - batched.from[i].n
                /\ TrackKind(i) = "video" => batched'.frames[i] = f - batched.from[i].n
      <4>1. n <= f
        BY <2>3, <3>7 DEF HeldInv, Covers
      <4>2. /\ batched.bytes[i] <= n - batched.from[i].n
            /\ TrackKind(i) = "video" => batched.frames[i] = n - batched.from[i].n
        BY <2>3, <3>7 DEF StreamInv
      <4> HIDE DEF n, f
      <4>3. batched'.bytes[i] <= f - batched.from[i].n
        BY <1>2, <1>4, <3>1, <3>4, <4>1, <4>2 DEF n, f
      <4>4. TrackKind(i) = "video" => batched'.frames[i] = f - batched.from[i].n
        BY <1>2, <1>4, <3>1, <3>2, <3>5, <4>1, <4>2 DEF n, f
      <4> QED
        BY <4>3, <4>4
    <3> QED
      BY <1>4, <2>1, <3>1, <3>5, <3>6, <3>7 DEF StreamInv
  <2> QED
    BY <2>2, <2>3
<1> QED
  BY <1>5, <1>6

(* A new reporter has batched nothing.                                      *)
LEMMA NothingBatched ==
  ASSUME reporter = NewReporter, batched = NoBatches
  PROVE TotalInv /\ \A i \in Numbers : StreamInv(i)
<1>1. /\ reporter.timing = 0 /\ reporter.last = None /\ reporter.held = 0 /\ ~reporter.sentConnectTime
      /\ \A i \in Numbers : reporter.totals[i] = None /\ reporter.bytes[i] = None
  BY DEF NewReporter
<1>2. /\ batched.timing = 0 /\ batched.stall = 0 /\ batched.first = None /\ batched.connects = 0
      /\ \A i \in Numbers : batched.bytes[i] = 0 /\ batched.frames[i] = 0 /\ batched.from[i] = None
  BY DEF NoBatches
<1>3. TotalInv
  BY <1>1, <1>2 DEF TotalInv
<1>4. \A i \in Numbers : StreamInv(i)
  BY <1>1, <1>2 DEF StreamInv
<1> QED
  BY <1>3, <1>4

(* The inductive invariant of the batches.                                 *)
BatchInv == ReadInv /\ HeldInv /\ TotalInv /\ \A i \in Numbers : StreamInv(i)

(* Every step keeps the batches and the baselines in step.                  *)
LEMMA BatchStep == ASSUME BatchInv, [Next]_vars PROVE BatchInv'
<1>1. ReadInv' /\ HeldInv'
  BY ReadInvStep, HeldStep DEF BatchInv
<1>2. TotalInv' /\ \A i \in Numbers : StreamInv(i)'
  <2>1. CASE Connect
    <3>1. reporter' = NewReporter /\ batched' = NoBatches
      BY <2>1 DEF Connect
    <3>2. /\ reporter'.timing = 0 /\ reporter'.last = None /\ reporter'.held = 0 /\ ~reporter'.sentConnectTime
          /\ \A i \in Numbers : reporter'.totals[i] = None /\ reporter'.bytes[i] = None
      BY <3>1 DEF NewReporter
    <3>3. /\ batched'.timing = 0 /\ batched'.stall = 0 /\ batched'.first = None /\ batched'.connects = 0
          /\ \A i \in Numbers : batched'.bytes[i] = 0 /\ batched'.frames[i] = 0 /\ batched'.from[i] = None
      BY <3>1 DEF NoBatches
    <3>4. TotalInv'
      BY <3>2, <3>3 DEF TotalInv
    <3>5. \A i \in Numbers : StreamInv(i)'
      BY <3>2, <3>3 DEF StreamInv
    <3> QED
      BY <3>4, <3>5
  <2>2. CASE reading # None /\ reporter' = Commit /\ SendBatch(TRUE)
    <3>1. TotalInv'
      BY <2>2, TotalCommits DEF BatchInv
    <3>2. \A i \in Numbers : StreamInv(i)'
      BY <2>2, StreamCommits DEF BatchInv
    <3> QED
      BY <3>1, <3>2
  <2>3. CASE ~Connect /\ UNCHANGED <<reporter, batched>>
    <3>1. ~skipped' => ~skipped
      BY <2>3, EngineMoves DEF BatchInv, ReadInv, Grows
    <3>2. TotalInv'
      BY <2>3 DEF BatchInv, TotalInv
    <3>3. ASSUME NEW i \in Numbers PROVE StreamInv(i)'
      <4>1. StreamInv(i)
        BY DEF BatchInv
      <4> QED
        BY <2>3, <3>1, <4>1 DEF StreamInv
    <3> QED
      BY <3>2, <3>3
  <2> QED
    BY <2>1, <2>2, <2>3, ReportingIs
<1> QED
  BY <1>1, <1>2 DEF BatchInv

(* BatchesAddUp is an invariant, for every list of streams, every length of *)
(* a connection and every batch refused on the way: the accepted batches    *)
(* carry each frame, stall and timing frame between the first and the last  *)
(* of them once, and the time to connect once (ClientStatsReporter::commit, *)
(* MessageStageReporter, run_client_stats).                                 *)
THEOREM BatchesSumUp == Spec => []BatchesAddUp
<1>1. Init => BatchInv
  <2> SUFFICES ASSUME Init PROVE BatchInv
    OBVIOUS
  <2>1. ReadInv
    BY ReadInvInit
  <2>2. TotalInv /\ \A i \in Numbers : StreamInv(i)
    BY NothingBatched DEF Init
  <2>3. reading = None /\ chunked = None /\ reporter.timing = 0 /\ reporter.last = None
          /\ \A i \in Numbers : reporter.totals[i] = None
    BY DEF Init, NewReporter
  <2>4. Covers(engine)
    BY <2>1, <2>3 DEF Covers, ReadInv, IsReport
  <2> QED
    BY <2>1, <2>2, <2>3, <2>4 DEF BatchInv, HeldInv
<1>2. BatchInv /\ [Next]_vars => BatchInv'
  BY BatchStep
<1>3. BatchInv => BatchesAddUp
  <2> SUFFICES ASSUME BatchInv, batched.first # None, ~skipped
               PROVE /\ batched.stall + reporter.held = reporter.last.stall - batched.first.stall
                     /\ batched.timing <= engine.timing.id
                     /\ batched.connects = 1
                     /\ \A i \in Numbers : batched.from[i] # None =>
                          /\ batched.bytes[i] <= reporter.bytes[i].n - batched.from[i].n
                          /\ TrackKind(i) = "video" =>
                               batched.frames[i] = reporter.totals[i].n - batched.from[i].n
    BY DEF BatchesAddUp
  <2>1. /\ batched.stall + reporter.held = reporter.last.stall - batched.first.stall
        /\ batched.connects = 1
    BY DEF BatchInv, TotalInv
  <2>2. batched.timing <= engine.timing.id
    BY DEF BatchInv, TotalInv, HeldInv, Covers, ReadInv, IsReport
  <2>3. ASSUME NEW i \in Numbers, batched.from[i] # None
        PROVE /\ batched.bytes[i] <= reporter.bytes[i].n - batched.from[i].n
              /\ TrackKind(i) = "video" =>
                   batched.frames[i] = reporter.totals[i].n - batched.from[i].n
    <3>1. StreamInv(i)
      BY DEF BatchInv
    <3> QED
      BY <2>3, <3>1 DEF StreamInv
  <2> QED
    BY <2>1, <2>2, <2>3
<1> QED
  BY <1>1, <1>2, <1>3, PTL DEF Spec
=============================================================================
