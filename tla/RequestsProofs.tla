--------------------------- MODULE RequestsProofs ---------------------------
(***************************************************************************)
(* Theorems about Requests, for every token, playlist, hint and bound.     *)
(*                                                                         *)
(* Induction over the naturals is derived here in the form the provers can *)
(* use, about a set of naturals, from the fact that they are well founded. *)
(***************************************************************************)
EXTENDS Requests, SequenceTheorems, WellFoundedInduction, TLAPS

\* The order of the naturals, as a set of pairs.
Below == {pair \in Nat \X Nat : pair[1] < pair[2]}

\* It is the library's.
LEMMA BelowIsLess == OpToRel(<, Nat) = Below
  BY Zenon DEF OpToRel, Below

\* A set of naturals that has 0 and with every n also n + 1 has them all.
LEMMA Induction == ASSUME NEW T \in SUBSET Nat, 0 \in T, \A n \in T : n + 1 \in T PROVE T = Nat
<1>1. IsWellFoundedOn(Below, Nat)
  BY NatLessThanWellFounded, BelowIsLess
<1> SUFFICES ASSUME Nat \ T # {} PROVE FALSE
  OBVIOUS
<1>2. PICK x \in Nat \ T : \A y \in Nat \ T : ~(<<y, x>> \in Below)
  BY <1>1, WFMin
<1>3. x - 1 \in Nat \ T
  BY <1>2
<1>4. <<x - 1, x>> \in Below
  BY <1>2, <1>3 DEF Below
<1> QED
  BY <1>2, <1>3, <1>4

----------------------------------------------------------------------------
(* parse_playlist().                                                       *)

\* f is the loop's list of segments after each of the first n lines of p.
Loop(f, p, n) ==
    /\ f \in [0..n -> Seq(Lines)]
    /\ f[0] = <<>>
    /\ \A i \in 1..n :
         /\ IsSegment(p[i]) => f[i] = Append(f[i - 1], p[i])
         /\ ~IsSegment(p[i]) => f[i] = f[i - 1]

\* The recursion of Gathered, as an equation.
Unrolled(f, p) ==
    f = [n \in 0..Len(p) |->
          IF n = 0 THEN <<>>
          ELSE IF IsSegment(p[n]) THEN Append(f[n - 1], p[n]) ELSE f[n - 1]]

\* Gathered is some solution of it.
LEMMA GatheredChoice == \A p : Gathered(p) = CHOOSE f : Unrolled(f, p)
  BY Zenon DEF Gathered, Unrolled

\* The loop can run over as many lines as there are.
LEMMA LoopRuns == ASSUME NEW p \in Seq(Lines) PROVE \E f : Loop(f, p, Len(p))
<1> DEFINE P(n) == n <= Len(p) => \E f : Loop(f, p, n)
           T == {n \in Nat : P(n)}
<1>1. P(0)
  <2>1. Loop([i \in 0..0 |-> <<>>], p, 0)
    BY DEF Loop
  <2> QED
    BY <2>1
<1>2. ASSUME NEW n \in Nat, P(n) PROVE P(n + 1)
  <2> SUFFICES ASSUME n + 1 <= Len(p) PROVE \E g : Loop(g, p, n + 1)
    OBVIOUS
  <2>1. PICK f : Loop(f, p, n)
    BY <1>2
  <2> DEFINE g == [i \in 0..(n + 1) |->
                     IF i <= n THEN f[i]
                     ELSE IF IsSegment(p[i]) THEN Append(f[i - 1], p[i]) ELSE f[i - 1]]
  <2>2. p[n + 1] \in Lines /\ f[n] \in Seq(Lines)
    BY <2>1 DEF Loop
  <2>3. g \in [0..(n + 1) -> Seq(Lines)]
    BY <2>1, <2>2 DEF Loop
  <2>4. g[0] = <<>> /\ \A i \in 1..(n + 1) :
           /\ IsSegment(p[i]) => g[i] = Append(g[i - 1], p[i])
           /\ ~IsSegment(p[i]) => g[i] = g[i - 1]
    <3> SUFFICES ASSUME NEW i \in 1..(n + 1)
                 PROVE /\ IsSegment(p[i]) => g[i] = Append(g[i - 1], p[i])
                       /\ ~IsSegment(p[i]) => g[i] = g[i - 1]
      BY <2>1 DEF Loop
    <3>1. i - 1 \in 0..n /\ g[i - 1] = f[i - 1]
      OBVIOUS
    <3>2. CASE i <= n
      <4>1. g[i] = f[i] /\ i \in 1..n
        BY <3>2
      <4> HIDE DEF g
      <4> QED
        BY <2>1, <3>1, <4>1 DEF Loop
    <3>3. CASE i = n + 1
      BY <3>1, <3>3
    <3>4. i <= n \/ i = n + 1
      OBVIOUS
    <3> QED
      BY <3>2, <3>3, <3>4
  <2>5. Loop(g, p, n + 1)
    BY <2>3, <2>4 DEF Loop
  <2> QED
    BY <2>5
<1> HIDE DEF P
<1>3. T \in SUBSET Nat /\ 0 \in T /\ \A n \in T : n + 1 \in T
  BY <1>1, <1>2
<1>4. P(Len(p))
  <2> HIDE DEF T
  <2>1. T = Nat
    BY <1>3, Induction
  <2>2. Len(p) \in T
    BY <2>1
  <2> QED
    BY <2>2 DEF T
<1> QED
  BY <1>4 DEF P

\* So Gathered is the list the loop makes.
LEMMA GatheredLoop == ASSUME NEW p \in Seq(Lines) PROVE Loop(Gathered(p), p, Len(p))
<1>1. PICK f : Loop(f, p, Len(p))
  BY LoopRuns
<1>2. Unrolled(f, p)
  BY <1>1 DEF Loop, Unrolled
<1>3. Unrolled(Gathered(p), p)
  BY <1>2, GatheredChoice
<1> DEFINE g == Gathered(p)
           P(n) == n <= Len(p) => g[n] = f[n]
           T == {n \in Nat : P(n)}
<1>4. P(0)
  BY <1>1, <1>3 DEF Loop, Unrolled
<1>5. ASSUME NEW n \in Nat, P(n) PROVE P(n + 1)
  <2> SUFFICES ASSUME n + 1 <= Len(p) PROVE g[n + 1] = f[n + 1]
    OBVIOUS
  <2>1. n + 1 \in 0..Len(p) /\ n + 1 \in 1..Len(p) /\ n + 1 # 0 /\ (n + 1) - 1 = n
    OBVIOUS
  <2>2. g[n + 1] = IF IsSegment(p[n + 1]) THEN Append(g[n], p[n + 1]) ELSE g[n]
    <3> HIDE DEF g
    <3> QED
      BY <1>3, <2>1 DEF Unrolled, g
  <2>3. g[n] = f[n]
    BY <1>5
  <2> HIDE DEF g
  <2>4. CASE IsSegment(p[n + 1])
    BY <1>1, <2>1, <2>2, <2>3, <2>4 DEF Loop
  <2>5. CASE ~IsSegment(p[n + 1])
    BY <1>1, <2>1, <2>2, <2>3, <2>5 DEF Loop
  <2> QED
    BY <2>4, <2>5
<1> HIDE DEF P
<1>6. T \in SUBSET Nat /\ 0 \in T /\ \A n \in T : n + 1 \in T
  BY <1>4, <1>5
<1>7. \A n \in Nat : P(n)
  <2> HIDE DEF T
  <2>1. T = Nat
    BY <1>6, Induction
  <2> QED
    BY <2>1 DEF T
<1>8. g = f
  BY <1>1, <1>3, <1>7 DEF P, Loop, Unrolled
<1> QED
  BY <1>1, <1>8

\* The lines of the first n that are segments.
SegmentsBelow(p, n) == {i \in 1..n : IsSegment(p[i])}

\* f tells which line each of s is: every segment of the first n, in their order.
Enumerates(f, s, p, n) ==
    /\ f \in [1..Len(s) -> SegmentsBelow(p, n)]
    /\ \A i \in SegmentsBelow(p, n) : \E k \in 1..Len(s) : f[k] = i
    /\ \A k, m \in 1..Len(s) : k < m => f[k] < f[m]
    /\ \A k \in 1..Len(s) : s[k] = p[f[k]]

\* Each line that is a segment is gathered once and in its place, and no other is.
LEMMA SegmentsAre ==
  ASSUME NEW p \in Seq(Lines)
  PROVE Segments(p) \in Seq(Lines) /\ \E f : Enumerates(f, Segments(p), p, Len(p))
<1> DEFINE g == Gathered(p)
           P(n) == n <= Len(p) => \E f : Enumerates(f, g[n], p, n)
           T == {n \in Nat : P(n)}
<1>1. Loop(g, p, Len(p))
  BY GatheredLoop
<1>2. P(0)
  <2>1. SegmentsBelow(p, 0) = {}
    BY DEF SegmentsBelow
  <2>2. g[0] = <<>>
    BY <1>1 DEF Loop
  <2>3. Len(<<>>) = 0 /\ 1..0 = {}
    OBVIOUS
  <2> DEFINE f == [k \in 1..0 |-> 0]
  <2>4. f \in [1..0 -> {}]
    BY <2>3
  <2> HIDE DEF g, f
  <2>5. Enumerates(f, <<>>, p, 0)
    BY <2>1, <2>3, <2>4 DEF Enumerates
  <2> QED
    BY <2>2, <2>5
<1>3. ASSUME NEW n \in Nat, P(n) PROVE P(n + 1)
  <2> SUFFICES ASSUME n + 1 <= Len(p) PROVE \E f : Enumerates(f, g[n + 1], p, n + 1)
    OBVIOUS
  <2>1. n \in 0..Len(p) /\ n + 1 \in 1..Len(p) /\ (n + 1) - 1 = n
    OBVIOUS
  <2> HIDE DEF g
  <2>2. g[n] \in Seq(Lines) /\ p[n + 1] \in Lines
    BY <1>1, <2>1 DEF Loop
  <2>3. PICK f : Enumerates(f, g[n], p, n)
    BY <1>3, <2>1
  <2>4. CASE IsSegment(p[n + 1])
    <3>1. SegmentsBelow(p, n + 1) = SegmentsBelow(p, n) \cup {n + 1}
      BY <2>4 DEF SegmentsBelow
    <3>2. \A i \in SegmentsBelow(p, n) : i \in Nat /\ i < n + 1
      BY DEF SegmentsBelow
    <3>3. g[n + 1] = Append(g[n], p[n + 1])
      BY <1>1, <2>1, <2>4 DEF Loop
    <3> DEFINE l == Len(g[n])
               h == [k \in 1..(l + 1) |-> IF k <= l THEN f[k] ELSE n + 1]
    <3>4. /\ l \in Nat /\ Len(g[n + 1]) = l + 1 /\ g[n + 1][l + 1] = p[n + 1]
          /\ \A k \in 1..l : g[n + 1][k] = g[n][k]
      BY <2>2, <3>3
    <3> HIDE DEF l
    <3>5. /\ f \in [1..l -> SegmentsBelow(p, n)]
          /\ \A i \in SegmentsBelow(p, n) : \E k \in 1..l : f[k] = i
          /\ \A k, m \in 1..l : k < m => f[k] < f[m]
          /\ \A k \in 1..l : g[n][k] = p[f[k]]
      BY <2>3 DEF Enumerates, l
    <3>6. h \in [1..(l + 1) -> SegmentsBelow(p, n + 1)] /\ h[l + 1] = n + 1
            /\ \A k \in 1..l : h[k] = f[k]
      BY <3>1, <3>4, <3>5
    <3> HIDE DEF h
    <3>7. \A i \in SegmentsBelow(p, n + 1) : \E k \in 1..(l + 1) : h[k] = i
      BY <3>1, <3>4, <3>5, <3>6
    <3>8. \A k, m \in 1..(l + 1) : k < m => h[k] < h[m]
      <4> SUFFICES ASSUME NEW k \in 1..(l + 1), NEW m \in 1..(l + 1), k < m PROVE h[k] < h[m]
        OBVIOUS
      <4>1. k \in 1..l /\ h[k] = f[k] /\ f[k] \in SegmentsBelow(p, n)
        BY <3>4, <3>5, <3>6
      <4>2. CASE m = l + 1
        BY <3>2, <3>6, <4>1, <4>2
      <4>3. CASE m \in 1..l
        BY <3>5, <3>6, <4>1, <4>3
      <4> QED
        BY <3>4, <4>2, <4>3
    <3>9. \A k \in 1..(l + 1) : g[n + 1][k] = p[h[k]]
      <4> SUFFICES ASSUME NEW k \in 1..(l + 1) PROVE g[n + 1][k] = p[h[k]]
        OBVIOUS
      <4>1. CASE k = l + 1
        BY <3>4, <3>6, <4>1
      <4>2. CASE k \in 1..l
        BY <3>4, <3>5, <3>6, <4>2
      <4> QED
        BY <3>4, <4>1, <4>2
    <3>10. Enumerates(h, g[n + 1], p, n + 1)
      BY <3>4, <3>6, <3>7, <3>8, <3>9 DEF Enumerates
    <3> QED
      BY <3>10
  <2>5. CASE ~IsSegment(p[n + 1])
    <3>1. SegmentsBelow(p, n + 1) = SegmentsBelow(p, n)
      BY <2>5 DEF SegmentsBelow
    <3>2. g[n + 1] = g[n]
      BY <1>1, <2>1, <2>5 DEF Loop
    <3>3. Enumerates(f, g[n + 1], p, n + 1)
      BY <2>3, <3>1, <3>2 DEF Enumerates
    <3> QED
      BY <3>3
  <2> QED
    BY <2>4, <2>5
<1> HIDE DEF P
<1>4. T \in SUBSET Nat /\ 0 \in T /\ \A n \in T : n + 1 \in T
  BY <1>2, <1>3
<1>5. P(Len(p))
  <2> HIDE DEF T
  <2>1. T = Nat
    BY <1>4, Induction
  <2>2. Len(p) \in T
    BY <2>1
  <2> QED
    BY <2>2 DEF T
<1> QED
  BY <1>1, <1>5 DEF P, Loop, Segments

\* Lines that are maps with a URI: there is a last one.
LEMMA LastMap ==
  ASSUME NEW p \in Seq(Lines), InitLines(p) # {}
  PROVE \E i \in InitLines(p) : \A j \in InitLines(p) : j <= i
<1> DEFINE Max(M) == \E i \in M : \A j \in M : j <= i
           P(n) == \A M \in SUBSET (1..n) : M # {} => Max(M)
           T == {n \in Nat : P(n)}
<1>1. P(0)
  <2>1. 1..0 = {}
    OBVIOUS
  <2> HIDE DEF Max
  <2> QED
    BY <2>1
<1>2. ASSUME NEW n \in Nat, P(n) PROVE P(n + 1)
  <2> SUFFICES ASSUME NEW M \in SUBSET (1..(n + 1)), M # {} PROVE Max(M)
    OBVIOUS
  <2>1. CASE n + 1 \in M
    BY <2>1
  <2>2. CASE n + 1 \notin M
    <3>1. M \in SUBSET (1..n)
      BY <2>2
    <3> QED
      BY <1>2, <3>1
  <2> QED
    BY <2>1, <2>2
<1> HIDE DEF P
<1>3. T \in SUBSET Nat /\ 0 \in T /\ \A n \in T : n + 1 \in T
  BY <1>1, <1>2
<1>4. P(Len(p))
  <2> HIDE DEF T
  <2>1. T = Nat
    BY <1>3, Induction
  <2>2. Len(p) \in T
    BY <2>1
  <2> QED
    BY <2>2 DEF T
<1>5. InitLines(p) \in SUBSET (1..Len(p))
  BY DEF InitLines
<1> QED
  BY <1>4, <1>5 DEF P

\* The init segment is the last line of the playlist that is a map with a URI.
LEMMA InitSegmentIs ==
  ASSUME NEW p \in Seq(Lines)
  PROVE /\ InitSegment(p) \in Seq(Lines)
        /\ InitLines(p) = {} => InitSegment(p) = <<>>
        /\ InitLines(p) # {} =>
             /\ Len(InitSegment(p)) = 1
             /\ \E i \in InitLines(p) :
                  InitSegment(p)[1] = p[i] /\ \A j \in InitLines(p) : j <= i
<1>1. CASE InitLines(p) = {}
  BY <1>1 DEF InitSegment
<1>2. CASE InitLines(p) # {}
  <2> DEFINE last == CHOOSE i \in InitLines(p) : \A j \in InitLines(p) : j <= i
  <2>1. last \in InitLines(p) /\ \A j \in InitLines(p) : j <= last
    BY <1>2, LastMap
  <2>2. InitSegment(p) = <<p[last]>>
    BY <1>2 DEF InitSegment
  <2> HIDE DEF last
  <2>3. p[last] \in Lines
    BY <2>1 DEF InitLines
  <2>4. /\ InitSegment(p) \in Seq(Lines) /\ Len(InitSegment(p)) = 1
        /\ InitSegment(p)[1] = p[last]
    BY <2>2, <2>3
  <2> QED
    BY <1>2, <2>1, <2>4
<1> QED
  BY <1>1, <1>2

\* A playlist that is accepted is parsed whole: its map first, if it has one, and
\* then every segment, once and in order.
LEMMA ParsedWhole ==
  ASSUME NEW p \in Seq(Lines), ~Unplayable(p)
  PROVE ParsePlaylist(p) \in Seq(Lines) /\ IsWhole(ParsePlaylist(p), p)
<1> DEFINE init == InitSegment(p)
           segments == Segments(p)
           parts == ParsePlaylist(p)
           wanted == {i \in DOMAIN p : IsSegment(p[i])}
<1>1. segments \in Seq(Lines)
  BY SegmentsAre
<1>2. PICK f : Enumerates(f, segments, p, Len(p))
  BY SegmentsAre
<1>3. SegmentsBelow(p, Len(p)) = wanted
  BY DEF SegmentsBelow
<1>4. /\ f \in [1..Len(segments) -> wanted]
      /\ \A i \in wanted : \E k \in 1..Len(segments) : f[k] = i
      /\ \A k, m \in 1..Len(segments) : k < m => f[k] < f[m]
      /\ \A k \in 1..Len(segments) : segments[k] = p[f[k]]
  BY <1>2, <1>3 DEF Enumerates
<1>5. init \in Seq(Lines)
  BY InitSegmentIs
<1>6. parts = init \o segments
  BY DEF ParsePlaylist
<1>7. CASE InitLines(p) = {}
  <2>1. init = <<>>
    BY <1>7, InitSegmentIs
  <2>2. \A i \in wanted : ~IsFragment(p[i])
    BY <1>7 DEF Unplayable
  <2> HIDE DEF init, segments, parts, wanted
  <2>3. parts = segments
    BY <1>1, <1>6, <2>1
  <2>4. f \in [1..(Len(parts) - 0) -> wanted] /\ DOMAIN f = 1..Len(parts)
    BY <1>1, <1>4, <2>3
  <2>5. \A k \in DOMAIN f : parts[0 + k] = p[f[k]]
    BY <1>1, <1>4, <2>3, <2>4
  <2>6. /\ \A i \in wanted : \E k \in DOMAIN f : f[k] = i
        /\ \A k, m \in DOMAIN f : k < m => f[k] < f[m]
    BY <1>4, <2>3, <2>4
  <2>7. SegmentsFollow(parts, 0, p)
    BY <2>4, <2>5, <2>6 DEF SegmentsFollow, wanted
  <2>8. \A i \in DOMAIN parts : ~IsFragment(parts[i])
    <3> SUFFICES ASSUME NEW i \in DOMAIN parts PROVE ~IsFragment(parts[i])
      OBVIOUS
    <3>1. i \in 1..Len(segments)
      BY <1>1, <2>3
    <3>2. f[i] \in wanted /\ parts[i] = p[f[i]]
      BY <1>4, <2>3, <3>1
    <3> QED
      BY <2>2, <3>2
  <2>9. IsWhole(parts, p)
    BY <1>7, <2>7, <2>8 DEF IsWhole
  <2> QED
    BY <1>1, <2>3, <2>9 DEF parts
<1>8. CASE InitLines(p) # {}
  <2>1. Len(init) = 1
    BY <1>8, InitSegmentIs
  <2>2. \E i \in InitLines(p) : init[1] = p[i] /\ \A j \in InitLines(p) : j <= i
    BY <1>8, InitSegmentIs
  <2> HIDE DEF init, segments, parts, wanted
  <2>3. parts \in Seq(Lines) /\ Len(parts) = 1 + Len(segments)
    <3>1. init \o segments \in Seq(Lines) /\ Len(init \o segments) = Len(init) + Len(segments)
      BY <1>1, <1>5, ConcatProperties
    <3> QED
      BY <1>6, <2>1, <3>1
  <2>4. parts[1] = init[1] /\ \A k \in 1..Len(segments) : parts[1 + k] = segments[k]
    <3>1. Len(segments) \in Nat
      BY <1>1
    <3>2. \A k \in 1..(Len(init) + Len(segments)) :
             (init \o segments)[k] = IF k <= Len(init) THEN init[k] ELSE segments[k - Len(init)]
      BY <1>1, <1>5, ConcatProperties
    <3>3. parts[1] = init[1]
      BY <1>6, <2>1, <3>1, <3>2
    <3>4. ASSUME NEW k \in 1..Len(segments) PROVE parts[1 + k] = segments[k]
      <4>1. 1 + k \in 1..(Len(init) + Len(segments)) /\ ~(1 + k <= Len(init)) /\ (1 + k) - Len(init) = k
        BY <2>1, <3>1
      <4> QED
        BY <1>6, <3>2, <4>1
    <3> QED
      BY <3>3, <3>4
  <2>5. f \in [1..(Len(parts) - 1) -> wanted] /\ DOMAIN f = 1..Len(segments)
    <3>1. Len(parts) - 1 = Len(segments)
      BY <1>1, <2>3
    <3> QED
      BY <1>4, <3>1
  <2>6. /\ \A k \in DOMAIN f : parts[1 + k] = p[f[k]]
        /\ \A i \in wanted : \E k \in DOMAIN f : f[k] = i
        /\ \A k, m \in DOMAIN f : k < m => f[k] < f[m]
    BY <1>4, <2>4, <2>5
  <2>7. \E i \in InitLines(p) : parts[1] = p[i] /\ \A j \in InitLines(p) : j <= i
    BY <2>2, <2>4
  <2>8. SegmentsFollow(parts, 1, p)
    BY <2>5, <2>6 DEF SegmentsFollow, wanted
  <2>9. IsWhole(parts, p)
    BY <1>8, <2>7, <2>8 DEF IsWhole
  <2> QED
    BY <2>3, <2>9 DEF parts
<1> QED
  BY <1>7, <1>8

----------------------------------------------------------------------------
(* The session a connection is made to.                                    *)

ClientFields == {"at", "asked", "session", "owner", "again", "up", "attempt", "delay"}

SessionOK ==
    /\ served \in Seq({"starting", "ready", "closed"})
    /\ DOMAIN client = ClientFields
    /\ client.owner \in BOOLEAN /\ client.again \in BOOLEAN
    /\ cache \in Nat

\* Locally the cache holds the session of a client that created it, and otherwise
\* one that this client knows of; elsewhere it holds none.
AskedInv ==
    /\ client.at \in {"polling", "poll_sleep"} => client.session = 0 /\ ~client.again
    /\ client.asked # 0 => client.asked \in known
    /\ client.at \in {"polling", "poll_sleep"} => client.asked # 0
    /\ client.owner => client.asked # 0 /\ (local => cache = client.asked)
    /\ cache # 0 => local /\ cache \in known
    /\ AnswersTheAsked

\* The host's other call never touches the connection.
LEMMA CallsApart == Host \/ Task => UNCHANGED connection
  BY DEF Host, Task, Download, reactor_fetch_jwt, reactor_upload, reactor_request_clip,
         DispatchClipRequest, reactor_download_clip, Refused, FetchJwt, CreateUpload, PutUpload,
         Fire, OpenFile, AskPlaylist, WakeDownload, FetchSegment, Flush

\* A client that only moves on, and forgets nothing of its session.
Keeps ==
    /\ DOMAIN client' = ClientFields
    /\ client'.asked = client.asked /\ client'.session = client.session /\ client'.owner = client.owner
    /\ client'.again \in BOOLEAN
    /\ client'.at \in {"polling", "poll_sleep"} =>
         client.at \in {"polling", "poll_sleep"} /\ client'.again = client.again
LEMMA MovesOn ==
  ASSUME SessionOK, AskedInv, Keeps, UNCHANGED <<local, served, cache, known>>
  PROVE SessionOK' /\ AskedInv'
  BY DEF Keeps, SessionOK, AskedInv, AnswersTheAsked

\* An attempt that fails moves on to its teardown.
LEMMA FailedStep ==
  ASSUME SessionOK, AskedInv, client' = Failed, UNCHANGED <<local, served, cache, known>>
  PROVE SessionOK' /\ AskedInv'
<1>1. Keeps
  BY DEF Failed, Keeps, SessionOK, ClientFields
<1> QED
  BY <1>1, MovesOn

\* The poll has settled on the session asked for, or locally on the one in the cache.
LEMMA SettledStep ==
  ASSUME SessionOK, AskedInv, client.at = "polling", NEW s, client' = Settled(s),
         s = client.asked \/ (local /\ cache # 0 /\ s = cache),
         UNCHANGED <<local, served, known>>,
         cache' = cache \/ (local /\ cache = 0 /\ cache' = client.asked /\ cache' \in Nat)
  PROVE SessionOK' /\ AskedInv'
<1>1. /\ DOMAIN client' = ClientFields /\ client'.at = "answering" /\ client'.session = s
      /\ client'.asked = client.asked /\ client'.owner = client.owner /\ client'.again = client.again
  BY DEF Settled, SessionOK, ClientFields
<1> QED
  BY <1>1 DEF SessionOK, AskedInv, AnswersTheAsked

\* Whatever is created, joined, polled, dropped or left, the client asks for one
\* session and goes by its answer or by the one that is cached.
LEMMA SessionStep == SessionOK /\ AskedInv /\ [Next]_vars => SessionOK' /\ AskedInv'
<1> SUFFICES ASSUME SessionOK, AskedInv, [Next]_vars PROVE SessionOK' /\ AskedInv'
  OBVIOUS
<1>1. CASE CreateSession
  <2>1. CASE client' = Failed /\ UNCHANGED <<served, cache, known>>
    BY <1>1, <2>1, FailedStep DEF CreateSession
  <2>2. CASE /\ served' = Append(served, "starting")
             /\ client' = Polls(Len(served'), TRUE)
             /\ cache' = IF local THEN Len(served') ELSE cache
             /\ known' = known \union {Len(served')}
    <3>1. served' \in Seq({"starting", "ready", "closed"}) /\ Len(served') \in Nat \ {0}
      BY <2>2 DEF SessionOK
    <3>2. /\ DOMAIN client' = ClientFields /\ client'.at = "polling" /\ client'.session = 0
          /\ client'.asked = Len(served') /\ client'.owner = TRUE /\ client'.again = FALSE
      BY <2>2 DEF Polls, Idle, ClientFields
    <3> QED
      BY <1>1, <2>2, <3>1, <3>2 DEF CreateSession, SessionOK, AskedInv, AnswersTheAsked
  <2> QED
    BY <1>1, <2>1, <2>2 DEF CreateSession
<1>2. CASE JoinSession
  <2>1. PICK s \in 1..Len(served) : client' = Polls(s, FALSE) /\ known' = known \union {s}
    BY <1>2 DEF JoinSession
  <2>2. /\ DOMAIN client' = ClientFields /\ client'.at = "polling" /\ client'.session = 0
        /\ client'.asked = s /\ client'.owner = FALSE /\ client'.again = FALSE
    BY <2>1 DEF Polls, Idle, ClientFields
  <2>3. UNCHANGED <<local, served, cache>> /\ s # 0
    BY <1>2 DEF JoinSession
  <2> QED
    BY <2>1, <2>2, <2>3 DEF SessionOK, AskedInv, AnswersTheAsked
<1>3. CASE PollSessionReady
  <2>1. UNCHANGED <<local, served, known>> /\ client.at = "polling"
    BY <1>3 DEF PollSessionReady
  <2>2. CASE ~local
    <3>1. \/ client' = Failed \/ client' = Settled(client.asked)
          \/ client' = [client EXCEPT !.at = "poll_sleep"]
      BY <1>3, <2>2 DEF PollSessionReady, GetSession
    <3>2. UNCHANGED cache
      BY <1>3, <2>2 DEF PollSessionReady, GetSession
    <3>3. CASE client' = [client EXCEPT !.at = "poll_sleep"]
      <4>1. Keeps
        BY <2>1, <3>3 DEF Keeps, SessionOK, ClientFields
      <4> QED
        BY <2>1, <3>2, <4>1, MovesOn
    <3> QED
      BY <2>1, <3>1, <3>2, <3>3, FailedStep, SettledStep
  <2>3. CASE local /\ cache # 0
    <3>1. client' = Settled(cache) /\ UNCHANGED cache
      BY <1>3, <2>3 DEF PollSessionReady, CachedSession
    <3> QED
      BY <2>1, <2>3, <3>1, SettledStep
  <2>4. CASE local /\ cache = 0
    <3>1. \/ client' = Failed /\ UNCHANGED cache
          \/ /\ Len(served) = client.asked /\ client' = Settled(Len(served))
             /\ cache' = Len(served)
      BY <1>3, <2>4 DEF PollSessionReady, LocalGetSession, Adoptable
    <3>2. Len(served) \in Nat
      BY DEF SessionOK
    <3> QED
      BY <2>1, <2>4, <3>1, <3>2, FailedStep, SettledStep
  <2> QED
    BY <2>2, <2>3, <2>4
<1>4. CASE PollSdpAnswer
  <2>1. UNCHANGED <<local, served, cache, known>>
    BY <1>4 DEF PollSdpAnswer
  <2>2. \/ client' = [client EXCEPT !.at = "answer_sleep"]
        \/ client' = Failed
        \/ client' = [client EXCEPT !.at = "ready", !.up = TRUE, !.attempt = 0, !.delay = 0]
    BY <1>4 DEF PollSdpAnswer
  <2>3. client' = Failed \/ Keeps
    BY <2>2 DEF Keeps, SessionOK, ClientFields
  <2> QED
    BY <2>1, <2>3, FailedStep, MovesOn
<1>5. CASE Wake
  <2>1. UNCHANGED <<local, served, cache, known>>
    BY <1>5 DEF Wake
  <2>2. \/ client' = Failed
        \/ \E n, d : client' = [client EXCEPT !.at = "answering", !.attempt = n, !.delay = d]
        \/ \E n, d : /\ client.at = "poll_sleep"
                     /\ client' = [client EXCEPT !.at = "polling", !.attempt = n, !.delay = d]
    BY <1>5 DEF Wake, Awake
  <2>3. client' = Failed \/ Keeps
    BY <2>2 DEF Keeps, SessionOK, ClientFields
  <2> QED
    BY <2>1, <2>3, FailedStep, MovesOn
<1>6. CASE Disconnect \/ Drop
  <2>1. PICK a \in {"leaving", "losing"} : client' = [client EXCEPT !.at = a]
    BY <1>6 DEF Disconnect, Drop
  <2>2. Keeps
    BY <2>1 DEF Keeps, SessionOK, ClientFields
  <2> QED
    BY <1>6, <2>2, MovesOn DEF Disconnect, Drop
<1>7. CASE SessionKept
  <2>1. Keeps
    BY <1>7 DEF SessionKept, Keeps, SessionOK, ClientFields
  <2> QED
    BY <1>7, <2>1, MovesOn DEF SessionKept
<1>8. CASE Reconnect
  <2>1. Keeps
    BY <1>8 DEF Reconnect, Keeps, SessionOK, ClientFields
  <2> QED
    BY <1>8, <2>1, MovesOn DEF Reconnect
<1>9. CASE TerminateSession
  <2>1. /\ DOMAIN client' = ClientFields /\ client'.at = "idle" /\ client'.asked = 0
        /\ client'.session = 0 /\ client'.owner = FALSE /\ client'.again = FALSE
    BY <1>9 DEF TerminateSession, Idle, ClientFields
  <2>2. served' \in Seq({"starting", "ready", "closed"})
    BY <1>9 DEF TerminateSession, SessionOK
  <2>3. UNCHANGED local
    BY <1>9 DEF TerminateSession
  <2>4. CASE client.owner
    <3>1. cache' = IF local THEN 0 ELSE cache
      BY <1>9, <2>4 DEF TerminateSession, ClearedCache
    <3> QED
      BY <2>1, <2>2, <2>3, <3>1 DEF SessionOK, AskedInv, AnswersTheAsked
  <2>5. CASE ~client.owner
    <3>1. UNCHANGED <<cache, known>>
      BY <1>9, <2>5 DEF TerminateSession
    <3> QED
      BY <2>1, <2>2, <2>3, <3>1 DEF SessionOK, AskedInv, AnswersTheAsked
  <2> QED
    BY <2>4, <2>5
<1>10. CASE Platform
  <2>1. served' \in Seq({"starting", "ready", "closed"})
    BY <1>10 DEF Platform, SessionOK
  <2> QED
    BY <1>10, <2>1 DEF Platform, SessionOK, AskedInv, AnswersTheAsked
<1>11. CASE Host \/ Task
  <2>1. UNCHANGED connection
    BY <1>11, CallsApart
  <2> QED
    BY <2>1 DEF connection, SessionOK, AskedInv, AnswersTheAsked
<1>12. CASE UNCHANGED vars
  BY <1>12 DEF vars, SessionOK, AskedInv, AnswersTheAsked
<1> QED
  BY <1>1, <1>2, <1>3, <1>4, <1>5, <1>6, <1>7, <1>8, <1>9, <1>10, <1>11, <1>12 DEF Next, Connection

\* A connection goes by the session asked for or, locally, by the one in the cache,
\* which this client created or asked for and has not ended since; never by one it
\* ended or another that the runtime serves, and by its own when it created one.
THEOREM AskedAnswered == Spec => []AnswersTheAsked
<1>1. Init => SessionOK /\ AskedInv
  BY DEF Init, SessionOK, AskedInv, AnswersTheAsked, Idle, ClientFields
<1>2. AskedInv => AnswersTheAsked
  BY DEF AskedInv
<1> QED
  BY <1>1, <1>2, SessionStep, PTL DEF Spec

----------------------------------------------------------------------------
(* The host's other call.                                                  *)

CallFields == {"kind", "at", "result", "session", "left", "handle", "todo", "asked", "file", "kept"}

\* A download writes what it takes off its list, so that the two are the playlist's
\* segments throughout; one that ended has written them all, or removed the file.
DownloadInv ==
    /\ DOMAIN call.file = {"there", "parts"}
    /\ call.at = "opening" => ~call.file.there
    /\ call.at \in {"asking", "sleeping", "fetching"} => call.file.there
    /\ call.at \in {"opening", "asking", "sleeping"} => call.file.parts = <<>>
    /\ call.at = "fetching" =>
         /\ call.asked.playlist \in Playlists /\ ~Unplayable(call.asked.playlist)
         /\ call.todo \in Seq(Lines) /\ call.file.parts \in Seq(Lines)
         /\ call.file.parts \o call.todo = ParsePlaylist(call.asked.playlist)
    /\ call.at = "resolved" =>
         /\ call.result = Ok =>
              /\ call.asked.playlist \in Playlists /\ ~Unplayable(call.asked.playlist)
              /\ call.file.parts = ParsePlaylist(call.asked.playlist) /\ call.file.there
         /\ call.result # Ok /\ ~call.kept => ~call.file.there

\* A token request is in its call until it is sent, and a request that is waited for
\* is a clip's.
CallInv ==
    /\ DOMAIN call = CallFields
    /\ call.kind = "fetch_jwt" /\ call.at = "asking" => call.asked \in TokenRequests
    /\ call.at = "awaiting" => call.kind = "clip"
    /\ call.kind = "download" => DownloadInv

\* A status that is an error is no success.
LEMMA ErrorsAreNotOk ==
  /\ \A r \in Answer : CheckStatus(r) # None => CheckStatus(r) # Ok
  /\ \A v \in {"Http", "Timeout", "Decode", "InvalidState"} : Error(v) # Ok
  BY DEF CheckStatus, Ok, Error, StatusError

\* What resolving a call leaves of it.
LEMMA ResolvedIs ==
  ASSUME DOMAIN call = CallFields, NEW e
  PROVE /\ DOMAIN Resolved(e) = CallFields
        /\ Resolved(e).kind = call.kind /\ Resolved(e).at = "resolved" /\ Resolved(e).result = e
        /\ Resolved(e).asked = call.asked /\ Resolved(e).file = call.file
        /\ Resolved(e).kept = call.kept
  BY DEF Resolved, CallFields

\* What a new call is.
LEMMA StartedIs ==
  ASSUME NEW k, NEW a
  PROVE /\ DOMAIN Started(k, a) = CallFields
        /\ Started(k, a).kind = k /\ Started(k, a).at = a /\ Started(k, a).asked = None
        /\ Started(k, a).file = [there |-> FALSE, parts |-> <<>>]
  BY DEF Started, CallFields, NoFile

\* A download that fails removes its file, when it can.
LEMMA FailsStep == ASSUME CallInv, call.kind = "download", NEW e, e # Ok, Fails(e) PROVE CallInv'
<1>1. PICK removed \in BOOLEAN :
        call' = [Resolved(e) EXCEPT !.file = RemoveFile(removed), !.kept = ~removed, !.asked = None]
  BY DEF Fails
<1>2. DOMAIN Resolved(e) = CallFields /\ Resolved(e).kind = "download" /\ Resolved(e).at = "resolved"
        /\ Resolved(e).result = e
  BY ResolvedIs DEF CallInv
<1> HIDE DEF Resolved
<1>3. /\ DOMAIN call' = CallFields /\ call'.kind = "download" /\ call'.at = "resolved"
      /\ call'.result = e /\ call'.kept = ~removed /\ call'.file = RemoveFile(removed)
  BY <1>1, <1>2 DEF CallFields
<1>4. DOMAIN RemoveFile(removed) = {"there", "parts"} /\ RemoveFile(removed).there = ~removed
  BY DEF RemoveFile, NoFile
<1> QED
  BY <1>3, <1>4 DEF CallInv, DownloadInv

\* Moving the head of one sequence to the end of another leaves what they are together.
LEMMA MovedHead ==
  ASSUME NEW s \in Seq(Lines), NEW t \in Seq(Lines), t # <<>>
  PROVE /\ Append(s, Head(t)) \in Seq(Lines) /\ Tail(t) \in Seq(Lines)
        /\ Append(s, Head(t)) \o Tail(t) = s \o t
<1>1. Head(t) \in Lines /\ Tail(t) \in Seq(Lines) /\ Len(t) \in Nat \ {0}
  BY HeadTailProperties, EmptySeq
<1>2. t = <<Head(t)>> \o Tail(t)
  BY <1>1
<1>3. Append(s, Head(t)) = s \o <<Head(t)>> /\ Append(s, Head(t)) \in Seq(Lines)
  BY <1>1
<1>4. <<Head(t)>> \in Seq(Lines)
  BY <1>1
<1>5. (s \o <<Head(t)>>) \o Tail(t) = s \o (<<Head(t)>> \o Tail(t))
  BY <1>1, <1>4, ConcatAssociative
<1> QED
  BY <1>1, <1>2, <1>3, <1>5

\* The connection refuses a clip that is waited for, and touches no other call.
LEMMA ConnectionStep == CallInv /\ (Connection \/ Platform) => CallInv'
<1> SUFFICES ASSUME CallInv, Connection \/ Platform PROVE CallInv'
  OBVIOUS
<1>1. call' = call \/ call' = Rejected
  BY DEF Connection, Platform, CreateSession, JoinSession, PollSessionReady,
         PollSdpAnswer, Wake, Disconnect, Drop, SessionKept, Reconnect, TerminateSession
<1>2. CASE call' = call
  BY <1>2 DEF CallInv, DownloadInv
<1>3. CASE call.at = "awaiting" /\ call' = Rejected
  <2>1. DOMAIN call' = CallFields /\ call'.kind = "clip" /\ call'.at = "resolved"
    BY <1>3 DEF Rejected, CallInv, CallFields
  <2> QED
    BY <2>1 DEF CallInv
<1> QED
  BY <1>1, <1>2, <1>3 DEF Rejected

\* An argument is refused.
LEMMA RefusedStep == ASSUME NEW k, Refused(k) PROVE CallInv'
<1> DEFINE started == Started(k, "resolved")
<1>1. call' = [started EXCEPT !.result = Error("InvalidState")]
  BY DEF Refused
<1>2. /\ DOMAIN started = CallFields /\ started.kind = k /\ started.at = "resolved"
      /\ started.file = [there |-> FALSE, parts |-> <<>>]
  BY StartedIs
<1> HIDE DEF started
<1>3. /\ DOMAIN call' = CallFields /\ call'.kind = k /\ call'.at = "resolved"
      /\ call'.result = Error("InvalidState") /\ call'.file = [there |-> FALSE, parts |-> <<>>]
  BY <1>1, <1>2 DEF CallFields
<1> QED
  BY <1>3, ErrorsAreNotOk DEF CallInv, DownloadInv

\* What a host's new call begins with.
LEMMA HostStep == CallInv /\ Host => CallInv'
<1> SUFFICES ASSUME CallInv, Host PROVE CallInv'
  OBVIOUS
<1>1. CASE reactor_fetch_jwt
  <2>1. CASE Refused("fetch_jwt")
    BY <2>1, RefusedStep
  <2>2. CASE \E q \in TokenRequests : call' = [Started("fetch_jwt", "asking") EXCEPT !.asked = q]
    BY <2>2, StartedIs DEF CallInv, CallFields
  <2> QED
    BY <1>1, <2>1, <2>2 DEF reactor_fetch_jwt
<1>2. CASE reactor_upload
  <2>1. CASE Refused("upload")
    BY <2>1, RefusedStep
  <2>2. CASE call' = [Started("upload", "asking") EXCEPT !.session = client.asked]
    BY <2>2, StartedIs DEF CallInv, CallFields
  <2> QED
    BY <1>2, <2>1, <2>2 DEF reactor_upload
<1>3. CASE reactor_request_clip
  <2>1. \/ call' = Started("clip", "awaiting")
        \/ \E e : call' = [Started("clip", "resolved") EXCEPT !.result = e]
    BY <1>3 DEF reactor_request_clip
  <2>2. DOMAIN call' = CallFields /\ call'.kind = "clip"
    BY <2>1, StartedIs DEF CallFields
  <2>3. call'.at \in {"awaiting", "resolved"}
    BY <2>1, StartedIs DEF CallFields
  <2> QED
    BY <2>2, <2>3 DEF CallInv
<1>4. CASE reactor_download_clip
  <2>1. CASE Refused("download")
    BY <2>1, RefusedStep
  <2>2. CASE \E g \in Graces, p \in Predictions, h \in BOOLEAN :
            call' = [Started("download", "opening") EXCEPT !.left = Remaining(g, p), !.handle = h]
    <3>1. /\ DOMAIN call' = CallFields /\ call'.kind = "download" /\ call'.at = "opening"
          /\ call'.file = [there |-> FALSE, parts |-> <<>>]
      BY <2>2, StartedIs DEF CallFields
    <3> QED
      BY <3>1 DEF CallInv, DownloadInv
  <2> QED
    BY <1>4, <2>1, <2>2 DEF reactor_download_clip
<1> QED
  BY <1>1, <1>2, <1>3, <1>4 DEF Host

\* A step of the call that changes where it is, and of the rest only the budget.
LEMMA MovedOn ==
  ASSUME CallInv, call.kind = "download", call.at \in {"asking", "sleeping"},
         NEW a \in {"asking", "sleeping", "panicked"},
         NEW n, call' = [call EXCEPT !.at = a, !.left = n]
  PROVE CallInv'
<1>1. /\ DOMAIN call' = CallFields /\ call'.kind = "download" /\ call'.at = a
      /\ call'.file = call.file /\ call.file.parts = <<>>
  BY DEF CallInv, DownloadInv, CallFields
<1> QED
  BY <1>1 DEF CallInv, DownloadInv

\* A clip that is not there yet: the download waits, or gives up.
LEMMA NotYetStep ==
  ASSUME CallInv, call.kind = "download", call.at = "asking", NEW h, NotYet(h) PROVE CallInv'
<1>1. CASE Fails(Error("Timeout"))
  BY <1>1, FailsStep, ErrorsAreNotOk
<1>2. CASE call' = [call EXCEPT !.at = "panicked"] \/ call' = [call EXCEPT !.at = "sleeping"]
  <2>1. \/ call' = [call EXCEPT !.at = "panicked", !.left = call.left]
        \/ call' = [call EXCEPT !.at = "sleeping", !.left = call.left]
    BY <1>2 DEF CallInv, CallFields
  <2> QED
    BY <2>1, MovedOn
<1>3. CASE call' = [call EXCEPT !.at = "sleeping", !.left = @ - Least(RetryDelay(h), @)]
  <2>1. \E n : call' = [call EXCEPT !.at = "sleeping", !.left = n]
    BY <1>3
  <2> QED
    BY <2>1, MovedOn
<1> QED
  BY <1>1, <1>2, <1>3 DEF NotYet

\* The playlist arrives: nothing of it is written, all of it is still to fetch.
LEMMA FetchingStep ==
  ASSUME CallInv, call.kind = "download", call.at = "asking", NEW p \in Playlists, ~Unplayable(p),
         call' = [call EXCEPT !.at = "fetching", !.todo = ParsePlaylist(p),
                              !.asked = [playlist |-> p], !.left = 0, !.handle = FALSE]
  PROVE CallInv'
<1>1. /\ DOMAIN call' = CallFields /\ call'.kind = "download" /\ call'.at = "fetching"
      /\ call'.todo = ParsePlaylist(p) /\ call'.asked.playlist = p
      /\ call'.file = call.file /\ call.file.parts = <<>>
  BY DEF CallInv, DownloadInv, CallFields
<1>2. ParsePlaylist(p) \in Seq(Lines)
  BY PlaylistsAssumption, ParsedWhole
<1>3. <<>> \o ParsePlaylist(p) = ParsePlaylist(p) /\ <<>> \in Seq(Lines)
  BY <1>2, ConcatEmptySeq
<1> HIDE DEF ParsePlaylist
<1> QED
  BY <1>1, <1>2, <1>3 DEF CallInv, DownloadInv

\* A segment is written as it is taken off the list.
LEMMA WrittenStep ==
  ASSUME CallInv, call.kind = "download", call.at = "fetching", call.todo # <<>>,
         call' = [call EXCEPT !.todo = Tail(@), !.file.parts = Append(@, Head(call.todo))]
  PROVE CallInv'
<1>1. /\ DOMAIN call' = CallFields /\ call'.kind = "download" /\ call'.at = "fetching"
      /\ call'.todo = Tail(call.todo) /\ call'.asked = call.asked
      /\ call'.file = [call.file EXCEPT !.parts = Append(@, Head(call.todo))]
  BY DEF CallInv, DownloadInv, CallFields
<1>2. /\ DOMAIN call.file = {"there", "parts"} /\ call.file.there
      /\ call.todo \in Seq(Lines) /\ call.file.parts \in Seq(Lines)
      /\ call.asked.playlist \in Playlists /\ ~Unplayable(call.asked.playlist)
      /\ call.file.parts \o call.todo = ParsePlaylist(call.asked.playlist)
  BY DEF CallInv, DownloadInv
<1>3. /\ DOMAIN call'.file = {"there", "parts"} /\ call'.file.there
      /\ call'.file.parts = Append(call.file.parts, Head(call.todo))
  <2>1. \A f, g, x : DOMAIN f = {"there", "parts"} /\ g = [f EXCEPT !.parts = x]
                     => DOMAIN g = {"there", "parts"} /\ g.there = f.there /\ g.parts = x
    OBVIOUS
  <2>2. DOMAIN call.file = {"there", "parts"}
    BY <1>2
  <2>3. call'.file = [call.file EXCEPT !.parts = Append(call.file.parts, Head(call.todo))]
    BY <1>1
  <2>4. /\ DOMAIN call'.file = {"there", "parts"} /\ call'.file.there = call.file.there
        /\ call'.file.parts = Append(call.file.parts, Head(call.todo))
    BY ONLY <2>1, <2>2, <2>3, Zenon
  <2>5. call.file.there
    BY <1>2
  <2> QED
    BY ONLY <2>4, <2>5, Zenon
<1>4. /\ Append(call.file.parts, Head(call.todo)) \in Seq(Lines) /\ Tail(call.todo) \in Seq(Lines)
      /\ Append(call.file.parts, Head(call.todo)) \o Tail(call.todo) = call.file.parts \o call.todo
  BY <1>2, MovedHead
<1>5. /\ call'.todo \in Seq(Lines) /\ call'.file.parts \in Seq(Lines)
      /\ call'.file.parts \o call'.todo = ParsePlaylist(call'.asked.playlist)
      /\ call'.asked.playlist \in Playlists /\ ~Unplayable(call'.asked.playlist)
  BY <1>1, <1>2, <1>3, <1>4
<1>6. DOMAIN call' = CallFields /\ call'.kind = "download" /\ call'.at = "fetching"
  BY <1>1
<1>7. DownloadInv'
  BY <1>3, <1>5, <1>6 DEF DownloadInv
<1> QED
  BY <1>6, <1>7 DEF CallInv

\* With nothing left on the list the file is the whole clip.
LEMMA FlushedStep ==
  ASSUME CallInv, call.kind = "download", call.at = "fetching", call.todo = <<>>,
         call' = Resolved(Ok)
  PROVE CallInv'
<1>1. /\ DOMAIN call' = CallFields /\ call'.kind = "download" /\ call'.at = "resolved"
      /\ call'.result = Ok /\ call'.asked = call.asked /\ call'.file = call.file
  BY ResolvedIs DEF CallInv
<1>2. /\ DOMAIN call.file = {"there", "parts"} /\ call.file.parts \in Seq(Lines)
      /\ call.asked.playlist \in Playlists /\ ~Unplayable(call.asked.playlist)
      /\ call.file.parts \o <<>> = ParsePlaylist(call.asked.playlist)
  BY DEF CallInv, DownloadInv
<1>3. call.file.parts \o <<>> = call.file.parts
  BY <1>2, ConcatEmptySeq
<1> QED
  BY <1>1, <1>2, <1>3 DEF CallInv, DownloadInv

\* A call that is no download may end as it likes.
LEMMA EndedStep ==
  ASSUME CallInv, call.kind \in {"fetch_jwt", "upload", "clip"},
         DOMAIN call' = CallFields, call'.kind = call.kind, call'.at \notin {"asking", "awaiting"}
  PROVE CallInv'
  BY DEF CallInv

\* Every step of a call's own task.
LEMMA TaskStep == CallInv /\ Task => CallInv'
<1> SUFFICES ASSUME CallInv, Task PROVE CallInv'
  OBVIOUS
<1>1. CASE FetchJwt
  <2>1. PICK e : call' = [Resolved(e) EXCEPT !.asked = None]
    BY <1>1 DEF FetchJwt
  <2>2. DOMAIN Resolved(e) = CallFields /\ Resolved(e).kind = call.kind /\ Resolved(e).at = "resolved"
    BY ResolvedIs DEF CallInv
  <2> HIDE DEF Resolved
  <2>3. DOMAIN call' = CallFields /\ call'.kind = call.kind /\ call'.at = "resolved"
    BY <2>1, <2>2 DEF CallFields
  <2> QED
    BY <1>1, <2>3, EndedStep DEF FetchJwt
<1>2. CASE CreateUpload \/ PutUpload
  <2>1. PICK e : call' = Resolved(e) \/ call' = [call EXCEPT !.at = "putting"]
    BY <1>2 DEF CreateUpload, PutUpload
  <2>2. DOMAIN Resolved(e) = CallFields /\ Resolved(e).kind = call.kind /\ Resolved(e).at = "resolved"
    BY ResolvedIs DEF CallInv
  <2> HIDE DEF Resolved
  <2>3. DOMAIN call' = CallFields /\ call'.kind = call.kind /\ call'.at \in {"resolved", "putting"}
    BY <2>1, <2>2 DEF CallFields, CallInv
  <2> QED
    BY <1>2, <2>3, EndedStep DEF CreateUpload, PutUpload
<1>3. CASE Fire
  <2>1. DOMAIN call' = CallFields /\ call'.kind = "none" /\ call'.at = "done"
    BY <1>3, StartedIs DEF Fire, NoCall, CallFields
  <2> QED
    BY <2>1 DEF CallInv
<1>4. CASE OpenFile
  <2>1. CASE call' = [call EXCEPT !.at = "asking", !.file.there = TRUE]
    <3>1. /\ DOMAIN call' = CallFields /\ call'.kind = "download" /\ call'.at = "asking"
          /\ call'.file = [call.file EXCEPT !.there = TRUE]
      BY <1>4, <2>1 DEF OpenFile, CallInv, CallFields
    <3>2. DOMAIN call.file = {"there", "parts"} /\ call.file.parts = <<>>
      BY <1>4 DEF OpenFile, CallInv, DownloadInv
    <3> QED
      BY <3>1, <3>2 DEF CallInv, DownloadInv
  <2>2. CASE call' = Resolved(Error("Http"))
    <3>1. /\ DOMAIN call' = CallFields /\ call'.kind = "download" /\ call'.at = "resolved"
          /\ call'.result = Error("Http") /\ call'.file = call.file
      BY <1>4, <2>2, ResolvedIs DEF OpenFile, CallInv
    <3>2. DOMAIN call.file = {"there", "parts"} /\ ~call.file.there
      BY <1>4 DEF OpenFile, CallInv, DownloadInv
    <3> QED
      BY <3>1, <3>2, ErrorsAreNotOk DEF CallInv, DownloadInv
  <2> QED
    BY <1>4, <2>1, <2>2 DEF OpenFile
<1>5. CASE AskPlaylist
  <2>1. call.kind = "download" /\ call.at = "asking"
    BY <1>5 DEF AskPlaylist
  <2>2. ASSUME NEW h \in Hints, NotYet(h) PROVE CallInv'
    BY <2>1, <2>2, NotYetStep
  <2>3. ASSUME NEW r \in Answer, CheckStatus(r) # None, Fails(CheckStatus(r)) PROVE CallInv'
    BY <2>1, <2>3, FailsStep, ErrorsAreNotOk
  <2>4. ASSUME Fails(Error("Decode")) PROVE CallInv'
    BY <2>1, <2>4, FailsStep, ErrorsAreNotOk
  <2>5. ASSUME NEW p \in Playlists, ~Unplayable(p),
               call' = [call EXCEPT !.at = "fetching", !.todo = ParsePlaylist(p),
                                    !.asked = [playlist |-> p], !.left = 0, !.handle = FALSE]
        PROVE CallInv'
    BY <2>1, <2>5, FetchingStep
  <2> HIDE DEF CallInv
  <2> QED
    BY <1>5, <2>2, <2>3, <2>4, <2>5 DEF AskPlaylist
<1>6. CASE WakeDownload
  <2>1. call' = [call EXCEPT !.at = "asking", !.left = call.left]
    BY <1>6 DEF WakeDownload, CallInv, CallFields
  <2> QED
    BY <1>6, <2>1, MovedOn DEF WakeDownload
<1>7. CASE FetchSegment
  <2>1. call.kind = "download" /\ call.at = "fetching" /\ call.todo # <<>>
    BY <1>7 DEF FetchSegment
  <2>2. ASSUME NEW r \in Answer, CheckStatus(r) # None, Fails(CheckStatus(r)) PROVE CallInv'
    BY <2>1, <2>2, FailsStep, ErrorsAreNotOk
  <2>3. ASSUME Fails(Error("Http")) PROVE CallInv'
    BY <2>1, <2>3, FailsStep, ErrorsAreNotOk
  <2>4. ASSUME call' = [call EXCEPT !.todo = Tail(@), !.file.parts = Append(@, Head(call.todo))]
        PROVE CallInv'
    BY <2>1, <2>4, WrittenStep
  <2> HIDE DEF CallInv
  <2> QED
    BY <1>7, <2>2, <2>3, <2>4 DEF FetchSegment
<1>8. CASE Flush
  <2>1. CASE call' = Resolved(Ok)
    BY <1>8, <2>1, FlushedStep DEF Flush
  <2>2. CASE Fails(Error("Http"))
    BY <1>8, <2>2, FailsStep, ErrorsAreNotOk DEF Flush
  <2> QED
    BY <1>8, <2>1, <2>2 DEF Flush
<1>9. CASE DispatchClipRequest
  <2>1. PICK e : call' = Resolved(e)
    BY <1>9 DEF DispatchClipRequest
  <2>2. DOMAIN call' = CallFields /\ call'.kind = call.kind /\ call'.at = "resolved"
    BY <2>1, ResolvedIs DEF CallInv
  <2>3. call.kind = "clip"
    BY <1>9 DEF DispatchClipRequest, CallInv
  <2> QED
    BY <2>2, <2>3, EndedStep
<1> QED
  BY <1>1, <1>2, <1>3, <1>4, <1>5, <1>6, <1>7, <1>8, <1>9 DEF Task, Download

\* The call's invariant is kept by every step of the client.
LEMMA CallStep == CallInv /\ [Next]_vars => CallInv'
<1> SUFFICES ASSUME CallInv, [Next]_vars PROVE CallInv'
  OBVIOUS
<1>1. CASE UNCHANGED vars
  BY <1>1 DEF vars, CallInv, DownloadInv
<1> QED
  BY <1>1, ConnectionStep, HostStep, TaskStep DEF Next

\* It holds of no call at all.
LEMMA CallInit == Init => CallInv
<1> SUFFICES ASSUME Init PROVE CallInv
  OBVIOUS
<1>1. call = Started("none", "none")
  BY DEF Init, NoCall
<1> QED
  BY <1>1, StartedIs DEF CallInv

\* A download that succeeded left part for part what its playlist names, the map first
\* and every segment once and in order, and one that failed no file unless removing it
\* failed, for every playlist, and whatever the connection does meanwhile.
THEOREM WholeClip == Spec => []WholeClipOrNone
<1>1. CallInv => WholeClipOrNone
  <2> SUFFICES ASSUME CallInv, call.kind = "download", call.at = "resolved"
               PROVE /\ call.result = Ok => call.file.there /\ IsWhole(call.file.parts, call.asked.playlist)
                     /\ call.result # Ok => ~call.file.there \/ call.kept
    BY DEF WholeClipOrNone
  <2>1. CASE call.result = Ok
    <3>1. /\ call.asked.playlist \in Seq(Lines) /\ ~Unplayable(call.asked.playlist)
          /\ call.file.parts = ParsePlaylist(call.asked.playlist) /\ call.file.there
      BY <2>1, PlaylistsAssumption DEF CallInv, DownloadInv
    <3> QED
      BY <2>1, <3>1, ParsedWhole
  <2>2. CASE call.result # Ok
    BY <2>2 DEF CallInv, DownloadInv
  <2> QED
    BY <2>1, <2>2
<1> QED
  BY <1>1, CallInit, CallStep, PTL DEF Spec

\* What a segment's request is sent to: the playlist's origin or the storage.
LEMMA Origins == ASSUME NEW s \in Lines PROVE JoinUrl(s) \in {"none", "home", "storage"}
  BY DEF Lines, JoinUrl

\* The API key goes to the token endpoint alone, the bearer token to the coordinator
\* and the playlist's own origin, and a scoped or bound token is never asked for as
\* an open one, for every playlist and token.
THEOREM CredentialsAtHome == Spec => []CredentialsStayHome
<1>1. Init => CredentialsStayHome
  BY DEF Init, CredentialsStayHome, Nobody
<1>2. ASSUME Silent PROVE CredentialsStayHome'
  BY <1>2 DEF Silent, CredentialsStayHome, Nobody
<1>3. ASSUME NEW to \in {"coordinator", "home"}, NEW c \in {"bearer", "none"}, Sends(to, c)
      PROVE CredentialsStayHome'
  BY <1>3 DEF Sends, CredentialsStayHome
<1>4. Credential \in {"bearer", "none"} /\ Token \in {"bearer", "none"}
  BY TokenAssumption DEF Credential
<1>5. CallInv /\ CredentialsStayHome /\ [Next]_vars => CredentialsStayHome'
  <2> SUFFICES ASSUME CallInv, CredentialsStayHome, [Next]_vars PROVE CredentialsStayHome'
    OBVIOUS
  <2>1. CASE UNCHANGED vars
    BY <2>1 DEF vars, CredentialsStayHome
  <2>2. CASE Connection \/ Platform
    <3>1. Silent \/ Sends("coordinator", Credential) \/ Sends("coordinator", Token)
      BY <2>2 DEF Connection, Platform, CreateSession, JoinSession, PollSessionReady, GetSession,
                  CachedSession, LocalGetSession, PollSdpAnswer, Wake, Disconnect, Drop, SessionKept,
                  Reconnect, TerminateSession
    <3> QED
      BY <1>2, <1>3, <1>4, <3>1
  <2>3. CASE Host
    <3>1. Silent
      BY <2>3 DEF Host, reactor_fetch_jwt, reactor_upload, reactor_request_clip,
                  reactor_download_clip, Refused
    <3> QED
      BY <1>2, <3>1
  <2>4. CASE FetchJwt
    <3> DEFINE q == call.asked
    <3>1. q \in TokenRequests
      BY <2>4 DEF FetchJwt, CallInv
    <3>2. sent' = [to |-> "tokens", credential |-> "key", asked |-> q, body |-> TokenBody(q)]
      BY <2>4 DEF FetchJwt
    <3> HIDE DEF q
    <3>3. /\ q.models => TokenBody(q).scope = "models"
          /\ q.sessions => TokenBody(q).scope # "open" /\ TokenBody(q).bound
      BY <3>1 DEF TokenRequests, TokenBody, Scoped
    <3> QED
      BY <3>2, <3>3 DEF CredentialsStayHome
  <2>5. CASE CreateUpload
    BY <1>3, <1>4, <2>5 DEF CreateUpload
  <2>6. CASE PutUpload
    <3>1. sent'.to = "storage" /\ sent'.credential = "none"
      BY <2>6 DEF PutUpload
    <3> QED
      BY <3>1 DEF CredentialsStayHome
  <2>7. CASE OpenFile \/ WakeDownload \/ Flush \/ Fire \/ DispatchClipRequest
    BY <1>2, <2>7 DEF OpenFile, WakeDownload, Flush, Fire, DispatchClipRequest
  <2>8. CASE AskPlaylist
    BY <1>3, <1>4, <2>8 DEF AskPlaylist
  <2>9. CASE FetchSegment
    <3> DEFINE to == JoinUrl(Head(call.todo))
               c == IF SameOrigin(to) THEN Token ELSE "none"
    <3>1. Head(call.todo) \in Lines
      BY <2>9 DEF FetchSegment, CallInv, DownloadInv
    <3>2. to \in {"none", "home", "storage"}
      BY <3>1, Origins
    <3>3. sent' = [to |-> to, credential |-> c]
      BY <2>9 DEF FetchSegment, Sends
    <3> HIDE DEF to
    <3>4. c \in {"bearer", "none"} /\ (c = "bearer" => to = "home")
      BY <1>4 DEF SameOrigin
    <3> QED
      BY <3>2, <3>3, <3>4 DEF CredentialsStayHome
  <2> QED
    BY <2>1, <2>2, <2>3, <2>4, <2>5, <2>6, <2>7, <2>8, <2>9 DEF Next, Task, Download
<1> QED
  BY <1>1, <1>5, CallInit, CallStep, PTL DEF Spec
=============================================================================
