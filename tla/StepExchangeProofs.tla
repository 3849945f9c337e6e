------------------------- MODULE StepExchangeProofs -------------------------
(***************************************************************************)
(* Proofs about StepExchange and the buffer of StepInputs, for any tracks, *)
(* budgets, pushes, steps and replies.  A step takes the newest frames     *)
(* that fit one message or is refused for a cut stream; a frame rides one  *)
(* step at most; and what a host is told of a step is what became of it.   *)
(*                                                                         *)
(* First the arithmetic of a message's cost, which needs an induction and  *)
(* the unfolding of a recursive function; then the buffer, one add() and   *)
(* one turn of trim() at a time; then what a host reads; and last the      *)
(* invariant of the exchange, its frames' part and its steps' part.        *)
(***************************************************************************)
EXTENDS StepExchange, FiniteSetTheorems, SequenceTheorems, FunctionTheorems,
        WellFoundedInduction, TLAPS

----------------------------------------------------------------------------
(* Induction and recursion over the naturals.                              *)

\* The order of the naturals, as a set of pairs.
Below == {pair \in Nat \X Nat : pair[1] < pair[2]}

\* It is the library's.
LEMMA BelowIsLess == OpToRel(<, Nat) = Below
  BY Zenon DEF OpToRel, Below

\* A set of naturals that has 0 and with every n also n + 1 has them all.
LEMMA Induction == ASSUME NEW T \in SUBSET Nat, 0 \in T, \A n \in T : n + 1 \in T PROVE T = Nat
<1>1. IsWellFoundedOn(Below, Nat)
  BY NatLessThanWellFounded, BelowIsLess
<1> SUFFICES ASSUME Nat \ T # {} PROVE FALSE
  OBVIOUS
<1>2. PICK x \in Nat \ T : \A y \in Nat \ T : ~(<<y, x>> \in Below)
  BY <1>1, WFMin
<1>3. x - 1 \in Nat \ T
  BY <1>2
<1>4. <<x - 1, x>> \in Below
  BY <1>2, <1>3 DEF Below
<1> QED
  BY <1>2, <1>3, <1>4

\* Some function on 0..N begins with start and goes on as turn says.
Solvable(S, N, start, turn) == \E f \in [0..N -> S] :
    f[0] = start /\ \A n \in 1..N : f[n] = turn[<<n, f[n - 1]>>]

\* A recursion over the first N naturals has a solution, whatever its turns do.
LEMMA Recursion ==
    ASSUME NEW S, NEW N \in Nat, NEW start \in S, NEW turn \in [(1..N) \X S -> S]
    PROVE  Solvable(S, N, start, turn)
<1> DEFINE Runs(f, m) == f \in [0..m -> S] /\ f[0] = start
                           /\ \A n \in 1..m : f[n] = turn[<<n, f[n - 1]>>]
           T == {m \in Nat : m <= N => \E f : Runs(f, m)}
<1>1. 0 \in T
  <2>1. Runs([n \in 0..0 |-> start], 0)
    OBVIOUS
  <2> QED
    BY <2>1
<1>2. ASSUME NEW m \in T PROVE m + 1 \in T
  <2> SUFFICES ASSUME m + 1 <= N PROVE \E g : Runs(g, m + 1)
    OBVIOUS
  <2>1. PICK f : Runs(f, m)
    OBVIOUS
  <2> DEFINE g == [n \in 0..(m + 1) |-> IF n <= m THEN f[n] ELSE turn[<<n, f[m]>>]]
  <2>2. g \in [0..(m + 1) -> S]
    <3>1. f[m] \in S /\ turn[<<m + 1, f[m]>>] \in S
      BY <2>1
    <3> QED
      BY <2>1, <3>1
  <2>3. g[0] = start /\ \A n \in 1..(m + 1) : g[n] = turn[<<n, g[n - 1]>>]
    BY <2>1
  <2> QED
    BY <2>2, <2>3
<1>3. N \in T
  BY <1>1, <1>2, Induction
<1> QED
  BY <1>3 DEF Solvable

----------------------------------------------------------------------------
(* What frames cost.                                                       *)

\* The recursion of Spent, as an equation.
SpentEquation(f, all) ==
    f = [n \in 0..Len(all) |-> IF n = 0 THEN 0 ELSE f[n - 1] + all[n].size]

\* What the first n frames cost is what the first n - 1 cost and the n-th.
LEMMA SpentSum ==
    ASSUME NEW all \in Seq(Frames)
    PROVE  /\ Spent(all) \in [0..Len(all) -> Nat]
           /\ Spent(all)[0] = 0
           /\ \A n \in 1..Len(all) : Spent(all)[n] = Spent(all)[n - 1] + all[n].size
<1> DEFINE N == Len(all)
           turn == [x \in (1..N) \X Nat |-> x[2] + all[x[1]].size]
<1>0. \A n \in 1..N : all[n] \in Frames
  OBVIOUS
<1>1. N \in Nat /\ \A n \in 1..N : all[n].size \in Nat
  BY <1>0 DEF Frames
<1>2. turn \in [(1..N) \X Nat -> Nat]
  BY <1>1
<1>3. PICK f \in [0..N -> Nat] : f[0] = 0 /\ \A n \in 1..N : f[n] = turn[<<n, f[n - 1]>>]
  <2> HIDE DEF turn, N
  <2>1. 0 \in Nat
    OBVIOUS
  <2>2. Solvable(Nat, N, 0, turn)
    BY ONLY <1>1, <1>2, <2>1, Recursion
  <2> QED
    BY <2>2 DEF Solvable
<1>4. \A n \in 1..N : f[n] = f[n - 1] + all[n].size
  <2> TAKE n \in 1..N
  <2>1. n - 1 \in 0..N /\ f[n - 1] \in Nat
    BY <1>1, <1>3
  <2>2. turn[<<n, f[n - 1]>>] = f[n - 1] + all[n].size
    BY <2>1
  <2> QED
    BY <1>3, <2>2
<1>5. f = [n \in 0..N |-> IF n = 0 THEN 0 ELSE f[n - 1] + all[n].size]
  BY <1>3, <1>4
<1>6. SpentEquation(f, all)
  BY <1>5 DEF SpentEquation
<1> DEFINE g == CHOOSE h : SpentEquation(h, all)
<1>7. SpentEquation(g, all)
  BY <1>6
<1>8. Spent(all) = g
  BY Zenon DEF Spent, SpentEquation
<1> HIDE DEF g
<1>9. /\ DOMAIN g = 0..N /\ g[0] = 0
      /\ \A n \in 1..N : g[n] = g[n - 1] + all[n].size
  BY <1>7, <1>1 DEF SpentEquation
<1>10. \A n \in 0..N : g[n] \in Nat
  <2> DEFINE T == {n \in Nat : n \in 0..N => g[n] \in Nat}
  <2>1. 0 \in T
    BY <1>9
  <2>2. ASSUME NEW n \in T PROVE n + 1 \in T
    BY <1>1, <1>9
  <2>3. T = Nat
    <3> HIDE DEF T
    <3> QED
      BY <2>1, <2>2, Induction DEF T
  <2> QED
    BY <2>3
<1>11. g = [n \in 0..N |-> g[n]]
  BY <1>7 DEF SpentEquation
<1>12. g \in [0..N -> Nat]
  BY <1>10, <1>11
<1> QED
  BY <1>8, <1>9, <1>12

\* One more frame leaves what the first ones cost.
LEMMA SpentMore ==
    ASSUME NEW all \in Seq(Frames), NEW f \in Frames
    PROVE  /\ \A n \in 0..Len(all) : Spent(Append(all, f))[n] = Spent(all)[n]
           /\ Spent(Append(all, f))[Len(all) + 1] = Spent(all)[Len(all)] + f.size
<1> DEFINE more == Append(all, f)
           T == {n \in Nat : n \in 0..Len(all) => Spent(more)[n] = Spent(all)[n]}
<1>1. /\ more \in Seq(Frames) /\ Len(more) = Len(all) + 1 /\ more[Len(all) + 1] = f
      /\ \A n \in 1..Len(all) : more[n] = all[n]
  OBVIOUS
<1> HIDE DEF more
<1>2. /\ Spent(all)[0] = 0
      /\ \A n \in 1..Len(all) : Spent(all)[n] = Spent(all)[n - 1] + all[n].size
  BY SpentSum
<1>3. /\ Spent(more)[0] = 0
      /\ \A n \in 1..(Len(all) + 1) : Spent(more)[n] = Spent(more)[n - 1] + more[n].size
  BY <1>1, SpentSum
<1>4. 0 \in T
  BY <1>2, <1>3
<1>5. ASSUME NEW n \in T PROVE n + 1 \in T
  <2> SUFFICES ASSUME n + 1 <= Len(all) PROVE Spent(more)[n + 1] = Spent(all)[n + 1]
    OBVIOUS
  <2>1. Spent(more)[n] = Spent(all)[n] /\ n + 1 \in 1..Len(all) /\ (n + 1) - 1 = n
    OBVIOUS
  <2>2. Spent(all)[n + 1] = Spent(all)[n] + all[n + 1].size
    BY <1>2, <2>1
  <2>3. Spent(more)[n + 1] = Spent(more)[n] + all[n + 1].size
    BY <1>1, <1>3, <2>1
  <2> QED
    BY <2>1, <2>2, <2>3
<1>6. T = Nat
  <2> HIDE DEF T
  <2> QED
    BY <1>4, <1>5, Induction DEF T
<1>7. \A n \in 0..Len(all) : Spent(more)[n] = Spent(all)[n]
  BY <1>6
<1>8. Spent(more)[Len(all) + 1] = Spent(more)[Len(all)] + f.size
  BY <1>1, <1>3
<1> QED
  BY <1>7, <1>8 DEF more

\* More frames never cost less.
LEMMA SpentGrows ==
    ASSUME NEW all \in Seq(Frames), NEW m \in 0..Len(all), NEW n \in m..Len(all)
    PROVE  Spent(all)[m] <= Spent(all)[n]
<1> DEFINE T == {k \in Nat : m + k <= Len(all) => Spent(all)[m] <= Spent(all)[m + k]}
<1>1. /\ \A k \in 0..Len(all) : Spent(all)[k] \in Nat
      /\ \A k \in 1..Len(all) : Spent(all)[k] = Spent(all)[k - 1] + all[k].size
  BY SpentSum
<1>2. 0 \in T
  BY <1>1
<1>3. ASSUME NEW k \in T PROVE k + 1 \in T
  <2> SUFFICES ASSUME m + (k + 1) <= Len(all) PROVE Spent(all)[m] <= Spent(all)[m + (k + 1)]
    OBVIOUS
  <2>1. Spent(all)[m] <= Spent(all)[m + k]
    OBVIOUS
  <2>2. m + k + 1 \in 1..Len(all) /\ m + k \in 0..Len(all) /\ (m + k + 1) - 1 = m + k
    OBVIOUS
  <2>3. all[m + k + 1] \in Frames
    BY <2>2
  <2>4. all[m + k + 1].size \in Nat
    BY <2>3 DEF Frames
  <2>5. Spent(all)[m + k + 1] = Spent(all)[m + k] + all[m + k + 1].size
    BY <1>1, <2>2
  <2> QED
    BY <1>1, <2>1, <2>2, <2>4, <2>5
<1>4. T = Nat
  <2> HIDE DEF T
  <2> QED
    BY <1>2, <1>3, Induction DEF T
<1>5. PICK k \in Nat : m + k = n
  <2>1. n - m \in Nat /\ m + (n - m) = n
    OBVIOUS
  <2> QED
    BY <2>1
<1>6. m + k <= Len(all) => Spent(all)[m] <= Spent(all)[m + k]
  <2>1. k \in T
    BY <1>4
  <2> QED
    BY <2>1
<1> QED
  BY ONLY <1>5, <1>6, n \in m..Len(all)

\* What RemoveAt leaves of a sequence.
LEMMA Removed ==
    ASSUME NEW S, NEW s \in Seq(S), NEW i \in 1..Len(s)
    PROVE  /\ RemoveAt(s, i) \in Seq(S) /\ Len(RemoveAt(s, i)) = Len(s) - 1
           /\ \A j \in 1..(Len(s) - 1) : RemoveAt(s, i)[j] = IF j < i THEN s[j] ELSE s[j + 1]
<1> DEFINE a == SubSeq(s, 1, i - 1)
           b == SubSeq(s, i + 1, Len(s))
<1>1. a \in Seq(S) /\ Len(a) = i - 1 /\ \A j \in 1..(i - 1) : a[j] = s[j]
  OBVIOUS
<1>2. b \in Seq(S) /\ Len(b) = Len(s) - i /\ \A j \in 1..(Len(s) - i) : b[j] = s[j + i]
  OBVIOUS
<1>3. RemoveAt(s, i) = a \o b
  BY DEF RemoveAt
<1> HIDE DEF a, b
<1>4. a \o b \in Seq(S) /\ Len(a \o b) = Len(s) - 1
  <2>1. i \in Nat /\ Len(s) \in Nat
    OBVIOUS
  <2>2. a \o b \in Seq(S) /\ Len(a \o b) = Len(a) + Len(b)
    BY <1>1, <1>2, ConcatProperties
  <2>3. (i - 1) + (Len(s) - i) = Len(s) - 1
    BY <2>1
  <2> QED
    BY <1>1, <1>2, <2>2, <2>3
<1>5. \A j \in 1..(Len(s) - 1) : (a \o b)[j] = IF j < i THEN s[j] ELSE s[j + 1]
  <2> TAKE j \in 1..(Len(s) - 1)
  <2>0. j \in 1..(Len(a) + Len(b))
    BY <1>1, <1>2
  <2>1. CASE j < i
    BY <1>1, <1>2, <2>0, <2>1
  <2>2. CASE j >= i
    <3>1. j - Len(a) \in 1..Len(b) /\ (j - Len(a)) + i = j + 1
      BY <1>1, <1>2, <2>2
    <3>2. (a \o b)[j] = b[j - Len(a)]
      BY <1>1, <1>2, <2>2, <3>1
    <3>3. b[j - Len(a)] = s[(j - Len(a)) + i]
      BY <1>2, <3>1
    <3> QED
      BY <2>2, <3>1, <3>2, <3>3
  <2>3. j < i \/ j >= i
    OBVIOUS
  <2> QED
    BY <2>1, <2>2, <2>3
<1> QED
  BY <1>3, <1>4, <1>5

----------------------------------------------------------------------------
(* The buffer.  all are the pushes it was filled by, ent the pushes with   *)
(* which tracks came in.                                                   *)

\* What the buffer may be, and the frames it was filled by.
TrackFrames == [track : Tracks, frames : Seq(Nat)]
Buffers == [tracks : Seq(TrackFrames), order : Seq(Nat), bytes : Int, cut : SUBSET Tracks]

BufferType(b, all, ent) ==
    /\ b \in Buffers /\ all \in Seq(Frames) /\ ent \in [Tracks -> Nat]
    /\ Len(b.order) <= Len(all)

\* How many of the pushes were pushed out: the oldest ones.
Base(b, all) == Len(all) - Len(b.order)

\* Entry j of the order is the push Base + j, buffered under its own track.
Ordered(b, all) == \A j \in 1..Len(b.order) :
    /\ b.order[j] \in DOMAIN b.tracks
    /\ b.tracks[b.order[j]].track = all[Base(b, all) + j].track
    /\ \E x \in DOMAIN b.tracks[b.order[j]].frames :
         b.tracks[b.order[j]].frames[x] = Base(b, all) + j

\* Every track has frames, each in the order as its own, the older ones first.
Placed(b, all) == \A i \in DOMAIN b.tracks :
    /\ b.tracks[i].frames # <<>>
    /\ \A x \in DOMAIN b.tracks[i].frames :
         /\ b.tracks[i].frames[x] \in (Base(b, all) + 1)..Len(all)
         /\ b.order[b.tracks[i].frames[x] - Base(b, all)] = i
    /\ \A x, y \in DOMAIN b.tracks[i].frames :
         x < y => b.tracks[i].frames[x] < b.tracks[i].frames[y]

\* No track is there twice.
Single(b) == \A i, k \in DOMAIN b.tracks : b.tracks[i].track = b.tracks[k].track => i = k

\* The bytes are the frames' and one entry for each track.
Priced(b, all) ==
    b.bytes = Spent(all)[Len(all)] - Spent(all)[Base(b, all)] + TrackBytes * Len(b.tracks)

\* A track is cut when it lost an encoded frame since it came in.
CutRight(b, all, ent) ==
    /\ \A t \in b.cut : Holds(b, t)
    /\ \A i \in DOMAIN b.tracks :
         /\ ent[b.tracks[i].track] \in 1..Len(all)
         /\ \A x \in DOMAIN b.tracks[i].frames :
              ent[b.tracks[i].track] <= b.tracks[i].frames[x]
         /\ b.tracks[i].track \in b.cut <=>
              \E n \in ent[b.tracks[i].track]..Base(b, all) :
                 all[n].track = b.tracks[i].track /\ all[n].encoded

\* The buffer holds the newest of the frames pushed, and knows what they cost and
\* which streams were cut.
Sound(b, all, ent) ==
    /\ BufferType(b, all, ent) /\ Ordered(b, all) /\ Placed(b, all) /\ Single(b)
    /\ Priced(b, all) /\ CutRight(b, all, ent)

\* What add() leaves: the frame last of its track's, at index, and last in the order.
AddedAt(b, after, f, n, index, old) ==
    /\ index \in 1..Len(after.tracks) /\ old \in Seq(Nat)
    /\ after \in Buffers
    /\ after.order = Append(b.order, index) /\ after.cut = b.cut
    /\ \A i \in DOMAIN after.tracks \ {index} :
         i \in DOMAIN b.tracks /\ after.tracks[i] = b.tracks[i]
    /\ \A i \in DOMAIN b.tracks : i \in DOMAIN after.tracks
    /\ after.tracks[index].track = f.track /\ after.tracks[index].frames = Append(old, n)

\* The track was there...
Joined(b, after, f, index, old) ==
    /\ Holds(b, f.track) /\ index \in DOMAIN b.tracks
    /\ b.tracks[index].track = f.track /\ old = b.tracks[index].frames
    /\ Len(after.tracks) = Len(b.tracks) /\ after.bytes = b.bytes + f.size

\* ... or came in with the frame.
Opened(b, after, f, index, old) ==
    /\ ~Holds(b, f.track) /\ index = Len(b.tracks) + 1 /\ old = <<>>
    /\ Len(after.tracks) = Len(b.tracks) + 1 /\ after.bytes = b.bytes + f.size + TrackBytes

\* Buffered::add does one or the other.
LEMMA AddEffect ==
    ASSUME NEW b \in Buffers, NEW f \in Frames, NEW n \in Nat
    PROVE  \E index, old :
             /\ AddedAt(b, Add(b, f, n), f, n, index, old)
             /\ Joined(b, Add(b, f, n), f, index, old) \/ Opened(b, Add(b, f, n), f, index, old)
<1>1. /\ b = [tracks |-> b.tracks, order |-> b.order, bytes |-> b.bytes, cut |-> b.cut]
      /\ b.tracks \in Seq(TrackFrames) /\ b.order \in Seq(Nat) /\ b.bytes \in Int
      /\ b.cut \in SUBSET Tracks
  BY DEF Buffers
<1>2. f.track \in Tracks /\ f.size \in Nat /\ TrackBytes \in Nat
  BY BudgetsAssumption DEF Frames
<1>3. \A i \in DOMAIN b.tracks :
        /\ b.tracks[i] = [track |-> b.tracks[i].track, frames |-> b.tracks[i].frames]
        /\ b.tracks[i].track \in Tracks /\ b.tracks[i].frames \in Seq(Nat)
  <2> TAKE i \in DOMAIN b.tracks
  <2>1. b.tracks[i] \in TrackFrames
    BY <1>1
  <2> QED
    BY <2>1 DEF TrackFrames
<1>4. CASE Holds(b, f.track)
  <2> DEFINE index == Position(b, f.track)
             old == b.tracks[index].frames
             tracks == [b.tracks EXCEPT ![index].frames = Append(@, n)]
  <2>1. index \in DOMAIN b.tracks /\ b.tracks[index].track = f.track
    BY <1>4 DEF Holds, Position
  <2>2. /\ Add(b, f, n).tracks = tracks /\ Add(b, f, n).order = Append(b.order, index)
        /\ Add(b, f, n).bytes = b.bytes + f.size /\ Add(b, f, n).cut = b.cut
        /\ Add(b, f, n) = [tracks |-> tracks, order |-> Append(b.order, index),
                           bytes |-> b.bytes + f.size, cut |-> b.cut]
    <3>1. Add(b, f, n) = [b EXCEPT !.tracks = tracks, !.order = Append(@, index),
                                   !.bytes = @ + f.size + 0]
      BY Zenon, <1>4 DEF Add
    <3>2. b.bytes + f.size + 0 = b.bytes + f.size
      BY <1>1, <1>2
    <3> HIDE DEF tracks, index
    <3> QED
      BY <1>1, <3>1, <3>2
  <2> HIDE DEF index
  <2>3. index \in 1..Len(b.tracks) /\ old \in Seq(Nat) /\ Append(old, n) \in Seq(Nat)
    BY <1>1, <1>3, <2>1
  <2>4. /\ DOMAIN tracks = DOMAIN b.tracks
        /\ \A i \in DOMAIN b.tracks : i # index => tracks[i] = b.tracks[i]
        /\ tracks[index] = [track |-> f.track, frames |-> Append(old, n)]
    <3>1. /\ DOMAIN tracks = DOMAIN b.tracks
          /\ \A i \in DOMAIN b.tracks : i # index => tracks[i] = b.tracks[i]
          /\ tracks[index] = [b.tracks[index] EXCEPT !.frames = Append(@, n)]
      BY <1>1, <2>1
    <3>2. b.tracks[index] = [track |-> f.track, frames |-> old]
      BY <1>3, <2>1
    <3> HIDE DEF tracks, old
    <3>3. [b.tracks[index] EXCEPT !.frames = Append(@, n)]
            = [track |-> f.track, frames |-> Append(old, n)]
      BY <3>2
    <3> QED
      BY <3>1, <3>3
  <2>5. \A i \in 1..Len(b.tracks) : tracks[i] \in TrackFrames
    <3> HIDE DEF tracks, old
    <3>1. [track |-> f.track, frames |-> Append(old, n)] \in TrackFrames
      BY <1>2, <2>3 DEF TrackFrames
    <3> QED
      BY <1>1, <2>4, <3>1
  <2>6. tracks \in Seq(TrackFrames) /\ Len(tracks) = Len(b.tracks)
    <3>1. tracks = [i \in DOMAIN b.tracks |-> tracks[i]]
      OBVIOUS
    <3>2. DOMAIN b.tracks = 1..Len(b.tracks) /\ Len(b.tracks) \in Nat
      BY <1>1
    <3> HIDE DEF tracks
    <3> QED
      BY <2>5, <3>1, <3>2
  <2> HIDE DEF tracks, old
  <2>7. Append(b.order, index) \in Seq(Nat) /\ b.bytes + f.size \in Int
    BY <1>1, <1>2, <2>3
  <2>8. Add(b, f, n) \in Buffers
    BY <1>1, <2>2, <2>6, <2>7 DEF Buffers
  <2>9. AddedAt(b, Add(b, f, n), f, n, index, old)
    BY <1>1, <2>2, <2>3, <2>4, <2>6, <2>8 DEF AddedAt
  <2>10. Joined(b, Add(b, f, n), f, index, old)
    BY <1>4, <2>1, <2>2, <2>6 DEF Joined, old
  <2> QED
    BY <2>9, <2>10
<1>5. CASE ~Holds(b, f.track)
  <2> DEFINE index == Len(b.tracks) + 1
             opened == Append(b.tracks, [track |-> f.track, frames |-> <<>>])
             tracks == [opened EXCEPT ![index].frames = Append(@, n)]
  <2>1. /\ opened \in Seq(TrackFrames) /\ Len(opened) = index /\ index \in Nat \ {0}
        /\ opened[index] = [track |-> f.track, frames |-> <<>>]
        /\ \A i \in DOMAIN b.tracks : opened[i] = b.tracks[i]
    <3>1. [track |-> f.track, frames |-> <<>>] \in TrackFrames
      BY <1>2 DEF TrackFrames
    <3> QED
      BY <1>1, <3>1
  <2>2. /\ Add(b, f, n).tracks = tracks /\ Add(b, f, n).order = Append(b.order, index)
        /\ Add(b, f, n).bytes = b.bytes + f.size + TrackBytes /\ Add(b, f, n).cut = b.cut
        /\ Add(b, f, n) = [tracks |-> tracks, order |-> Append(b.order, index),
                           bytes |-> b.bytes + f.size + TrackBytes, cut |-> b.cut]
    <3>1. Len(opened) = index
      BY <2>1
    <3>2. Add(b, f, n) = [b EXCEPT !.tracks = [opened EXCEPT ![Len(opened)].frames = Append(@, n)],
                                   !.order = Append(@, Len(opened)),
                                   !.bytes = @ + f.size + TrackBytes]
      BY Zenon, <1>5 DEF Add
    <3>3. Add(b, f, n) = [b EXCEPT !.tracks = tracks, !.order = Append(@, index),
                                   !.bytes = @ + f.size + TrackBytes]
      BY Zenon, <3>1, <3>2
    <3> HIDE DEF tracks, index
    <3> QED
      BY <1>1, <3>3
  <2>3. Append(<<>>, n) \in Seq(Nat)
    OBVIOUS
  <2>4. /\ DOMAIN tracks = 1..index
        /\ \A i \in DOMAIN b.tracks : i \in 1..index /\ i # index /\ tracks[i] = b.tracks[i]
        /\ \A i \in 1..index : i # index => i \in DOMAIN b.tracks
        /\ tracks[index] = [track |-> f.track, frames |-> Append(<<>>, n)]
    <3> HIDE DEF opened
    <3>1. DOMAIN opened = 1..index /\ index \in 1..index
      BY <2>1
    <3>2. tracks[index] = [track |-> f.track, frames |-> Append(<<>>, n)]
      BY <2>1, <3>1
    <3>3. /\ DOMAIN tracks = 1..index
          /\ \A i \in 1..index : i # index => tracks[i] = opened[i]
      BY <3>1
    <3>4. DOMAIN b.tracks = 1..(index - 1)
      BY <1>1
    <3> QED
      BY <2>1, <3>2, <3>3, <3>4
  <2>5. \A i \in 1..index : tracks[i] \in TrackFrames
    <3> HIDE DEF tracks, index
    <3>1. [track |-> f.track, frames |-> Append(<<>>, n)] \in TrackFrames
      BY <1>2, <2>3 DEF TrackFrames
    <3> QED
      BY <1>1, <2>4, <3>1
  <2>6. tracks \in Seq(TrackFrames) /\ Len(tracks) = index
    <3> HIDE DEF index
    <3>1. tracks = [i \in 1..index |-> tracks[i]]
      BY <2>4
    <3> HIDE DEF tracks
    <3> QED
      BY <2>1, <2>5, <3>1
  <2>7. /\ Append(b.order, index) \in Seq(Nat) /\ b.bytes + f.size + TrackBytes \in Int
        /\ index \in 1..index
    BY <1>1, <1>2
  <2> HIDE DEF tracks, index
  <2>8. Add(b, f, n) \in Buffers
    BY <1>1, <2>2, <2>6, <2>7 DEF Buffers
  <2>9. AddedAt(b, Add(b, f, n), f, n, index, <<>>)
    BY <1>1, <2>2, <2>3, <2>4, <2>6, <2>7, <2>8 DEF AddedAt
  <2>10. Opened(b, Add(b, f, n), f, index, <<>>)
    BY <1>5, <2>2, <2>6 DEF Opened, index
  <2> QED
    BY <2>9, <2>10
<1> QED
  BY <1>4, <1>5

\* A sound buffer is sound with one more frame.
LEMMA AddSound ==
    ASSUME NEW b, NEW all, NEW ent, NEW ent2, NEW f \in Frames, Sound(b, all, ent),
           ent2 = IF Holds(b, f.track) THEN ent ELSE [ent EXCEPT ![f.track] = Len(all) + 1]
    PROVE  /\ Sound(Add(b, f, Len(all) + 1), Append(all, f), ent2)
           /\ Len(Add(b, f, Len(all) + 1).order) = Len(b.order) + 1
<1> DEFINE n == Len(all) + 1
           more == Append(all, f)
           after == Add(b, f, n)
           B == Base(b, all)
           L == Len(b.order)
<1>1. /\ b \in Buffers /\ all \in Seq(Frames) /\ ent \in [Tracks -> Nat] /\ L <= Len(all)
      /\ b.tracks \in Seq(TrackFrames) /\ b.order \in Seq(Nat) /\ b.bytes \in Int
      /\ b.cut \in SUBSET Tracks /\ L \in Nat /\ Len(all) \in Nat /\ n \in Nat
      /\ Len(b.tracks) \in Nat
  BY DEF Sound, BufferType, Buffers
<1>2. PICK index, old :
        /\ AddedAt(b, after, f, n, index, old)
        /\ Joined(b, after, f, index, old) \/ Opened(b, after, f, index, old)
  BY <1>1, AddEffect
<1> HIDE DEF after
<1>3. /\ index \in 1..Len(after.tracks) /\ old \in Seq(Nat) /\ after \in Buffers
      /\ after.order = Append(b.order, index) /\ after.cut = b.cut
      /\ \A i \in DOMAIN after.tracks \ {index} :
           i \in DOMAIN b.tracks /\ after.tracks[i] = b.tracks[i]
      /\ \A i \in DOMAIN b.tracks : i \in DOMAIN after.tracks
      /\ after.tracks[index].track = f.track /\ after.tracks[index].frames = Append(old, n)
  BY <1>2 DEF AddedAt
<1>4. after.tracks \in Seq(TrackFrames) /\ after.order \in Seq(Nat)
  BY <1>3 DEF Buffers
<1>5. index \in DOMAIN after.tracks /\ index \in Nat
  BY <1>3, <1>4
<1>6. /\ Len(after.order) = L + 1 /\ after.order[L + 1] = index
      /\ \A j \in 1..L : after.order[j] = b.order[j]
  BY <1>1, <1>3, <1>5
<1>7. /\ more \in Seq(Frames) /\ Len(more) = n /\ more[n] = f
      /\ \A k \in 1..Len(all) : more[k] = all[k]
  BY <1>1
<1>8. /\ DOMAIN Append(old, n) = 1..(Len(old) + 1) /\ Len(old) \in Nat
      /\ Append(old, n)[Len(old) + 1] = n /\ DOMAIN old = 1..Len(old)
      /\ \A x \in 1..Len(old) : Append(old, n)[x] = old[x]
  BY <1>1, <1>3
<1> HIDE DEF more
<1>9. Base(after, more) = B /\ B \in Nat /\ B + L = Len(all) /\ B + (L + 1) = n
  <2>1. Base(after, more) = n - (L + 1) /\ B = Len(all) - L
    BY <1>6, <1>7 DEF Base
  <2> HIDE DEF L, B
  <2> QED
    BY <1>1, <2>1
<1> HIDE DEF n, B, L
<1>10. Joined(b, after, f, index, old) =>
         /\ Holds(b, f.track) /\ index \in DOMAIN b.tracks
         /\ b.tracks[index].track = f.track /\ old = b.tracks[index].frames
         /\ Len(after.tracks) = Len(b.tracks) /\ after.bytes = b.bytes + f.size
  BY DEF Joined
<1>11. Opened(b, after, f, index, old) =>
         /\ ~Holds(b, f.track) /\ index \notin DOMAIN b.tracks /\ old = <<>>
         /\ Len(after.tracks) = Len(b.tracks) + 1
         /\ after.bytes = b.bytes + f.size + TrackBytes
  BY <1>1 DEF Opened
<1>12. f.track \in Tracks /\ f.size \in Nat /\ TrackBytes \in Nat
  BY BudgetsAssumption DEF Frames
<1>13. BufferType(after, more, ent2)
  <2>1. ent2 \in [Tracks -> Nat]
    BY <1>1, <1>12 DEF n
  <2> QED
    BY <1>1, <1>3, <1>6, <1>7, <1>9, <2>1 DEF BufferType, n
<1>14. Ordered(after, more)
  <2> SUFFICES ASSUME NEW j \in 1..(L + 1)
               PROVE  /\ after.order[j] \in DOMAIN after.tracks
                      /\ after.tracks[after.order[j]].track = more[B + j].track
                      /\ \E x \in DOMAIN after.tracks[after.order[j]].frames :
                           after.tracks[after.order[j]].frames[x] = B + j
    BY <1>6, <1>9 DEF Ordered
  <2>1. CASE j = L + 1
    <3>1. Len(old) + 1 \in DOMAIN Append(old, n)
      BY <1>8
    <3> QED
      BY <1>3, <1>5, <1>6, <1>7, <1>8, <1>9, <2>1, <3>1
  <2>2. CASE j \in 1..L
    <3> DEFINE k == b.order[j]
    <3>1. /\ after.order[j] = k /\ k \in DOMAIN b.tracks /\ k \in DOMAIN after.tracks
          /\ b.tracks[k].track = all[B + j].track
          /\ \E x \in DOMAIN b.tracks[k].frames : b.tracks[k].frames[x] = B + j
      BY <1>3, <1>6, <2>2 DEF Sound, Ordered, L, B
    <3>2. more[B + j] = all[B + j]
      BY <1>1, <1>7, <1>9, <2>2
    <3> HIDE DEF k
    <3>3. CASE k # index
      BY <1>3, <3>1, <3>2, <3>3
    <3>4. CASE k = index
      <4>1. old = b.tracks[k].frames /\ b.tracks[k].track = f.track
        BY <1>2, <1>10, <1>11, <3>1, <3>4
      <4>2. PICK x \in 1..Len(old) : old[x] = B + j
        BY <1>8, <3>1, <4>1
      <4>3. x \in DOMAIN Append(old, n) /\ Append(old, n)[x] = B + j
        BY <1>8, <4>2
      <4> QED
        BY <1>3, <3>1, <3>2, <3>4, <4>1, <4>3
    <3> QED
      BY <3>3, <3>4
  <2> QED
    BY <1>1, <2>1, <2>2
<1>15. Placed(after, more)
  <2> SUFFICES ASSUME NEW i \in DOMAIN after.tracks
               PROVE  /\ after.tracks[i].frames # <<>>
                      /\ \A x \in DOMAIN after.tracks[i].frames :
                           /\ after.tracks[i].frames[x] \in (B + 1)..n
                           /\ after.order[after.tracks[i].frames[x] - B] = i
                      /\ \A x, y \in DOMAIN after.tracks[i].frames :
                           x < y => after.tracks[i].frames[x] < after.tracks[i].frames[y]
    BY <1>7, <1>9 DEF Placed
  <2>1. \A k \in DOMAIN b.tracks :
          /\ b.tracks[k].frames # <<>>
          /\ \A x \in DOMAIN b.tracks[k].frames :
               /\ b.tracks[k].frames[x] \in (B + 1)..n /\ b.tracks[k].frames[x] < n
               /\ after.order[b.tracks[k].frames[x] - B] = k
          /\ \A x, y \in DOMAIN b.tracks[k].frames :
               x < y => b.tracks[k].frames[x] < b.tracks[k].frames[y]
    <3> TAKE k \in DOMAIN b.tracks
    <3>1. /\ b.tracks[k].frames # <<>>
          /\ \A x \in DOMAIN b.tracks[k].frames :
               /\ b.tracks[k].frames[x] \in (B + 1)..Len(all)
               /\ b.order[b.tracks[k].frames[x] - B] = k
          /\ \A x, y \in DOMAIN b.tracks[k].frames :
               x < y => b.tracks[k].frames[x] < b.tracks[k].frames[y]
      BY DEF Sound, Placed, B
    <3>2. ASSUME NEW x \in DOMAIN b.tracks[k].frames
          PROVE  /\ b.tracks[k].frames[x] \in (B + 1)..n /\ b.tracks[k].frames[x] < n
                 /\ b.tracks[k].frames[x] - B \in 1..L
      <4>1. b.tracks[k].frames[x] \in (B + 1)..Len(all)
        BY <3>1
      <4>2. ASSUME NEW m \in (B + 1)..Len(all) PROVE m \in (B + 1)..n /\ m < n /\ m - B \in 1..L
        <5>1. B \in Nat /\ L \in Nat /\ Len(all) \in Nat /\ n = Len(all) + 1 /\ B + L = Len(all)
          BY <1>1, <1>9 DEF n
        <5> QED
          BY ONLY <4>2, <5>1
      <4> QED
        BY ONLY <4>1, <4>2
    <3>3. ASSUME NEW x \in DOMAIN b.tracks[k].frames
          PROVE  after.order[b.tracks[k].frames[x] - B] = k
      <4>1. b.order[b.tracks[k].frames[x] - B] = k
        BY <3>1
      <4>2. b.tracks[k].frames[x] - B \in 1..L
        BY <3>2
      <4> QED
        BY ONLY <1>6, <4>1, <4>2
    <3> QED
      BY ONLY <3>1, <3>2, <3>3
  <2>2. CASE i # index
    BY <1>3, <2>1, <2>2
  <2>3. CASE i = index
    <3>1. /\ after.tracks[i].frames = Append(old, n) /\ Append(old, n) # <<>>
          /\ n \in (B + 1)..n /\ after.order[n - B] = i /\ n - B = L + 1
      <4>1. n - B = L + 1 /\ n \in (B + 1)..n
        BY <1>1, <1>9
      <4>2. after.order[n - B] = i
        BY <1>6, <2>3, <4>1
      <4>3. Append(old, n) # <<>>
        BY <1>1, <1>3, AppendProperties
      <4> QED
        BY <1>3, <2>3, <4>1, <4>2, <4>3
    <3>2. \A x \in 1..Len(old) :
            /\ old[x] \in (B + 1)..n /\ old[x] < n /\ after.order[old[x] - B] = i
            /\ \A y \in 1..Len(old) : x < y => old[x] < old[y]
      <4>1. CASE Joined(b, after, f, index, old)
        BY <1>8, <1>10, <2>1, <2>3, <4>1
      <4>2. CASE Opened(b, after, f, index, old)
        BY <1>11, <4>2
      <4> QED
        BY <1>2, <4>1, <4>2
    <3>3. \A x \in 1..(Len(old) + 1) : x \in 1..Len(old) \/ x = Len(old) + 1
      BY <1>8
    <3>4. ASSUME NEW x \in 1..(Len(old) + 1)
          PROVE  /\ Append(old, n)[x] \in (B + 1)..n
                 /\ after.order[Append(old, n)[x] - B] = i
      BY <1>8, <3>1, <3>2, <3>3
    <3>5. ASSUME NEW x \in 1..(Len(old) + 1), NEW y \in 1..(Len(old) + 1), x < y
          PROVE  Append(old, n)[x] < Append(old, n)[y]
      <4>1. x \in 1..Len(old)
        BY <1>8, <3>5
      <4>2. CASE y \in 1..Len(old)
        BY <1>8, <3>2, <3>5, <4>1, <4>2
      <4>3. CASE y = Len(old) + 1
        BY <1>8, <3>2, <4>1, <4>3
      <4> QED
        BY <3>3, <4>2, <4>3
    <3> QED
      BY <1>8, <3>1, <3>4, <3>5
  <2> QED
    BY <2>2, <2>3
<1>16. Single(after)
  <2>1. \A i, k \in DOMAIN b.tracks : b.tracks[i].track = b.tracks[k].track => i = k
    BY DEF Sound, Single
  <2>2. ASSUME NEW i \in DOMAIN after.tracks, i # index PROVE after.tracks[i].track # f.track
    <3>1. i \in DOMAIN b.tracks /\ after.tracks[i] = b.tracks[i]
      BY <1>3, <2>2
    <3>2. CASE Joined(b, after, f, index, old)
      BY <1>10, <2>1, <2>2, <3>1, <3>2
    <3>3. CASE Opened(b, after, f, index, old)
      BY <1>11, <3>1, <3>3 DEF Holds
    <3> QED
      BY <1>2, <3>2, <3>3
  <2> SUFFICES ASSUME NEW i \in DOMAIN after.tracks, NEW k \in DOMAIN after.tracks,
                      after.tracks[i].track = after.tracks[k].track
               PROVE i = k
    BY DEF Single
  <2>3. after.tracks[index].track = f.track
    BY <1>3
  <2>4. CASE i = index \/ k = index
    BY ONLY <2>2, <2>3, <2>4, i \in DOMAIN after.tracks, k \in DOMAIN after.tracks,
            after.tracks[i].track = after.tracks[k].track
  <2>5. CASE i # index /\ k # index
    <3>1. /\ i \in DOMAIN b.tracks /\ after.tracks[i] = b.tracks[i]
          /\ k \in DOMAIN b.tracks /\ after.tracks[k] = b.tracks[k]
      BY <1>3, <2>5
    <3> QED
      BY ONLY <2>1, <3>1, after.tracks[i].track = after.tracks[k].track
  <2> QED
    BY <2>4, <2>5
<1>17. Priced(after, more)
  <2>1. b.bytes = Spent(all)[Len(all)] - Spent(all)[B] + TrackBytes * Len(b.tracks)
    BY DEF Sound, Priced, B
  <2>2. B \in 0..Len(all) /\ Len(all) \in 0..Len(all)
    BY <1>1, <1>9
  <2>3. Spent(more)[B] = Spent(all)[B] /\ Spent(more)[n] = Spent(all)[Len(all)] + f.size
    BY <1>1, <2>2, SpentMore DEF more, n
  <2>4. Spent(all)[Len(all)] \in Nat /\ Spent(all)[B] \in Nat
    BY <1>1, <2>2, SpentSum
  <2> DEFINE spent == Spent(all)[Len(all)]
             gone == Spent(all)[B]
             p == TrackBytes * Len(b.tracks)
             q == TrackBytes * Len(after.tracks)
  <2>5. p \in Nat /\ (Len(after.tracks) = Len(b.tracks) + 1 => q = p + TrackBytes)
    <3>1. \A x, y \in Nat : x * y \in Nat /\ x * (y + 1) = x * y + x
      OBVIOUS
    <3> QED
      BY <1>1, <1>12, <3>1
  <2>6. Len(after.tracks) = Len(b.tracks) => q = p
    OBVIOUS
  <2>7. b.bytes = spent - gone + p /\ spent \in Nat /\ gone \in Nat
    BY <2>1, <2>4
  <2> HIDE DEF spent, gone, p, q
  <2>8. after.bytes = (spent + f.size) - gone + q
    <3>1. CASE Joined(b, after, f, index, old)
      BY <1>10, <1>12, <2>5, <2>6, <2>7, <3>1
    <3>2. CASE Opened(b, after, f, index, old)
      BY <1>11, <1>12, <2>5, <2>7, <3>2
    <3> QED
      BY <1>2, <3>1, <3>2
  <2> QED
    BY <1>7, <1>9, <2>3, <2>8 DEF Priced, spent, gone, q
<1>18. CutRight(after, more, ent2)
  <2>1. \A t \in b.cut : Holds(b, t)
    BY DEF Sound, CutRight
  <2>2. \A i \in DOMAIN b.tracks :
          /\ ent[b.tracks[i].track] \in 1..Len(all)
          /\ \A x \in DOMAIN b.tracks[i].frames :
               ent[b.tracks[i].track] <= b.tracks[i].frames[x]
          /\ b.tracks[i].track \in b.cut <=>
               \E k \in ent[b.tracks[i].track]..B :
                  all[k].track = b.tracks[i].track /\ all[k].encoded
    BY DEF Sound, CutRight, B
  <2>3. ASSUME NEW t \in after.cut PROVE Holds(after, t)
    <3>1. PICK i \in DOMAIN b.tracks : b.tracks[i].track = t
      BY <1>3, <2>1 DEF Holds
    <3>2. i \in DOMAIN after.tracks
      BY <1>3, <3>1
    <3>3. after.tracks[i].track = t
      <4>1. CASE i # index
        BY <1>3, <3>1, <3>2, <4>1
      <4>2. CASE i = index
        BY <1>2, <1>3, <1>10, <1>11, <3>1, <4>2
      <4> QED
        BY <4>1, <4>2
    <3> QED
      BY <3>2, <3>3 DEF Holds
  <2>4. \A k \in 1..B : more[k] = all[k]
    BY <1>1, <1>7, <1>9
  <2>5. ASSUME NEW i \in DOMAIN after.tracks
        PROVE  LET t == after.tracks[i].track IN
               /\ ent2[t] \in 1..n
               /\ \A x \in DOMAIN after.tracks[i].frames : ent2[t] <= after.tracks[i].frames[x]
               /\ t \in b.cut <=> \E k \in ent2[t]..B : more[k].track = t /\ more[k].encoded
    <3> DEFINE t == after.tracks[i].track
    <3>1. CASE i \in DOMAIN b.tracks
      <4>1. /\ t = b.tracks[i].track /\ ent2[t] = ent[t]
        <5>1. CASE i # index
          <6>1. i \in DOMAIN b.tracks /\ after.tracks[i] = b.tracks[i]
            BY <1>3, <5>1
          <6>2. Holds(b, t)
            BY <6>1 DEF Holds
          <6>3. ~Holds(b, f.track) => t # f.track
            BY <6>2
          <6> HIDE DEF t
          <6>4. t \in Tracks
            <7>1. b.tracks[i] \in TrackFrames
              BY <1>1, <6>1
            <7> QED
              BY <6>1, <7>1 DEF TrackFrames, t
          <6>5. ent2[t] = ent[t]
            BY <1>1, <1>12, <6>3, <6>4
          <6> QED
            BY <6>1, <6>5 DEF t
        <5>2. CASE i = index
          BY <1>2, <1>3, <1>10, <1>11, <3>1, <5>2
        <5> QED
          BY <5>1, <5>2
      <4>2. /\ ent[t] \in 1..Len(all)
            /\ \A x \in DOMAIN b.tracks[i].frames : ent[t] <= b.tracks[i].frames[x]
            /\ t \in b.cut <=> \E k \in ent[t]..B : all[k].track = t /\ all[k].encoded
        BY <2>2, <3>1, <4>1
      <4>3. \A x \in DOMAIN after.tracks[i].frames : ent[t] <= after.tracks[i].frames[x]
        <5>1. CASE i # index
          BY <1>3, <4>2, <5>1
        <5>2. CASE i = index
          <6>1. old = b.tracks[i].frames
            BY <1>2, <1>10, <1>11, <3>1, <5>2
          <6>2. ent[t] <= n
            BY <1>1, <4>2 DEF n
          <6>3. \A x \in 1..(Len(old) + 1) : x \in 1..Len(old) \/ x = Len(old) + 1
            BY <1>8
          <6>4. ASSUME NEW x \in 1..(Len(old) + 1) PROVE ent[t] <= Append(old, n)[x]
            <7>1. CASE x \in 1..Len(old)
              BY <1>8, <4>2, <6>1, <7>1
            <7>2. CASE x = Len(old) + 1
              BY <1>8, <6>2, <7>2
            <7> QED
              BY <6>3, <7>1, <7>2
          <6> QED
            BY <1>3, <1>8, <5>2, <6>4
        <5> QED
          BY <5>1, <5>2
      <4>4. ent[t] \in 1..n
        BY <1>1, <4>2 DEF n
      <4>5. \A k \in ent[t]..B : k \in 1..B
        BY <1>9, <4>2
      <4> QED
        BY <2>4, <4>1, <4>2, <4>3, <4>4, <4>5
    <3>2. CASE i \notin DOMAIN b.tracks
      <4>1. i = index /\ Opened(b, after, f, index, old) /\ t = f.track
        BY <1>2, <1>3, <1>10, <3>2
      <4>2. ~Holds(b, t) /\ t \notin b.cut
        BY <1>11, <2>1, <4>1
      <4>3. ent2[t] = n
        BY <1>1, <1>11, <1>12, <4>1 DEF n
      <4>4. after.tracks[i].frames = Append(<<>>, n) /\ \A x \in DOMAIN Append(<<>>, n) : Append(<<>>, n)[x] = n
        BY <1>1, <1>3, <1>11, <4>1
      <4>5. ~\E k \in n..B : TRUE
        BY <1>1, <1>9
      <4>6. n \in 1..n /\ n <= n
        BY <1>1, <1>9
      <4> QED
        BY <4>2, <4>3, <4>4, <4>5, <4>6
    <3> QED
      BY <3>1, <3>2
  <2> QED
    BY <1>3, <1>7, <1>9, <2>3, <2>5 DEF CutRight
<1> QED
  BY <1>6, <1>13, <1>14, <1>15, <1>16, <1>17, <1>18 DEF Sound, after, more, n, L

\* The oldest push is the first frame of the first track of the order.
LEMMA OldestFirst ==
    ASSUME NEW b, NEW all, NEW ent, Sound(b, all, ent), Len(b.order) > 0
    PROVE  LET fs == b.tracks[b.order[1]].frames
               n == Base(b, all) + 1
           IN /\ b.order[1] \in DOMAIN b.tracks /\ n \in 1..Len(all)
              /\ fs \in Seq(Nat) /\ Len(fs) \in Nat \ {0} /\ fs[1] = n
              /\ \A x \in DOMAIN fs : x # 1 => fs[x] > n
              /\ all[n].track = b.tracks[b.order[1]].track
<1> DEFINE B == Base(b, all)
           index == b.order[1]
           fs == b.tracks[index].frames
<1>1. /\ b.order \in Seq(Nat) /\ Len(b.order) \in Nat /\ Len(all) \in Nat /\ B \in Nat
      /\ B + Len(b.order) = Len(all) /\ b.tracks \in Seq(TrackFrames)
  <2>1. /\ b.order \in Seq(Nat) /\ Len(b.order) \in Nat /\ Len(all) \in Nat
        /\ Len(b.order) <= Len(all) /\ b.tracks \in Seq(TrackFrames)
    BY DEF Sound, BufferType, Buffers
  <2> QED
    BY <2>1 DEF Base
<1>2. 1 \in 1..Len(b.order) /\ B + 1 \in 1..Len(all)
  BY <1>1
<1>3. /\ index \in DOMAIN b.tracks /\ b.tracks[index].track = all[B + 1].track
      /\ \E x \in DOMAIN fs : fs[x] = B + 1
  BY <1>2 DEF Sound, Ordered
<1>4. /\ fs # <<>> /\ \A x \in DOMAIN fs : fs[x] \in (B + 1)..Len(all)
      /\ \A x, y \in DOMAIN fs : x < y => fs[x] < fs[y]
  BY <1>3 DEF Sound, Placed
<1>5. fs \in Seq(Nat)
  <2>1. b.tracks[index] \in TrackFrames
    BY <1>1, <1>3
  <2> QED
    BY <2>1 DEF TrackFrames
<1> HIDE DEF B, index, fs
<1>6. Len(fs) \in Nat \ {0} /\ DOMAIN fs = 1..Len(fs) /\ 1 \in DOMAIN fs
  BY <1>4, <1>5
<1>7. fs[1] = B + 1
  <2>1. PICK x \in DOMAIN fs : fs[x] = B + 1
    BY <1>3
  <2>2. fs[1] >= B + 1 /\ fs[1] \in Int
    BY <1>1, <1>4, <1>6
  <2>3. ASSUME x # 1 PROVE FALSE
    <3>1. fs[1] < fs[x]
      BY <1>4, <1>6, <2>1, <2>3
    <3> QED
      BY <1>1, <2>1, <2>2, <3>1
  <2> QED
    BY <2>1, <2>3
<1>8. \A x \in DOMAIN fs : x # 1 => fs[x] > B + 1
  BY <1>1, <1>4, <1>6, <1>7
<1> QED
  BY <1>2, <1>3, <1>5, <1>6, <1>7, <1>8 DEF B, index, fs

\* What a turn of trim() leaves: m says which track each of the tracks left was.
PushedOut(b, after, m, index, fs, rest, f) ==
    /\ after \in Buffers /\ Len(after.order) = Len(b.order) - 1
    /\ m \in [DOMAIN after.tracks -> DOMAIN b.tracks]
    /\ \A i, k \in DOMAIN after.tracks : m[i] = m[k] => i = k
    /\ \A k \in DOMAIN b.tracks :
         (k # index \/ Len(fs) # 1) => \E i \in DOMAIN after.tracks : m[i] = k
    /\ \A i \in DOMAIN after.tracks :
         /\ after.tracks[i].track = b.tracks[m[i]].track
         /\ m[i] # index => after.tracks[i].frames = b.tracks[m[i]].frames
         /\ m[i] = index => Len(fs) # 1 /\ after.tracks[i].frames = rest
    /\ \A j \in 1..(Len(b.order) - 1) :
         after.order[j] \in DOMAIN after.tracks /\ m[after.order[j]] = b.order[j + 1]
    /\ \A t : t \in after.cut <=>
         /\ t \in b.cut \/ (t = b.tracks[index].track /\ f.encoded)
         /\ t = b.tracks[index].track => Len(fs) # 1
    /\ \/ /\ Len(after.tracks) = Len(b.tracks)
          /\ after.bytes = b.bytes - f.size
       \/ /\ Len(after.tracks) = Len(b.tracks) - 1
          /\ after.bytes = b.bytes - f.size - TrackBytes

\* A turn of trim() does that.
LEMMA PushOutEffect ==
    ASSUME NEW b, NEW all, NEW ent, Sound(b, all, ent), Len(b.order) > 0
    PROVE  \E m : PushedOut(b, PushOut(b, all), m, b.order[1], b.tracks[b.order[1]].frames,
                         Tail(b.tracks[b.order[1]].frames), all[Base(b, all) + 1])
<1> DEFINE B == Base(b, all)
           index == b.order[1]
           fs == b.tracks[index].frames
           f == all[B + 1]
           t0 == b.tracks[index].track
           after == PushOut(b, all)
           N == Len(b.tracks)
           L == Len(b.order)
<1>1. /\ b \in Buffers /\ all \in Seq(Frames) /\ Len(all) \in Nat
      /\ b.tracks \in Seq(TrackFrames) /\ b.order \in Seq(Nat) /\ b.bytes \in Int
      /\ b.cut \in SUBSET Tracks /\ L \in Nat /\ N \in Nat /\ L # 0
  BY DEF Sound, BufferType, Buffers
<1>2. /\ index \in DOMAIN b.tracks /\ B + 1 \in 1..Len(all)
      /\ fs \in Seq(Nat) /\ Len(fs) \in Nat \ {0} /\ fs[1] = B + 1
      /\ \A x \in DOMAIN fs : x # 1 => fs[x] > B + 1
  BY OldestFirst
<1>3. f \in Frames /\ f.size \in Nat /\ TrackBytes \in Nat
  <2>1. f \in Frames
    BY <1>1, <1>2
  <2> QED
    BY <2>1, BudgetsAssumption DEF Frames
<1>4. b.tracks[index] = [track |-> t0, frames |-> fs] /\ t0 \in Tracks
  <2>1. b.tracks[index] \in TrackFrames
    BY <1>1, <1>2
  <2> QED
    BY <2>1 DEF TrackFrames
<1>5. /\ Head(b.order) = index /\ Head(fs) = B + 1
      /\ Tail(b.order) \in Seq(Nat) /\ Len(Tail(b.order)) = L - 1
      /\ \A j \in 1..(L - 1) : Tail(b.order)[j] = b.order[j + 1]
      /\ DOMAIN Tail(b.order) = 1..(L - 1)
  <2>1. Head(b.order) = index /\ Head(fs) = B + 1
    BY <1>1, <1>2
  <2>2. b.order # <<>>
    BY <1>1
  <2>3. /\ Tail(b.order) \in Seq(Nat) /\ Len(Tail(b.order)) = L - 1
        /\ \A j \in 1..(L - 1) : Tail(b.order)[j] = b.order[j + 1]
    BY <1>1, <2>2
  <2> QED
    BY <1>1, <2>1, <2>3
<1>6. after = [tracks |-> IF Len(fs) = 1 THEN RemoveAt(b.tracks, index)
                          ELSE [b.tracks EXCEPT ![index].frames = Tail(@)],
               order |-> IF Len(fs) = 1 THEN Shifted(Tail(b.order), index) ELSE Tail(b.order),
               bytes |-> b.bytes - f.size - Freed(Len(fs) = 1),
               cut |-> IF Len(fs) = 1
                       THEN CutWithout(IF f.encoded THEN b.cut \cup {t0} ELSE b.cut, t0)
                       ELSE IF f.encoded THEN b.cut \cup {t0} ELSE b.cut]
  BY <1>5, Zenon DEF PushOut
<1>7. \A j \in 1..(L - 1) :
        /\ b.order[j + 1] \in DOMAIN b.tracks
        /\ Len(fs) = 1 => b.order[j + 1] # index
  <2> TAKE j \in 1..(L - 1)
  <2>1. j + 1 \in 1..L
    BY <1>1
  <2>2. /\ b.order[j + 1] \in DOMAIN b.tracks
        /\ \E x \in DOMAIN b.tracks[b.order[j + 1]].frames :
             b.tracks[b.order[j + 1]].frames[x] = B + (j + 1)
    BY <2>1 DEF Sound, Ordered
  <2>3. ASSUME Len(fs) = 1, b.order[j + 1] = index PROVE FALSE
    <3>1. PICK x \in DOMAIN fs : fs[x] = B + (j + 1)
      BY <2>2, <2>3
    <3> HIDE DEF fs, B
    <3>2. x = 1
      BY <1>2, <2>3, <3>1
    <3>3. B \in Int
      BY <1>1 DEF B, Base
    <3> QED
      BY <1>1, <1>2, <3>1, <3>2, <3>3
  <2> QED
    BY <2>2, <2>3
<1> DEFINE rest == Tail(fs)
<1> HIDE DEF B, index, fs, f, t0, after
<1>8. index \in 1..N
  BY <1>1, <1>2
<1>9. DOMAIN b.tracks = 1..N
  BY <1>1
<1>10. CASE Len(fs) # 1
  <2> DEFINE m == [i \in 1..N |-> i]
             tracks == [b.tracks EXCEPT ![index].frames = rest]
             cut == IF f.encoded THEN b.cut \cup {t0} ELSE b.cut
  <2>1. after = [tracks |-> tracks, order |-> Tail(b.order), bytes |-> b.bytes - f.size - Freed(FALSE), cut |-> cut]
    <3>1. [b.tracks EXCEPT ![index].frames = Tail(@)] = tracks
      BY Zenon DEF fs
    <3> HIDE DEF tracks
    <3> QED
      BY Zenon, <1>6, <1>10, <3>1
  <2>2. b.bytes - f.size - Freed(FALSE) = b.bytes - f.size /\ b.bytes - f.size \in Int
    BY <1>1, <1>3 DEF Freed
  <2>3. rest \in Seq(Nat)
    BY <1>2
  <2> HIDE DEF rest
  <2>4. /\ DOMAIN tracks = 1..N
        /\ \A i \in 1..N : i # index => tracks[i] = b.tracks[i]
        /\ tracks[index] = [track |-> t0, frames |-> rest]
    <3>1. /\ DOMAIN tracks = 1..N
          /\ \A i \in 1..N : i # index => tracks[i] = b.tracks[i]
          /\ tracks[index] = [b.tracks[index] EXCEPT !.frames = rest]
      BY <1>8, <1>9
    <3> HIDE DEF tracks
    <3>2. [b.tracks[index] EXCEPT !.frames = rest] = [track |-> t0, frames |-> rest]
      BY <1>4
    <3> QED
      BY <3>1, <3>2
  <2>5. tracks \in Seq(TrackFrames) /\ Len(tracks) = N
    <3>1. tracks = [i \in 1..N |-> tracks[i]]
      <4>1. tracks = [i \in DOMAIN b.tracks |-> tracks[i]]
        OBVIOUS
      <4> HIDE DEF tracks
      <4> QED
        BY <1>9, <4>1
    <3> HIDE DEF tracks
    <3>2. [track |-> t0, frames |-> rest] \in TrackFrames
      BY <1>4, <2>3 DEF TrackFrames
    <3>3. \A i \in 1..N : tracks[i] \in TrackFrames
      BY <1>1, <2>4, <3>2
    <3>4. N \in Nat
      BY <1>1
    <3> HIDE DEF N
    <3> QED
      BY <3>1, <3>3, <3>4
  <2> HIDE DEF tracks
  <2>6. cut \in SUBSET Tracks
    BY <1>1, <1>4
  <2>7. after \in Buffers
    BY <1>5, <2>1, <2>2, <2>5, <2>6 DEF Buffers
  <2>8. /\ m \in [1..N -> 1..N] /\ \A i \in 1..N : m[i] = i
    OBVIOUS
  <2>9. /\ after.tracks = tracks /\ after.order = Tail(b.order) /\ after.cut = cut
        /\ after.bytes = b.bytes - f.size
    BY <2>1, <2>2
  <2>10. \A j \in 1..(L - 1) : after.order[j] = b.order[j + 1] /\ b.order[j + 1] \in 1..N
    BY <1>5, <1>7, <1>9, <2>9
  <2>11. \A t : t \in after.cut <=> t \in b.cut \/ (t = t0 /\ f.encoded)
    BY <2>9
  <2>12. \A i \in 1..N :
           /\ tracks[i].track = b.tracks[i].track
           /\ i # index => tracks[i].frames = b.tracks[i].frames
           /\ i = index => tracks[i].frames = rest
    BY <1>4, <2>4
  <2> HIDE DEF m, L, N, cut
  <2>13. Len(after.order) = L - 1 /\ Len(after.tracks) = N /\ DOMAIN after.tracks = 1..N
    BY <1>5, <2>4, <2>5, <2>9
  <2>14. \A t : t \in after.cut <=>
           (t \in b.cut \/ (t = t0 /\ f.encoded)) /\ (t = t0 => Len(fs) # 1)
    BY <1>10, <2>11
  <2>15. /\ \A i, k \in 1..N : m[i] = m[k] => i = k
         /\ \A k \in 1..N : \E i \in 1..N : m[i] = k
    BY <2>8
  <2>16. \A i \in 1..N :
           /\ after.tracks[i].track = b.tracks[m[i]].track
           /\ m[i] # index => after.tracks[i].frames = b.tracks[m[i]].frames
           /\ m[i] = index => Len(fs) # 1 /\ after.tracks[i].frames = rest
    BY <1>10, <2>8, <2>9, <2>12
  <2>17. \A j \in 1..(L - 1) : after.order[j] \in 1..N /\ m[after.order[j]] = b.order[j + 1]
    BY <2>8, <2>10
  <2>18. PushedOut(b, after, m, index, fs, rest, f)
    <3>1. after \in Buffers /\ Len(after.order) = Len(b.order) - 1
      BY <2>7, <2>13 DEF L
    <3>2. m \in [DOMAIN after.tracks -> DOMAIN b.tracks]
      BY <1>9, <2>8, <2>13
    <3>3. \A i, k \in DOMAIN after.tracks : m[i] = m[k] => i = k
      BY <2>13, <2>15
    <3>4. \A k \in DOMAIN b.tracks :
            (k # index \/ Len(fs) # 1) => \E i \in DOMAIN after.tracks : m[i] = k
      BY <1>9, <2>13, <2>15
    <3>5. \A i \in DOMAIN after.tracks :
            /\ after.tracks[i].track = b.tracks[m[i]].track
            /\ m[i] # index => after.tracks[i].frames = b.tracks[m[i]].frames
            /\ m[i] = index => Len(fs) # 1 /\ after.tracks[i].frames = rest
      BY <2>13, <2>16
    <3>6. \A j \in 1..(Len(b.order) - 1) :
            after.order[j] \in DOMAIN after.tracks /\ m[after.order[j]] = b.order[j + 1]
      BY <2>13, <2>17 DEF L
    <3>7. Len(after.tracks) = Len(b.tracks) /\ after.bytes = b.bytes - f.size
      BY <2>9, <2>13 DEF N
    <3> QED
      BY ONLY <2>14, <3>1, <3>2, <3>3, <3>4, <3>5, <3>6, <3>7 DEF PushedOut, t0
  <2> QED
    BY <2>18 DEF after, B, index, fs, rest, f
<1>11. CASE Len(fs) = 1
  <2> DEFINE m == [i \in 1..(N - 1) |-> IF i < index THEN i ELSE i + 1]
             tracks == RemoveAt(b.tracks, index)
             order == Shifted(Tail(b.order), index)
             cut == CutWithout(IF f.encoded THEN b.cut \cup {t0} ELSE b.cut, t0)
  <2>1. after = [tracks |-> tracks, order |-> order, bytes |-> b.bytes - f.size - Freed(TRUE), cut |-> cut]
    BY Zenon, <1>6, <1>11
  <2>2. /\ b.bytes - f.size - Freed(TRUE) = b.bytes - f.size - TrackBytes
        /\ b.bytes - f.size - TrackBytes \in Int
    BY <1>1, <1>3 DEF Freed
  <2>3. /\ tracks \in Seq(TrackFrames) /\ Len(tracks) = N - 1
        /\ \A i \in 1..(N - 1) : tracks[i] = IF i < index THEN b.tracks[i] ELSE b.tracks[i + 1]
    BY <1>1, <1>8, Removed
  <2>4. DOMAIN tracks = 1..(N - 1) /\ N - 1 \in Nat
    BY <1>1, <1>8, <2>3
  <2>5. /\ m \in [1..(N - 1) -> 1..N] /\ \A i, k \in 1..(N - 1) : m[i] = m[k] => i = k
        /\ \A i \in 1..(N - 1) : m[i] # index /\ tracks[i] = b.tracks[m[i]]
    <3>1. N \in Nat /\ index \in 1..N
      BY <1>1, <1>8
    <3> HIDE DEF N, tracks
    <3>2. \A i \in 1..(N - 1) : m[i] = IF i < index THEN i ELSE i + 1
      OBVIOUS
    <3>3. m \in [1..(N - 1) -> 1..N]
      BY <3>1
    <3> HIDE DEF m
    <3>4. \A i, k \in 1..(N - 1) : m[i] = m[k] => i = k
      BY <3>1, <3>2
    <3>5. \A i \in 1..(N - 1) : m[i] # index
      BY <3>1, <3>2
    <3>6. \A i \in 1..(N - 1) : tracks[i] = b.tracks[m[i]]
      BY <2>3, <3>2
    <3> QED
      BY <3>3, <3>4, <3>5, <3>6
  <2>6. \A k \in 1..N : k # index => \E i \in 1..(N - 1) : m[i] = k
    <3> TAKE k \in 1..N
    <3> HAVE k # index
    <3>1. CASE k < index
      <4>1. k \in 1..(N - 1) /\ m[k] = k
        BY <1>1, <1>8, <3>1
      <4> QED
        BY <4>1
    <3>2. CASE k > index
      <4>1. k - 1 \in 1..(N - 1) /\ m[k - 1] = k
        BY <1>1, <1>8, <3>2
      <4> QED
        BY <4>1
    <3>3. k < index \/ k > index
      BY <1>1, <1>8
    <3> QED
      BY <3>1, <3>2, <3>3
  <2>7. \A j \in 1..(L - 1) : order[j] \in 1..(N - 1) /\ m[order[j]] = b.order[j + 1]
    <3> TAKE j \in 1..(L - 1)
    <3> DEFINE k == b.order[j + 1]
    <3>1. k \in 1..N /\ k # index
      BY <1>7, <1>9, <1>11
    <3>2. order[j] = IF k > index THEN k - 1 ELSE k
      BY <1>5 DEF Shifted
    <3>3. N \in Nat /\ index \in 1..N
      BY <1>1, <1>8
    <3> DEFINE i == order[j]
    <3> HIDE DEF k, order, N
    <3>4. CASE k > index
      <4>1. i = k - 1 /\ i \in 1..(N - 1) /\ ~(i < index) /\ i + 1 = k
        BY <3>1, <3>2, <3>3, <3>4
      <4> HIDE DEF i
      <4>2. m[i] = k
        BY <4>1
      <4> QED
        BY <4>1, <4>2 DEF i, k
    <3>5. CASE k < index
      <4>1. i = k /\ i \in 1..(N - 1) /\ i < index
        BY <3>1, <3>2, <3>3, <3>5
      <4> HIDE DEF i
      <4>2. m[i] = k
        BY <4>1
      <4> QED
        BY <4>1, <4>2 DEF i, k
    <3>6. k < index \/ k > index
      BY <3>1, <3>3
    <3> QED
      BY <3>4, <3>5, <3>6
  <2>8. order \in Seq(Nat) /\ Len(order) = L - 1
    <3>1. order = [j \in 1..(L - 1) |-> order[j]]
      <4>1. order = [j \in DOMAIN Tail(b.order) |-> order[j]]
        BY DEF Shifted
      <4> HIDE DEF order
      <4> QED
        BY <1>5, <4>1
    <3>2. \A j \in 1..(L - 1) : order[j] \in Nat
      <4> HIDE DEF order, N, m
      <4> QED
        BY <2>4, <2>7
    <3>3. L - 1 \in Nat
      BY <1>1
    <3> HIDE DEF order, L
    <3> QED
      BY <3>1, <3>2, <3>3
  <2>9. /\ cut \in SUBSET Tracks
        /\ \A t : t \in cut <=> t # t0 /\ t \in b.cut
    BY <1>1, <1>4 DEF CutWithout
  <2> HIDE DEF tracks, order, cut, m
  <2>10. after \in Buffers
    BY <2>1, <2>2, <2>3, <2>8, <2>9 DEF Buffers
  <2>11. /\ after.tracks = tracks /\ after.order = order /\ after.cut = cut
         /\ after.bytes = b.bytes - f.size - TrackBytes
    BY <2>1, <2>2
  <2> HIDE DEF L, N
  <2>12. PushedOut(b, after, m, index, fs, rest, f)
    BY <1>9, <1>11, <2>3, <2>4, <2>5, <2>6, <2>7, <2>8, <2>9, <2>10, <2>11
       DEF PushedOut, t0, L, N
  <2> QED
    BY <2>12 DEF after, B, index, fs, rest, f
<1> QED
  BY <1>10, <1>11

\* A sound buffer is sound without its oldest frame.
LEMMA PushOutSound ==
    ASSUME NEW b, NEW all, NEW ent, Sound(b, all, ent), Len(b.order) > 0
    PROVE  Sound(PushOut(b, all), all, ent) /\ Len(PushOut(b, all).order) = Len(b.order) - 1
<1> DEFINE B == Base(b, all)
           index == b.order[1]
           fs == b.tracks[index].frames
           rest == Tail(fs)
           f == all[B + 1]
           t0 == b.tracks[index].track
           after == PushOut(b, all)
           L == Len(b.order)
<1>1. /\ b \in Buffers /\ all \in Seq(Frames) /\ ent \in [Tracks -> Nat] /\ Len(all) \in Nat
      /\ b.tracks \in Seq(TrackFrames) /\ b.order \in Seq(Nat) /\ b.bytes \in Int
      /\ b.cut \in SUBSET Tracks /\ L \in Nat /\ Len(b.tracks) \in Nat /\ L > 0
      /\ L <= Len(all)
  BY DEF Sound, BufferType, Buffers
<1>2. /\ index \in DOMAIN b.tracks /\ B + 1 \in 1..Len(all)
      /\ fs \in Seq(Nat) /\ Len(fs) \in Nat \ {0} /\ fs[1] = B + 1
      /\ \A x \in DOMAIN fs : x # 1 => fs[x] > B + 1
      /\ f.track = t0
  BY OldestFirst
<1>3. PICK m : PushedOut(b, after, m, index, fs, rest, f)
  BY PushOutEffect
<1>4. /\ f \in Frames /\ f.size \in Nat /\ TrackBytes \in Nat
      /\ \A n \in 1..Len(all) : all[n].encoded \in BOOLEAN
  <2>1. f \in Frames /\ \A n \in 1..Len(all) : all[n] \in Frames
    BY <1>1, <1>2
  <2> QED
    BY <2>1, BudgetsAssumption DEF Frames
<1> HIDE DEF after
<1>5. /\ after \in Buffers /\ Len(after.order) = L - 1
      /\ m \in [DOMAIN after.tracks -> DOMAIN b.tracks]
      /\ \A i, k \in DOMAIN after.tracks : m[i] = m[k] => i = k
      /\ \A k \in DOMAIN b.tracks :
           (k # index \/ Len(fs) # 1) => \E i \in DOMAIN after.tracks : m[i] = k
  BY <1>3 DEF PushedOut
<1>6. \A i \in DOMAIN after.tracks :
        /\ after.tracks[i].track = b.tracks[m[i]].track
        /\ m[i] # index => after.tracks[i].frames = b.tracks[m[i]].frames
        /\ m[i] = index => Len(fs) # 1 /\ after.tracks[i].frames = rest
  BY <1>3 DEF PushedOut
<1>7. \A j \in 1..(L - 1) : after.order[j] \in DOMAIN after.tracks /\ m[after.order[j]] = b.order[j + 1]
  BY <1>3 DEF PushedOut
<1>8. \A t : t \in after.cut <=>
         /\ t \in b.cut \/ (t = t0 /\ f.encoded)
         /\ t = t0 => Len(fs) # 1
  BY <1>3 DEF PushedOut
<1>9. \/ /\ Len(after.tracks) = Len(b.tracks)
         /\ after.bytes = b.bytes - f.size
      \/ /\ Len(after.tracks) = Len(b.tracks) - 1
         /\ after.bytes = b.bytes - f.size - TrackBytes
  BY <1>3 DEF PushedOut
<1>10. /\ B \in Nat /\ B + L = Len(all) /\ Base(after, all) = B + 1
  <2>1. B = Len(all) - L /\ Base(after, all) = Len(all) - (L - 1)
    BY <1>5 DEF Base
  <2> HIDE DEF B, L
  <2> QED
    BY <1>1, <2>1
<1>11. /\ DOMAIN fs = 1..Len(fs) /\ DOMAIN rest = 1..(Len(fs) - 1)
       /\ \A x \in 1..(Len(fs) - 1) : rest[x] = fs[x + 1]
       /\ Len(fs) # 1 => rest # <<>>
  <2> HIDE DEF fs
  <2>1. fs # <<>>
    BY <1>2
  <2>2. /\ rest \in Seq(Nat) /\ Len(rest) = Len(fs) - 1
        /\ \A x \in 1..Len(rest) : rest[x] = fs[x + 1]
    BY <1>2, <2>1, HeadTailProperties
  <2> HIDE DEF rest
  <2> QED
    BY <1>2, <2>2
<1> HIDE DEF B, L, index, fs, rest, f, t0
<1>12. \A k \in DOMAIN b.tracks :
         /\ b.tracks[k].frames # <<>>
         /\ \A x \in DOMAIN b.tracks[k].frames :
              /\ b.tracks[k].frames[x] \in (B + 1)..Len(all)
              /\ b.order[b.tracks[k].frames[x] - B] = k
         /\ \A x, y \in DOMAIN b.tracks[k].frames :
              x < y => b.tracks[k].frames[x] < b.tracks[k].frames[y]
  BY DEF Sound, Placed, B
<1>13. b.tracks[index].frames = fs /\ b.tracks[index].track = t0 /\ b.order[1] = index
  BY DEF fs, t0, index
<1>14. BufferType(after, all, ent)
  BY <1>1, <1>5 DEF BufferType
<1>15. Ordered(after, all)
  <2> SUFFICES ASSUME NEW j \in 1..(L - 1)
               PROVE  /\ after.order[j] \in DOMAIN after.tracks
                      /\ after.tracks[after.order[j]].track = all[(B + 1) + j].track
                      /\ \E x \in DOMAIN after.tracks[after.order[j]].frames :
                           after.tracks[after.order[j]].frames[x] = (B + 1) + j
    BY <1>5, <1>10 DEF Ordered
  <2> DEFINE i == after.order[j]
  <2>1. i \in DOMAIN after.tracks /\ m[i] = b.order[j + 1]
    BY <1>7
  <2>2. j + 1 \in 1..Len(b.order) /\ B + (j + 1) = (B + 1) + j
    <3>1. j + 1 \in 1..L /\ B + (j + 1) = (B + 1) + j
      BY <1>1, <1>10
    <3> QED
      BY <3>1 DEF L
  <2>3. /\ m[i] \in DOMAIN b.tracks
        /\ b.tracks[m[i]].track = all[(B + 1) + j].track
        /\ \E x \in DOMAIN b.tracks[m[i]].frames : b.tracks[m[i]].frames[x] = (B + 1) + j
    BY <2>1, <2>2 DEF Sound, Ordered, B
  <2> HIDE DEF i
  <2>4. CASE m[i] # index
    BY <1>6, <2>1, <2>3, <2>4 DEF i
  <2>5. CASE m[i] = index
    <3>1. PICK x \in DOMAIN fs : fs[x] = (B + 1) + j
      BY <1>13, <2>3, <2>5
    <3>2. x # 1
      BY <1>2, <1>10, <3>1
    <3>3. x - 1 \in 1..(Len(fs) - 1) /\ (x - 1) + 1 = x
      BY <1>2, <1>11, <3>1, <3>2
    <3>4. x - 1 \in DOMAIN rest /\ rest[x - 1] = (B + 1) + j
      BY <1>11, <3>1, <3>3
    <3> QED
      BY <1>6, <2>1, <2>3, <2>5, <3>4 DEF i
  <2> QED
    BY <2>4, <2>5
<1>16. Placed(after, all)
  <2> SUFFICES ASSUME NEW i \in DOMAIN after.tracks
               PROVE  /\ after.tracks[i].frames # <<>>
                      /\ \A x \in DOMAIN after.tracks[i].frames :
                           /\ after.tracks[i].frames[x] \in ((B + 1) + 1)..Len(all)
                           /\ after.order[after.tracks[i].frames[x] - (B + 1)] = i
                      /\ \A x, y \in DOMAIN after.tracks[i].frames :
                           x < y => after.tracks[i].frames[x] < after.tracks[i].frames[y]
    BY <1>10 DEF Placed
  <2>1. m[i] \in DOMAIN b.tracks
    BY <1>5
  <2>2. ASSUME NEW v \in (B + 1)..Len(all), b.order[v - B] = m[i], v # B + 1
        PROVE  v \in ((B + 1) + 1)..Len(all) /\ after.order[v - (B + 1)] = i
    <3>1. v \in ((B + 1) + 1)..Len(all) /\ v - (B + 1) \in 1..(L - 1) /\ (v - (B + 1)) + 1 = v - B
      BY <1>1, <1>10, <2>2
    <3>2. after.order[v - (B + 1)] \in DOMAIN after.tracks /\ m[after.order[v - (B + 1)]] = m[i]
      BY <1>7, <2>2, <3>1
    <3> QED
      BY <1>5, <3>1, <3>2
  <2>3. CASE m[i] # index
    <3>1. after.tracks[i].frames = b.tracks[m[i]].frames
      BY <1>6, <2>3
    <3>2. ASSUME NEW x \in DOMAIN b.tracks[m[i]].frames PROVE b.tracks[m[i]].frames[x] # B + 1
      <4>1. (B + 1) - B = 1
        BY <1>10
      <4> QED
        BY <1>12, <1>13, <2>1, <2>3, <4>1
    <3> QED
      BY <1>12, <2>1, <2>2, <3>1, <3>2
  <2>4. CASE m[i] = index
    <3>1. after.tracks[i].frames = rest /\ rest # <<>>
      BY <1>6, <1>11, <2>4
    <3>2. ASSUME NEW x \in 1..(Len(fs) - 1)
          PROVE  /\ x + 1 \in DOMAIN fs /\ rest[x] = fs[x + 1]
                 /\ fs[x + 1] \in (B + 1)..Len(all) /\ b.order[fs[x + 1] - B] = m[i]
                 /\ fs[x + 1] # B + 1
      <4>1. x + 1 \in DOMAIN fs /\ rest[x] = fs[x + 1] /\ x + 1 # 1
        BY <1>2, <1>11
      <4>2. /\ fs[x + 1] \in (B + 1)..Len(all) /\ b.order[fs[x + 1] - B] = m[i]
        BY <1>12, <1>13, <2>1, <2>4, <4>1
      <4>3. fs[x + 1] > B + 1
        BY <1>2, <4>1
      <4> QED
        BY <1>10, <4>1, <4>2, <4>3
    <3>3. ASSUME NEW x \in 1..(Len(fs) - 1), NEW y \in 1..(Len(fs) - 1), x < y
          PROVE  rest[x] < rest[y]
      <4>1. x + 1 < y + 1
        BY <3>3
      <4> QED
        BY <1>12, <1>13, <2>1, <2>4, <3>2, <4>1
    <3>4. ASSUME NEW x \in 1..(Len(fs) - 1)
          PROVE  rest[x] \in ((B + 1) + 1)..Len(all) /\ after.order[rest[x] - (B + 1)] = i
      BY <2>2, <3>2
    <3> QED
      BY <1>11, <3>1, <3>3, <3>4
  <2> QED
    BY <2>3, <2>4
<1>17. Single(after)
  <2>1. \A i, k \in DOMAIN b.tracks : b.tracks[i].track = b.tracks[k].track => i = k
    BY DEF Sound, Single
  <2> QED
    BY <1>5, <1>6, <2>1 DEF Single
<1>18. Priced(after, all)
  <2>1. b.bytes = Spent(all)[Len(all)] - Spent(all)[B] + TrackBytes * Len(b.tracks)
    BY DEF Sound, Priced, B
  <2>2. B \in 0..Len(all) /\ Len(all) \in 0..Len(all) /\ (B + 1) - 1 = B
    BY <1>1, <1>10
  <2>3. /\ Spent(all)[B + 1] = Spent(all)[B] + f.size
        /\ Spent(all)[Len(all)] \in Nat /\ Spent(all)[B] \in Nat
    BY <1>1, <1>2, <2>2, SpentSum DEF f
  <2> DEFINE spent == Spent(all)[Len(all)]
             gone == Spent(all)[B]
             p == TrackBytes * Len(b.tracks)
             q == TrackBytes * Len(after.tracks)
  <2>4. Len(after.tracks) \in Nat
    BY <1>5 DEF Buffers
  <2>5. p \in Nat /\ q \in Nat /\ (Len(after.tracks) = Len(b.tracks) - 1 => p = q + TrackBytes)
    <3>1. \A x, y \in Nat : x * y \in Nat /\ x * (y + 1) = x * y + x
      OBVIOUS
    <3>2. Len(after.tracks) = Len(b.tracks) - 1 => Len(b.tracks) = Len(after.tracks) + 1
      BY <1>1, <2>4
    <3> QED
      BY <1>1, <1>4, <2>4, <3>1, <3>2
  <2>6. Len(after.tracks) = Len(b.tracks) => q = p
    OBVIOUS
  <2>7. b.bytes = spent - gone + p /\ spent \in Nat /\ gone \in Nat
    BY <2>1, <2>3
  <2> HIDE DEF spent, gone, p, q
  <2>8. after.bytes = spent - (gone + f.size) + q
    <3>1. f.size \in Nat /\ TrackBytes \in Nat /\ q \in Nat /\ p \in Nat
      BY <1>4, <2>5
    <3>2. CASE Len(after.tracks) = Len(b.tracks) /\ after.bytes = b.bytes - f.size
      BY <2>6, <2>7, <3>1, <3>2
    <3>3. CASE Len(after.tracks) = Len(b.tracks) - 1 /\ after.bytes = b.bytes - f.size - TrackBytes
      BY <2>5, <2>7, <3>1, <3>3
    <3> QED
      BY <1>9, <3>2, <3>3
  <2> QED
    BY <1>10, <2>3, <2>8 DEF Priced, spent, gone, q
<1>19. CutRight(after, all, ent)
  <2>1. \A t \in b.cut : Holds(b, t)
    BY DEF Sound, CutRight
  <2>2. \A i \in DOMAIN b.tracks :
          /\ ent[b.tracks[i].track] \in 1..Len(all)
          /\ \A x \in DOMAIN b.tracks[i].frames :
               ent[b.tracks[i].track] <= b.tracks[i].frames[x]
          /\ b.tracks[i].track \in b.cut <=>
               \E k \in ent[b.tracks[i].track]..B :
                  all[k].track = b.tracks[i].track /\ all[k].encoded
    BY DEF Sound, CutRight, B
  <2>3. ASSUME NEW t \in after.cut PROVE Holds(after, t)
    <3>1. PICK k \in DOMAIN b.tracks : b.tracks[k].track = t
      BY <1>2, <1>8, <1>13, <2>1 DEF Holds
    <3>2. k # index \/ Len(fs) # 1
      BY <1>8, <1>13, <3>1
    <3>3. PICK i \in DOMAIN after.tracks : m[i] = k
      BY <1>5, <3>1, <3>2
    <3> QED
      BY <1>6, <3>1, <3>3 DEF Holds
  <2>4. ASSUME NEW i \in DOMAIN after.tracks
        PROVE  /\ ent[after.tracks[i].track] \in 1..Len(all)
               /\ \A x \in DOMAIN after.tracks[i].frames :
                    ent[after.tracks[i].track] <= after.tracks[i].frames[x]
               /\ after.tracks[i].track \in after.cut <=>
                    \E k \in ent[after.tracks[i].track]..(B + 1) :
                       all[k].track = after.tracks[i].track /\ all[k].encoded
    <3> DEFINE t == after.tracks[i].track
    <3>1. m[i] \in DOMAIN b.tracks /\ t = b.tracks[m[i]].track
      BY <1>5, <1>6
    <3> HIDE DEF t
    <3>2. /\ ent[t] \in 1..Len(all)
          /\ \A x \in DOMAIN b.tracks[m[i]].frames : ent[t] <= b.tracks[m[i]].frames[x]
          /\ t \in b.cut <=> \E k \in ent[t]..B : all[k].track = t /\ all[k].encoded
      BY <2>2, <3>1
    <3>3. t = t0 <=> m[i] = index
      BY <1>2, <1>13, <3>1 DEF Sound, Single
    <3>4. \A x \in DOMAIN after.tracks[i].frames : ent[t] <= after.tracks[i].frames[x]
      <4>1. CASE m[i] # index
        BY <1>6, <3>2, <4>1
      <4>2. CASE m[i] = index
        <5>1. after.tracks[i].frames = rest
          BY <1>6, <4>2
        <5>2. ASSUME NEW x \in 1..(Len(fs) - 1) PROVE ent[t] <= rest[x]
          <6>1. x + 1 \in DOMAIN fs /\ rest[x] = fs[x + 1]
            BY <1>2, <1>11
          <6> QED
            BY <1>13, <3>2, <4>2, <6>1
        <5> QED
          BY <1>11, <5>1, <5>2
      <4> QED
        BY <4>1, <4>2
    <3>5. t \in after.cut <=> t \in b.cut \/ (t = t0 /\ f.encoded)
      BY <1>6, <1>8, <3>3
    <3>6. (\E k \in ent[t]..(B + 1) : all[k].track = t /\ all[k].encoded)
            <=> (\E k \in ent[t]..B : all[k].track = t /\ all[k].encoded)
                  \/ (t = t0 /\ f.encoded)
      <4>1. t = t0 => ent[t] <= B + 1
        <5>1. 1 \in DOMAIN fs
          BY <1>2, <1>11
        <5> QED
          BY <1>2, <1>13, <3>2, <3>3, <5>1
      <4>2. f = all[B + 1]
        BY DEF f
      <4>3. \A k \in ent[t]..(B + 1) : k \in ent[t]..B \/ k = B + 1
        BY <1>1, <1>10, <3>2
      <4>4. \A k \in ent[t]..B : k \in ent[t]..(B + 1)
        BY <1>1, <1>10, <3>2
      <4>5. t = t0 => B + 1 \in ent[t]..(B + 1)
        BY <1>1, <1>10, <3>2, <4>1
      <4> QED
        BY <1>2, <4>2, <4>3, <4>4, <4>5
    <3>7. t \in after.cut <=> \E k \in ent[t]..(B + 1) : all[k].track = t /\ all[k].encoded
      BY <3>2, <3>5, <3>6
    <3> QED
      BY <3>2, <3>4, <3>7 DEF t
  <2> QED
    BY <1>10, <2>3, <2>4 DEF CutRight
<1> QED
  BY <1>5, <1>14, <1>15, <1>16, <1>17, <1>18, <1>19 DEF Sound, after, L

\* One turn of the loop of trim(), or none when what is left fits.
Turn(x, all, max) == IF x.bytes > max THEN PushOut(x, all) ELSE x

\* The recursion of Trim, as an equation.
TrimEquation(g, b, all, max) ==
    g = [n \in 0..(Len(b.order) - 1) |->
           IF n = 0 THEN b
           ELSE IF g[n - 1].bytes > max THEN PushOut(g[n - 1], all)
           ELSE g[n - 1]]

\* x is what trim() leaves of b, whose last push pushed out did not fit.
LastDidNotFit(x, b, all, ent, max) ==
    x = b \/ \E y : Sound(y, all, ent) /\ Len(y.order) = Len(x.order) + 1 /\ y.bytes > max

\* What n turns of trim() leave of b: each pushes one out, unless what is left fits.
Trimmed(x, b, all, ent, max, n) ==
    /\ Sound(x, all, ent)
    /\ Len(x.order) \in (Len(b.order) - n)..Len(b.order)
    /\ x.bytes > max => Len(x.order) = Len(b.order) - n
    /\ LastDidNotFit(x, b, all, ent, max)

\* A turn leaves what the turns before it left, trimmed once more.
LEMMA TurnTrims ==
    ASSUME NEW x, NEW b, NEW all, NEW ent, NEW max, NEW n \in Nat,
           Sound(b, all, ent), n + 1 <= Len(b.order) - 1, Trimmed(x, b, all, ent, max, n)
    PROVE  Trimmed(Turn(x, all, max), b, all, ent, max, n + 1)
<1>1. Len(b.order) \in Nat /\ Len(x.order) \in Nat
  BY DEF Sound, BufferType, Buffers, Trimmed
<1>2. Sound(x, all, ent) /\ Len(x.order) > 0 /\ Len(x.order) >= Len(b.order) - n
      /\ Len(x.order) <= Len(b.order)
  BY <1>1 DEF Trimmed
<1>3. CASE x.bytes > max
  <2>1. Sound(PushOut(x, all), all, ent) /\ Len(PushOut(x, all).order) = Len(x.order) - 1
    BY <1>2, PushOutSound
  <2>2. LastDidNotFit(PushOut(x, all), b, all, ent, max)
    <3>1. Len(x.order) = Len(PushOut(x, all).order) + 1
      BY <1>1, <2>1
    <3> QED
      BY <1>2, <1>3, <3>1 DEF LastDidNotFit
  <2>3. /\ Len(x.order) - 1 \in (Len(b.order) - (n + 1))..Len(b.order)
        /\ Len(x.order) - 1 = Len(b.order) - (n + 1)
    BY <1>1, <1>2, <1>3 DEF Trimmed
  <2> QED
    BY <1>3, <2>1, <2>2, <2>3 DEF Trimmed, Turn
<1>4. CASE ~(x.bytes > max)
  <2>1. Len(x.order) \in (Len(b.order) - (n + 1))..Len(b.order)
    BY <1>1, <1>2
  <2> QED
    BY <1>4, <2>1 DEF Trimmed, Turn
<1> QED
  BY <1>3, <1>4

\* The loop of trim() has a run: n turns of it leave a value, for every n.
LEMMA TrimSolved ==
    ASSUME NEW b, NEW all, NEW ent, NEW max, Sound(b, all, ent), Len(b.order) > 0
    PROVE  \E g : TrimEquation(g, b, all, max)
<1> DEFINE S == {x \in Buffers : Sound(x, all, ent)}
           N == Len(b.order) - 1
           turn == [y \in (1..N) \X S |-> IF Len(y[2].order) > 0 THEN Turn(y[2], all, max) ELSE y[2]]
<1>1. N \in Nat /\ b \in S /\ Len(b.order) = N + 1
  BY DEF Sound, BufferType, Buffers
<1>2. turn \in [(1..N) \X S -> S]
  <2> SUFFICES ASSUME NEW x \in S, Len(x.order) > 0 PROVE Turn(x, all, max) \in S
    OBVIOUS
  <2>1. Sound(PushOut(x, all), all, ent)
    BY PushOutSound
  <2>2. PushOut(x, all) \in S
    BY <2>1 DEF Sound, BufferType
  <2> QED
    BY <2>2 DEF Turn
<1>3. PICK g \in [0..N -> S] : g[0] = b /\ \A n \in 1..N : g[n] = turn[<<n, g[n - 1]>>]
  <2> HIDE DEF turn, N, S
  <2>1. Solvable(S, N, b, turn)
    BY <1>1, <1>2, Recursion
  <2> QED
    BY <2>1 DEF Solvable
<1>4. \A n \in 1..N : g[n] = IF Len(g[n - 1].order) > 0 THEN Turn(g[n - 1], all, max) ELSE g[n - 1]
  <2> TAKE n \in 1..N
  <2>1. n - 1 \in 0..N /\ g[n - 1] \in S
    BY <1>1, <1>3
  <2> HIDE DEF N, S
  <2> QED
    BY <1>3, <2>1
<1> DEFINE T == {n \in Nat : n <= N => Trimmed(g[n], b, all, ent, max, n)}
<1>5. 0 \in T
  <2>1. Len(b.order) \in (Len(b.order) - 0)..Len(b.order) /\ Len(b.order) = Len(b.order) - 0
    BY <1>1
  <2> QED
    BY <1>3, <2>1 DEF Trimmed, LastDidNotFit
<1>6. ASSUME NEW n \in T PROVE n + 1 \in T
  <2> SUFFICES ASSUME n + 1 <= N PROVE Trimmed(g[n + 1], b, all, ent, max, n + 1)
    OBVIOUS
  <2>1. Trimmed(g[n], b, all, ent, max, n) /\ n + 1 \in 1..N /\ (n + 1) - 1 = n
    BY <1>1
  <2>2. Len(g[n].order) > 0
    BY <1>1, <2>1 DEF Trimmed
  <2>3. g[n + 1] = Turn(g[n], all, max)
    BY <1>4, <2>1, <2>2
  <2>4. n + 1 <= Len(b.order) - 1
    OBVIOUS
  <2> HIDE DEF N, T
  <2> QED
    BY <2>1, <2>3, <2>4, TurnTrims
<1>7. T = Nat
  <2> HIDE DEF T
  <2> QED
    BY <1>5, <1>6, Induction DEF T
<1>8. \A n \in 1..N : g[n] = Turn(g[n - 1], all, max)
  <2> TAKE n \in 1..N
  <2>1. n - 1 \in T /\ n - 1 <= N /\ n - 1 \in Nat
    BY <1>1, <1>7
  <2>2. Trimmed(g[n - 1], b, all, ent, max, n - 1)
    BY <2>1
  <2>3. Len(g[n - 1].order) > 0
    BY <1>1, <2>1, <2>2 DEF Trimmed
  <2> QED
    BY <1>4, <2>3
<1>9. \A n \in 0..N : g[n] = IF n = 0 THEN b ELSE Turn(g[n - 1], all, max)
  BY <1>1, <1>3, <1>8
<1>10. g = [n \in 0..N |-> IF n = 0 THEN b ELSE Turn(g[n - 1], all, max)]
  <2> HIDE DEF N, S, T, turn
  <2> QED
    BY <1>3, <1>9
<1>11. TrimEquation(g, b, all, max)
  BY <1>10, Zenon DEF TrimEquation, Turn
<1> QED
  BY <1>11

\* Trimming keeps a buffer sound and its newest frame, leaves what fits or that frame
\* alone, and pushes no frame out that fits with those after it.
LEMMA TrimSound ==
    ASSUME NEW b, NEW all, NEW ent, NEW max, Sound(b, all, ent), Len(b.order) > 0
    PROVE  /\ Sound(Trim(b, all, max), all, ent)
           /\ Len(Trim(b, all, max).order) \in 1..Len(b.order)
           /\ Trim(b, all, max).bytes > max => Len(Trim(b, all, max).order) = 1
           /\ LastDidNotFit(Trim(b, all, max), b, all, ent, max)
<1> DEFINE N == Len(b.order) - 1
           g == CHOOSE h : TrimEquation(h, b, all, max)
<1>1. TrimEquation(g, b, all, max)
  BY TrimSolved
<1>2. Trim(b, all, max) = g[N]
  BY Zenon DEF Trim, TrimEquation
<1> HIDE DEF g
<1>3. N \in Nat /\ Len(b.order) = N + 1
  BY DEF Sound, BufferType, Buffers
<1>4. g = [n \in 0..N |-> IF n = 0 THEN b ELSE Turn(g[n - 1], all, max)]
  BY <1>1, Zenon DEF TrimEquation, Turn
<1>5. g[0] = b /\ \A n \in 1..N : g[n] = Turn(g[n - 1], all, max)
  <2> HIDE DEF N
  <2>1. \A n \in 0..N : g[n] = IF n = 0 THEN b ELSE Turn(g[n - 1], all, max)
    BY <1>4
  <2> QED
    BY <1>3, <2>1
<1> DEFINE T == {n \in Nat : n <= N => Trimmed(g[n], b, all, ent, max, n)}
<1>6. 0 \in T
  <2>1. Len(b.order) \in (Len(b.order) - 0)..Len(b.order) /\ Len(b.order) = Len(b.order) - 0
    BY <1>3
  <2> QED
    BY <1>5, <2>1 DEF Trimmed, LastDidNotFit
<1>7. ASSUME NEW n \in T PROVE n + 1 \in T
  <2> SUFFICES ASSUME n + 1 <= N PROVE Trimmed(g[n + 1], b, all, ent, max, n + 1)
    OBVIOUS
  <2>1. Trimmed(g[n], b, all, ent, max, n) /\ n + 1 \in 1..N /\ (n + 1) - 1 = n
    BY <1>3
  <2>2. g[n + 1] = Turn(g[n], all, max)
    BY <1>5, <2>1
  <2>3. n + 1 <= Len(b.order) - 1
    OBVIOUS
  <2> HIDE DEF N, T
  <2> QED
    BY <2>1, <2>2, <2>3, TurnTrims
<1>8. T = Nat
  <2> HIDE DEF T
  <2> QED
    BY <1>6, <1>7, Induction DEF T
<1>9. Trimmed(g[N], b, all, ent, max, N)
  <2>1. N \in T
    BY <1>3, <1>8
  <2> QED
    BY <1>3, <2>1
<1>10. /\ Len(g[N].order) \in 1..Len(b.order)
       /\ g[N].bytes > max => Len(g[N].order) = 1
  BY <1>3, <1>9 DEF Trimmed
<1> QED
  BY <1>2, <1>9, <1>10 DEF Trimmed

----------------------------------------------------------------------------
(* What a sound buffer holds.                                              *)

\* A map onto a set that keeps its points apart counts it.
LEMMA Counted ==
    ASSUME NEW S, NEW T, IsFiniteSet(S), NEW h \in [S -> T],
           \A x, y \in S : h[x] = h[y] => x = y, \A z \in T : \E x \in S : h[x] = z
    PROVE  IsFiniteSet(T) /\ Cardinality(T) = Cardinality(S)
<1>1. h \in Bijection(S, T)
  BY Fun_IsBij
<1>2. ExistsBijection(S, T)
  BY <1>1 DEF ExistsBijection
<1> QED
  BY <1>2, FS_Bijection

\* The pushes gone and those kept are all there were.
LEMMA SoundNumbers ==
    ASSUME NEW b, NEW all, NEW ent, Sound(b, all, ent)
    PROVE  /\ Base(b, all) \in Nat /\ Len(b.order) \in Nat /\ Len(all) \in Nat
           /\ Base(b, all) + Len(b.order) = Len(all)
           /\ Len(b.tracks) \in Nat /\ DOMAIN b.tracks = 1..Len(b.tracks)
<1>1. /\ Len(b.order) \in Nat /\ Len(all) \in Nat /\ Len(b.order) <= Len(all)
      /\ b.tracks \in Seq(TrackFrames)
  BY DEF Sound, BufferType, Buffers
<1>2. Base(b, all) \in Nat /\ Base(b, all) + Len(b.order) = Len(all)
  BY <1>1 DEF Base
<1> QED
  BY <1>1, <1>2

\* What is said of the frames of a track, and of an entry of the order.
Queue(b, all, i, fs, B) ==
    /\ b.tracks[i].frames = fs /\ Base(b, all) = B
    /\ fs \in Seq(Nat) /\ Len(fs) \in Nat \ {0} /\ DOMAIN fs = 1..Len(fs)
    /\ \A x \in DOMAIN fs : fs[x] \in (B + 1)..Len(all) /\ b.order[fs[x] - B] = i
    /\ \A x, y \in DOMAIN fs : x < y => fs[x] < fs[y]
    /\ \A n \in (B + 1)..Len(all) :
         b.order[n - B] = i \/ all[n].track = b.tracks[i].track => \E x \in DOMAIN fs : fs[x] = n

\* A push kept is in the order, under its own track.
LEMMA SoundEntry ==
    ASSUME NEW b, NEW all, NEW ent, Sound(b, all, ent), NEW n \in (Base(b, all) + 1)..Len(all)
    PROVE  LET i == b.order[n - Base(b, all)] IN
           /\ n - Base(b, all) \in 1..Len(b.order) /\ i \in DOMAIN b.tracks
           /\ b.tracks[i].track = all[n].track
           /\ \E x \in DOMAIN b.tracks[i].frames : b.tracks[i].frames[x] = n
<1> DEFINE B == Base(b, all)
           j == n - B
<1>1. B \in Nat /\ Len(all) \in Nat /\ B + Len(b.order) = Len(all) /\ Len(b.order) \in Nat
  BY SoundNumbers
<1>2. j \in 1..Len(b.order) /\ B + j = n
  BY <1>1
<1> HIDE DEF j
<1>3. /\ b.order[j] \in DOMAIN b.tracks
      /\ b.tracks[b.order[j]].track = all[B + j].track
      /\ \E x \in DOMAIN b.tracks[b.order[j]].frames :
           b.tracks[b.order[j]].frames[x] = B + j
  BY <1>2 DEF Sound, Ordered
<1> QED
  BY <1>2, <1>3 DEF j

\* A track's frames are those pushed to it and kept, in push order.
LEMMA SoundTrack ==
    ASSUME NEW b, NEW all, NEW ent, Sound(b, all, ent), NEW i \in DOMAIN b.tracks
    PROVE  Queue(b, all, i, b.tracks[i].frames, Base(b, all)) /\ b.tracks[i].track \in Tracks
<1> DEFINE B == Base(b, all)
           fs == b.tracks[i].frames
<1>1. b.tracks[i] \in TrackFrames
  BY DEF Sound, BufferType, Buffers
<1>2. fs \in Seq(Nat) /\ b.tracks[i].track \in Tracks
  BY <1>1 DEF TrackFrames
<1>3. /\ fs # <<>>
      /\ \A x \in DOMAIN fs : fs[x] \in (B + 1)..Len(all) /\ b.order[fs[x] - B] = i
      /\ \A x, y \in DOMAIN fs : x < y => fs[x] < fs[y]
  BY DEF Sound, Placed
<1>4. ASSUME NEW n \in (B + 1)..Len(all), b.order[n - B] = i \/ all[n].track = b.tracks[i].track
      PROVE  \E x \in DOMAIN fs : fs[x] = n
  <2>1. /\ b.order[n - B] \in DOMAIN b.tracks
        /\ b.tracks[b.order[n - B]].track = all[n].track
        /\ \E x \in DOMAIN b.tracks[b.order[n - B]].frames : b.tracks[b.order[n - B]].frames[x] = n
    BY SoundEntry
  <2>2. b.order[n - B] = i
    BY <1>4, <2>1 DEF Sound, Single
  <2> QED
    BY <2>1, <2>2
<1>5. Len(fs) \in Nat \ {0} /\ DOMAIN fs = 1..Len(fs)
  <2> HIDE DEF fs
  <2> QED
    BY <1>2, <1>3
<1> QED
  BY <1>2, <1>3, <1>4, <1>5 DEF Queue

\* The first v entries of the order that are the track's at i.
UpTo(b, i, v) == {k \in 1..v : b.order[k] = i}

\* A track's frames up to one are as many as the order has entries of it up to there.
LEMMA Nth ==
    ASSUME NEW b, NEW all, NEW ent, Sound(b, all, ent),
           NEW i \in DOMAIN b.tracks, NEW x \in DOMAIN b.tracks[i].frames
    PROVE  Cardinality(UpTo(b, i, b.tracks[i].frames[x] - Base(b, all))) = x
<1> DEFINE B == Base(b, all)
           fs == b.tracks[i].frames
           j == fs[x] - B
           T == {k \in 1..j : b.order[k] = i}
           h == [y \in 1..x |-> fs[y] - B]
<1>1. B \in Nat /\ Len(all) \in Nat /\ Len(b.order) \in Nat /\ B + Len(b.order) = Len(all)
  BY SoundNumbers
<1>2. Queue(b, all, i, fs, B)
  BY SoundTrack
<1> HIDE DEF fs
<1>3. x \in 1..Len(fs) /\ DOMAIN fs = 1..Len(fs) /\ Len(fs) \in Nat
  <2>1. x \in DOMAIN fs
    BY DEF fs
  <2> QED
    BY <1>2, <2>1 DEF Queue
<1> HIDE DEF B
<1>4. \A y \in 1..Len(fs) : /\ fs[y] \in Nat /\ fs[y] > B /\ fs[y] <= Len(all)
                            /\ b.order[fs[y] - B] = i
  <2> TAKE y \in 1..Len(fs)
  <2>1. fs[y] \in (B + 1)..Len(all) /\ b.order[fs[y] - B] = i
    BY <1>2, <1>3 DEF Queue
  <2> QED
    BY <1>1, <2>1
<1>5. \A y, z \in 1..Len(fs) : y < z => fs[y] < fs[z]
  BY <1>2 DEF Queue
<1>6. j \in 1..Len(b.order) /\ fs[x] = B + j
  BY <1>1, <1>3, <1>4
<1>7. ASSUME NEW y \in 1..x PROVE y \in 1..Len(fs) /\ fs[y] \in Nat /\ fs[y] > B /\ fs[y] <= fs[x]
  <2>1. y \in 1..Len(fs) /\ (y = x \/ y < x)
    BY <1>3
  <2>2. y < x => fs[y] < fs[x]
    BY <1>3, <1>5, <2>1
  <2> QED
    BY <1>3, <1>4, <2>1, <2>2
<1>8. h \in [1..x -> T]
  <2> SUFFICES ASSUME NEW y \in 1..x PROVE fs[y] - B \in T
    OBVIOUS
  <2>1. fs[y] - B \in 1..j
    BY <1>1, <1>6, <1>7
  <2>2. b.order[fs[y] - B] = i
    BY <1>4, <1>7
  <2> QED
    BY <2>1, <2>2
<1>9. \A y, z \in 1..x : h[y] = h[z] => y = z
  <2> SUFFICES ASSUME NEW y \in 1..x, NEW z \in 1..x, fs[y] - B = fs[z] - B PROVE y = z
    OBVIOUS
  <2>0. fs[y] \in Nat /\ y \in 1..Len(fs) /\ fs[z] \in Nat /\ z \in 1..Len(fs)
    BY <1>7
  <2>1. fs[y] = fs[z] /\ fs[y] \in Nat /\ y \in 1..Len(fs) /\ z \in 1..Len(fs)
    BY <1>1, <2>0
  <2>2. ~(y < z) /\ ~(z < y)
    BY <1>5, <2>1
  <2> QED
    BY <1>3, <2>2
<1>10. \A k \in T : \E y \in 1..x : h[y] = k
  <2> TAKE k \in T
  <2>1. k \in 1..j /\ b.order[k] = i
    OBVIOUS
  <2> HIDE DEF j, T
  <2>2. B + k \in (B + 1)..Len(all) /\ (B + k) - B = k
    BY <1>1, <1>6, <2>1
  <2>3. PICK y \in DOMAIN fs : fs[y] = B + k
    BY <1>2, <2>1, <2>2 DEF Queue
  <2>4. ~(x < y)
    BY <1>1, <1>3, <1>5, <1>6, <2>1, <2>3
  <2>5. y \in 1..x
    BY <1>3, <2>3, <2>4
  <2>6. h[y] = k
    BY <2>2, <2>3, <2>5
  <2> QED
    BY <2>5, <2>6
<1>11. IsFiniteSet(1..x) /\ Cardinality(1..x) = x
  BY <1>3, FS_Interval
<1>12. Cardinality(T) = x
  <2> HIDE DEF T, h
  <2> QED
    BY <1>8, <1>9, <1>10, <1>11, Counted
<1> QED
  BY <1>12 DEF T, B, UpTo, fs

\* What a sound buffer's bytes are.
LEMMA CostOfSound ==
    ASSUME NEW b, NEW all, NEW ent, Sound(b, all, ent)
    PROVE  b.bytes = Cost(all, Len(b.order))
<1> DEFINE B == Base(b, all)
           N == Len(b.tracks)
           T == {all[n].track : n \in (B + 1)..Len(all)}
           h == [i \in 1..N |-> b.tracks[i].track]
<1>1. /\ B \in Nat /\ Len(all) \in Nat /\ Len(b.order) \in Nat /\ B + Len(b.order) = Len(all)
      /\ N \in Nat /\ DOMAIN b.tracks = 1..N
  BY SoundNumbers
<1>2. ASSUME NEW i \in 1..N PROVE b.tracks[i].track \in T
  <2> DEFINE n == b.tracks[i].frames[1]
  <2>1. Queue(b, all, i, b.tracks[i].frames, B)
    BY <1>1, SoundTrack
  <2>2. n \in (B + 1)..Len(all) /\ b.order[n - B] = i
    BY <2>1 DEF Queue
  <2> HIDE DEF n
  <2>3. b.tracks[i].track = all[n].track
    BY <2>2, SoundEntry
  <2> QED
    BY <2>2, <2>3
<1>3. \A i, k \in 1..N : b.tracks[i].track = b.tracks[k].track => i = k
  BY <1>1 DEF Sound, Single
<1>4. ASSUME NEW n \in (B + 1)..Len(all) PROVE \E i \in 1..N : b.tracks[i].track = all[n].track
  <2>1. /\ b.order[n - B] \in DOMAIN b.tracks
        /\ b.tracks[b.order[n - B]].track = all[n].track
    BY SoundEntry
  <2> QED
    BY <1>1, <2>1
<1> HIDE DEF N, B
<1>5. h \in [1..N -> T]
  <2> HIDE DEF T
  <2> QED
    BY <1>2
<1>6. \A i, k \in 1..N : h[i] = h[k] => i = k
  BY <1>3
<1>7. \A t \in T : \E i \in 1..N : h[i] = t
  BY <1>4
<1>8. IsFiniteSet(1..N) /\ Cardinality(1..N) = N
  BY <1>1, FS_Interval
<1>9. Cardinality(T) = N
  <2> HIDE DEF T, h
  <2> QED
    BY <1>5, <1>6, <1>7, <1>8, Counted
<1>10. Len(all) - Len(b.order) = B
  BY DEF Base, B
<1>11. Cost(all, Len(b.order)) = Spent(all)[Len(all)] - Spent(all)[B] + TrackBytes * Cardinality(T)
  BY <1>10 DEF Cost
<1>12. b.bytes = Spent(all)[Len(all)] - Spent(all)[B] + TrackBytes * N
  BY DEF Sound, Priced, B, N
<1> HIDE DEF T
<1> QED
  BY <1>9, <1>11, <1>12

----------------------------------------------------------------------------
(* Frames are pushed out only when the budget needs it.                    *)

\* The tracks frames were pushed to.
TracksOf(all) == {all[n].track : n \in 1..Len(all)}

\* What all the frames pushed would cost in one message.
LEMMA WholeCost ==
    ASSUME NEW all \in Seq(Frames)
    PROVE  /\ IsFiniteSet(TracksOf(all)) /\ Cardinality(TracksOf(all)) \in Nat
           /\ Cost(all, Len(all)) = Spent(all)[Len(all)] + TrackBytes * Cardinality(TracksOf(all))
           /\ Spent(all)[Len(all)] \in Nat
           /\ TrackBytes * Cardinality(TracksOf(all)) \in Nat
<1> DEFINE N == Len(all)
           T == TracksOf(all)
           h == [n \in 1..N |-> all[n].track]
<1>1. N \in Nat
  OBVIOUS
<1>2. IsFiniteSet(1..N)
  BY <1>1, FS_Interval
<1>3. h \in Surjection(1..N, T)
  <2>1. h \in [1..N -> T] /\ \A t \in T : \E n \in 1..N : h[n] = t
    BY DEF TracksOf
  <2> QED
    BY <2>1 DEF Surjection
<1>4. IsFiniteSet(T)
  <2> HIDE DEF T, N, h
  <2> QED
    BY <1>2, <1>3, FS_Surjection
<1>5. Cardinality(T) \in Nat
  BY <1>4, FS_CardinalityType
<1>6. N - N = 0 /\ 0 + 1 = 1
  BY <1>1
<1>7. Cost(all, N) = Spent(all)[N] - Spent(all)[0] + TrackBytes * Cardinality(T)
  BY <1>6 DEF Cost, TracksOf
<1>8. Spent(all)[0] = 0 /\ Spent(all)[N] \in Nat
  <2>1. N \in 0..N
    BY <1>1
  <2> QED
    BY <2>1, SpentSum
<1>9. TrackBytes * Cardinality(T) \in Nat
  <2>1. \A x, y \in Nat : x * y \in Nat
    OBVIOUS
  <2> QED
    BY <1>5, <2>1, BudgetsAssumption
<1> DEFINE p == TrackBytes * Cardinality(T)
<1>10. Cost(all, N) = Spent(all)[N] + p
  <2> HIDE DEF p, N
  <2>1. Cost(all, N) = Spent(all)[N] - Spent(all)[0] + p
    BY <1>7 DEF p
  <2>2. p \in Nat
    BY <1>9 DEF p
  <2> QED
    BY <1>8, <2>1, <2>2
<1> QED
  BY <1>4, <1>5, <1>8, <1>9, <1>10

\* The newest of them never cost more than all of them.
LEMMA NewestCost ==
    ASSUME NEW all \in Seq(Frames), NEW k \in 0..Len(all)
    PROVE  /\ Cost(all, k) \in Int /\ Cost(all, Len(all)) \in Nat
           /\ Cost(all, k) <= Cost(all, Len(all))
<1> DEFINE N == Len(all)
           S == {all[n].track : n \in (N - k + 1)..N}
           T == TracksOf(all)
           x == Spent(all)[N]
           y == Spent(all)[N - k]
<1>1. N \in Nat /\ N - k \in 0..N /\ N \in 0..N
  OBVIOUS
<1>2. x \in Nat /\ y \in Nat
  BY <1>1, SpentSum
<1>3. S \subseteq T
  <2>1. (N - k + 1)..N \subseteq 1..N
    BY <1>1
  <2> QED
    BY <2>1 DEF TracksOf
<1>4. Cost(all, k) = x - y + TrackBytes * Cardinality(S)
  BY DEF Cost
<1>5. IsFiniteSet(T) /\ Cost(all, N) = x + TrackBytes * Cardinality(T) /\ Cardinality(T) \in Nat
  BY WholeCost
<1> HIDE DEF S, T, x, y
<1>6. Cardinality(S) \in Nat /\ Cardinality(S) <= Cardinality(T)
  BY <1>3, <1>5, FS_Subset, FS_CardinalityType
<1>7. /\ TrackBytes * Cardinality(S) \in Nat /\ TrackBytes * Cardinality(T) \in Nat
      /\ TrackBytes * Cardinality(S) <= TrackBytes * Cardinality(T)
  <2>1. \A a, b, c \in Nat : b <= c => a * b \in Nat /\ a * c \in Nat /\ a * b <= a * c
    OBVIOUS
  <2> QED
    BY <1>5, <1>6, <2>1, BudgetsAssumption
<1> DEFINE p == TrackBytes * Cardinality(S)
           q == TrackBytes * Cardinality(T)
<1>8. p \in Nat /\ q \in Nat /\ p <= q
  BY <1>7
<1>9. Cost(all, k) = x - y + p /\ Cost(all, N) = x + q
  BY <1>4, <1>5
<1> HIDE DEF p, q
<1> QED
  BY <1>2, <1>8, <1>9

\* The buffer b of the pushes of all is held to their budgets, and no further.
Budgeted(b, all, lim) ==
    /\ lim \in Seq(Nat) /\ Len(lim) = Len(all)
    /\ Len(all) > 0 => Len(b.order) > 0
    /\ Len(b.order) > 1 => b.bytes <= lim[Len(all)]
    /\ Base(b, all) > 0 => \E n \in (Base(b, all) + 1)..Len(all) :
         Cost(SubSeq(all, 1, n), n - Base(b, all) + 1) > lim[n]

\* A push leaves a sound buffer, that lost frames only when it had to.
LEMMA PushSound ==
    ASSUME Sound(buffer, pushed, entered), budget \in Budgets, Budgeted(buffer, pushed, limits),
           NEW f \in Frames, Push(f)
    PROVE  Sound(buffer, pushed, entered)' /\ Budgeted(buffer, pushed, limits)'
<1> DEFINE n == Len(pushed) + 1
           more == Append(pushed, f)
           x == Add(buffer, f, n)
           ent2 == IF Holds(buffer, f.track) THEN entered ELSE [entered EXCEPT ![f.track] = n]
<1>1. pushed \in Seq(Frames) /\ Len(pushed) \in Nat /\ Len(buffer.order) \in Nat
  BY DEF Sound, BufferType, Buffers
<1>2. pushed' = more /\ Len(more) = n /\ more \in Seq(Frames)
  BY <1>1 DEF Push
<1>3. buffer' = Trim(x, more, budget) /\ entered' = ent2
  BY <1>2 DEF Push
<1>4. Sound(x, more, ent2) /\ Len(x.order) = Len(buffer.order) + 1
  BY AddSound
<1>5. \A m \in 1..Len(pushed) : SubSeq(more, 1, m) = SubSeq(pushed, 1, m)
  BY <1>1
<1>6. SubSeq(more, 1, n) = more
  BY <1>1, <1>2
<1>7. /\ limits' \in Seq(Nat) /\ Len(limits') = n /\ limits'[n] = budget
      /\ \A m \in 1..Len(pushed) : limits'[m] = limits[m]
  <2>1. limits' = Append(limits, budget) /\ limits \in Seq(Nat) /\ Len(limits) = Len(pushed)
    BY DEF Push, Budgeted
  <2>2. budget \in Nat
    BY BudgetsAssumption
  <2> QED
    BY <1>1, <2>1, <2>2
<1>8. n \in Nat /\ Len(pushed) = n - 1
  BY <1>1
<1> HIDE DEF n, more, x, ent2
<1>9. Len(x.order) > 0
  BY <1>1, <1>4
<1>10. /\ Sound(buffer', more, ent2)
       /\ Len(buffer'.order) \in 1..Len(x.order)
       /\ buffer'.bytes > budget => Len(buffer'.order) = 1
       /\ LastDidNotFit(buffer', x, more, ent2, budget)
  BY <1>3, <1>4, <1>9, TrimSound
<1>11. Sound(buffer, pushed, entered)'
  BY <1>2, <1>3, <1>10
<1> DEFINE kept == Len(buffer'.order)
           B == Base(buffer', more)
<1>12. kept \in Nat /\ kept > 0 /\ B \in Nat /\ B + kept = n
  BY <1>1, <1>2, <1>4, <1>10, SoundNumbers
<1>13. kept > 1 => buffer'.bytes <= limits'[n]
  <2>1. buffer'.bytes \in Int /\ budget \in Int
    BY <1>10, BudgetsAssumption DEF Sound, BufferType, Buffers
  <2>2. kept > 1 => ~(buffer'.bytes > budget)
    <3>1. buffer'.bytes > budget => kept = 1
      BY <1>10
    <3>2. kept = 1 => ~(kept > 1)
      OBVIOUS
    <3> HIDE DEF kept
    <3> QED
      BY <3>1, <3>2, Zenon
  <2> QED
    BY ONLY <1>7, <2>1, <2>2
<1> HIDE DEF kept, B
<1>14. ASSUME B > 0
       PROVE  \E m \in (B + 1)..n : Cost(SubSeq(more, 1, m), m - B + 1) > limits'[m]
  <2>1. CASE buffer' = x
    <3>1. B = Base(buffer, pushed)
      <4>1. B = n - (Len(buffer.order) + 1) /\ Base(buffer, pushed) = (n - 1) - Len(buffer.order)
        BY <1>2, <1>4, <1>8, <2>1 DEF Base, B
      <4> QED
        BY ONLY <1>1, <1>8, <4>1
    <3>2. PICK m \in (B + 1)..Len(pushed) : Cost(SubSeq(pushed, 1, m), m - B + 1) > limits[m]
      BY <1>14, <3>1 DEF Budgeted
    <3>3. m \in 1..Len(pushed) /\ m \in (B + 1)..n
      BY <1>1, <1>8, <1>12, <3>2
    <3> QED
      BY <1>5, <1>7, <3>2, <3>3
  <2>2. ASSUME NEW y, Sound(y, more, ent2), Len(y.order) = kept + 1, y.bytes > budget
        PROVE  Cost(SubSeq(more, 1, n), n - B + 1) > limits'[n] /\ n \in (B + 1)..n
    <3>1. n - B + 1 = kept + 1 /\ n \in (B + 1)..n
      BY <1>8, <1>12
    <3>2. y.bytes = Cost(more, kept + 1)
      BY <2>2, CostOfSound
    <3> QED
      BY <1>6, <1>7, <2>2, <3>1, <3>2
  <2> QED
    BY <1>10, <2>1, <2>2 DEF LastDidNotFit, kept
<1>15. Budgeted(buffer', more, limits')
  BY <1>2, <1>7, <1>12, <1>13, <1>14 DEF Budgeted, kept, B
<1> QED
  BY <1>2, <1>11, <1>15

\* An empty buffer is sound.
LEMMA EmptySound ==
    Sound(Empty, <<>>, [t \in Tracks |-> 0]) /\ Budgeted(Empty, <<>>, <<>>)
<1>1. /\ Empty.tracks = <<>> /\ Empty.order = <<>> /\ Empty.bytes = 0 /\ Empty.cut = {}
      /\ Empty \in Buffers
  BY DEF Empty, Buffers
<1>2. Base(Empty, <<>>) = 0 /\ Len(Empty.order) = 0 /\ DOMAIN Empty.tracks = {}
  BY <1>1 DEF Base
<1>3. BufferType(Empty, <<>>, [t \in Tracks |-> 0])
  BY <1>1, <1>2 DEF BufferType
<1>4. Priced(Empty, <<>>)
  <2>1. Spent(<<>>)[0] \in Nat
    <3>1. <<>> \in Seq(Frames) /\ Len(<<>>) = 0
      OBVIOUS
    <3>2. Spent(<<>>)[0] = 0
      BY <3>1, SpentSum
    <3> QED
      BY <3>2
  <2>2. TrackBytes * 0 = 0
    BY BudgetsAssumption
  <2>3. Len(<<>>) = 0 /\ Len(Empty.tracks) = 0
    BY <1>1
  <2> QED
    BY <1>1, <1>2, <2>1, <2>2, <2>3 DEF Priced
<1>5. /\ Ordered(Empty, <<>>) /\ Placed(Empty, <<>>) /\ Single(Empty)
      /\ CutRight(Empty, <<>>, [t \in Tracks |-> 0])
  BY <1>1, <1>2 DEF Ordered, Placed, Single, CutRight
<1>6. Budgeted(Empty, <<>>, <<>>)
  BY <1>2 DEF Budgeted
<1> QED
  BY <1>3, <1>4, <1>5, <1>6 DEF Sound

\* A sound buffer is what a step should get.
LEMMA SoundTakes ==
    ASSUME Sound(buffer, pushed, entered), Budgeted(buffer, pushed, limits)
    PROVE  TakesNewestOrRefuses
<1> DEFINE B == Base(buffer, pushed)
           kept == Len(buffer.order)
<1>1. B \in Nat /\ Len(pushed) \in Nat /\ kept \in Nat /\ B + kept = Len(pushed)
  BY SoundNumbers
<1>2. buffer.bytes = Cost(pushed, kept)
  BY CostOfSound
<1> HIDE DEF B, kept
<1>3. kept <= Len(pushed)
  BY <1>1
<1>4. ASSUME NEW i \in DOMAIN buffer.tracks
      PROVE  /\ buffer.tracks[i].frames # <<>>
             /\ Len(buffer.tracks[i].frames) = Cardinality({j \in 1..kept : buffer.order[j] = i})
  <2> DEFINE fs == buffer.tracks[i].frames
             last == Len(fs)
             every == {j \in 1..kept : buffer.order[j] = i}
  <2>1. Queue(buffer, pushed, i, fs, B)
    BY SoundTrack DEF B
  <2>2. last \in DOMAIN fs /\ last \in Nat
    BY <2>1 DEF Queue
  <2>3. Cardinality(UpTo(buffer, i, fs[last] - B)) = last
    BY <2>2, Nth DEF B
  <2> HIDE DEF fs
  <2>4. DOMAIN fs = 1..last /\ fs[last] \in (B + 1)..Len(pushed)
    BY <2>1, <2>2 DEF Queue
  <2>5. ASSUME NEW j \in 1..kept, buffer.order[j] = i PROVE j \in 1..(fs[last] - B)
    <3>1. B + j \in (B + 1)..Len(pushed) /\ (B + j) - B = j
      BY <1>1
    <3>2. PICK x \in DOMAIN fs : fs[x] = B + j
      BY <2>1, <2>5, <3>1 DEF Queue
    <3>3. x < last => fs[x] < fs[last]
      BY <2>1, <2>2 DEF Queue
    <3>4. x = last \/ x < last
      BY <2>2, <2>4
    <3>5. B + j <= fs[last]
      BY <1>1, <2>4, <3>2, <3>3, <3>4
    <3> QED
      BY <1>1, <2>4, <3>5
  <2>6. \A j \in 1..(fs[last] - B) : j \in 1..kept
    BY <1>1, <2>4
  <2>7. UpTo(buffer, i, fs[last] - B) = every
    BY <2>5, <2>6 DEF UpTo
  <2>8. fs # <<>>
    BY <2>1 DEF Queue
  <2> QED
    BY <2>3, <2>7, <2>8 DEF fs
<1>5. ASSUME NEW j \in 1..kept
      PROVE  /\ buffer.order[j] \in DOMAIN buffer.tracks
             /\ Entry(j) = Len(pushed) - kept + j
             /\ buffer.tracks[buffer.order[j]].track = pushed[Entry(j)].track
  <2> DEFINE i == buffer.order[j]
             n == B + j
             fs == buffer.tracks[i].frames
  <2>1. n \in (B + 1)..Len(pushed) /\ n - B = j /\ n = Len(pushed) - kept + j
    BY <1>1
  <2> HIDE DEF n
  <2>2. /\ i \in DOMAIN buffer.tracks /\ buffer.tracks[i].track = pushed[n].track
        /\ \E x \in DOMAIN fs : fs[x] = n
    BY <2>1, SoundEntry DEF B
  <2>3. PICK x \in DOMAIN fs : fs[x] = n
    BY <2>2
  <2>4. Cardinality({k \in 1..j : buffer.order[k] = i}) = x
    <3>1. Cardinality(UpTo(buffer, i, fs[x] - Base(buffer, pushed))) = x
      BY <2>2, Nth
    <3> QED
      BY <2>1, <2>3, <3>1 DEF B, UpTo
  <2>5. Entry(j) = n
    BY <2>3, <2>4 DEF Entry
  <2> QED
    BY <2>1, <2>2, <2>5
<1>6. HoldsTheNewest
  BY <1>2, <1>3, <1>4, <1>5 DEF HoldsTheNewest, kept
<1>7. ASSUME NEW i \in DOMAIN buffer.tracks
      PROVE  buffer.tracks[i].track \in buffer.cut <=> Lost(buffer.tracks[i])
  <2> DEFINE t == buffer.tracks[i].track
             fs == buffer.tracks[i].frames
             lost(n) == /\ pushed[n].track = t /\ pushed[n].encoded
                        /\ ~\E x \in DOMAIN fs : fs[x] = n
  <2>1. /\ entered[t] \in 1..Len(pushed)
        /\ t \in buffer.cut <=>
             \E n \in entered[t]..B : pushed[n].track = t /\ pushed[n].encoded
    BY DEF Sound, CutRight, B
  <2>2. Queue(buffer, pushed, i, fs, B)
    BY SoundTrack DEF B
  <2>3. /\ \A x \in DOMAIN fs : fs[x] \in (B + 1)..Len(pushed)
        /\ \A n \in (B + 1)..Len(pushed) :
             pushed[n].track = t => \E x \in DOMAIN fs : fs[x] = n
    BY <2>2 DEF Queue
  <2>4. Lost(buffer.tracks[i]) <=> \E n \in entered[t]..Len(pushed) : lost(n)
    BY DEF Lost
  <2> HIDE DEF t, fs
  <2>5. ASSUME NEW n \in entered[t]..B, pushed[n].track = t, pushed[n].encoded
        PROVE  n \in entered[t]..Len(pushed) /\ lost(n)
    <3>1. n \in entered[t]..Len(pushed) /\ n <= B /\ n \in Nat
      BY <1>1, <2>1
    <3>2. \A x \in DOMAIN fs : fs[x] # n
      BY <1>1, <2>3, <3>1
    <3> QED
      BY <2>5, <3>1, <3>2
  <2>6. ASSUME NEW n \in entered[t]..Len(pushed), lost(n)
        PROVE  n \in entered[t]..B /\ pushed[n].track = t /\ pushed[n].encoded
    <3>1. n \in entered[t]..B \/ n \in (B + 1)..Len(pushed)
      BY <1>1, <2>1
    <3>2. pushed[n].track = t /\ pushed[n].encoded /\ ~\E x \in DOMAIN fs : fs[x] = n
      BY <2>6
    <3> HIDE DEF lost
    <3> QED
      BY <2>3, <3>1, <3>2
  <2>7. (\E n \in entered[t]..Len(pushed) : lost(n))
          <=> \E n \in entered[t]..B : pushed[n].track = t /\ pushed[n].encoded
    <3> HIDE DEF lost
    <3> QED
      BY <2>5, <2>6
  <2> HIDE DEF lost
  <2>8. t \in buffer.cut <=> Lost(buffer.tracks[i])
    BY <2>1, <2>4, <2>7
  <2> QED
    BY <2>8 DEF t
<1>8. RefusesCutStreams
  BY <1>7 DEF RefusesCutStreams, Refuses
<1>9. HeldToTheBudget
  BY <1>1 DEF HeldToTheBudget, Budgeted, Base
<1> QED
  BY <1>6, <1>8, <1>9 DEF TakesNewestOrRefuses

----------------------------------------------------------------------------
(* Least elements.                                                         *)

\* A set of naturals that is not empty has its least element.
LEMMA MinIsLeast ==
    ASSUME NEW S \in SUBSET Nat, S # {}
    PROVE  Min(S) \in S /\ \A y \in S : Min(S) <= y
<1>1. IsWellFoundedOn(Below, Nat)
  BY NatLessThanWellFounded, BelowIsLess
<1>2. PICK x \in S : \A y \in S : ~(<<y, x>> \in Below)
  BY <1>1, WFMin
<1>3. \A y \in S : x <= y
  <2> TAKE y \in S
  <2>1. <<y, x>> \in Nat \X Nat /\ ~(<<y, x>> \in Below)
    BY <1>2
  <2>2. ~(y < x)
    BY <2>1 DEF Below
  <2> QED
    BY <2>1, <2>2
<1> QED
  BY <1>3 DEF Min

----------------------------------------------------------------------------
(* The frames a step carries.                                              *)

\* What a sound buffer holds are its newest pushes.
LEMMA HeldNewest ==
    ASSUME Sound(buffer, pushed, entered)
    PROVE  Held = (Base(buffer, pushed) + 1)..Len(pushed)
<1> DEFINE B == Base(buffer, pushed)
<1>1. ASSUME NEW n \in Held PROVE n \in (B + 1)..Len(pushed)
  <2>1. PICK i \in DOMAIN buffer.tracks : n \in {buffer.tracks[i].frames[j] : j \in DOMAIN buffer.tracks[i].frames}
    BY DEF Held
  <2>2. Queue(buffer, pushed, i, buffer.tracks[i].frames, B)
    BY SoundTrack
  <2> QED
    BY <2>1, <2>2 DEF Queue
<1>2. ASSUME NEW n \in (B + 1)..Len(pushed) PROVE n \in Held
  <2> DEFINE i == buffer.order[n - B]
  <2>1. /\ i \in DOMAIN buffer.tracks
        /\ \E x \in DOMAIN buffer.tracks[i].frames : buffer.tracks[i].frames[x] = n
    BY SoundEntry
  <2> QED
    BY <2>1 DEF Held
<1> QED
  BY <1>1, <1>2

\* What a push leaves on its way, and what is known of it later.
Landings == [frame : Frames, session : Nat, torn : BOOLEAN]
Entries == [frame : Frames, session : Nat, torn : BOOLEAN, max : Nat]
\* The log tells the pushes since the buffer was emptied, and their budgets.
Logged(entries, all, lim) ==
    /\ entries \in Seq(Entries)
    /\ all = [n \in DOMAIN entries |-> entries[n].frame]
    /\ lim = [n \in DOMAIN entries |-> entries[n].max]

\* They are all there are when at every push all until then fit one message.
LEMMA HeldCarries ==
    ASSUME Sound(buffer, pushed, entered), Budgeted(buffer, pushed, limits),
           Logged(log, pushed, limits)
    PROVE  Carries(Held, log)
<1> DEFINE B == Base(buffer, pushed)
           N == Len(log)
<1>1. B \in Nat /\ Len(pushed) \in Nat /\ Len(buffer.order) \in Nat /\ B + Len(buffer.order) = Len(pushed)
  BY SoundNumbers
<1>2. N \in Nat /\ DOMAIN log = 1..N
  BY DEF Logged
<1>3. Len(pushed) = N
  <2>1. pushed \in Seq(Frames)
    BY DEF Sound, BufferType
  <2>2. DOMAIN pushed = 1..Len(pushed) /\ DOMAIN pushed = 1..N
    <3> HIDE DEF N
    <3> QED
      BY <1>2, <2>1 DEF Logged
  <2> HIDE DEF N
  <2>3. Len(pushed) \in 1..Len(pushed) => Len(pushed) \in 1..N
    BY ONLY <2>2
  <2>4. N \in 1..N => N \in 1..Len(pushed)
    BY ONLY <2>2
  <2> QED
    BY ONLY <1>1, <1>2, <2>3, <2>4
<1>4. Held = (B + 1)..N
  BY <1>3, HeldNewest
<1> HIDE DEF B, N
<1>5. B <= N
  BY ONLY <1>1, <1>3
<1>6. Cardinality(Held) = N - B
  <2>1. B + 1 \in Int /\ N \in Int
    BY ONLY <1>1, <1>2
  <2>2. Cardinality((B + 1)..N) = IF B + 1 > N THEN 0 ELSE N - (B + 1) + 1
    BY ONLY <2>1, FS_Interval
  <2> QED
    BY ONLY <1>1, <1>2, <1>4, <1>5, <2>2
<1>7. Held = {n \in DOMAIN log : n > Len(log) - Cardinality(Held)}
  <2>1. N - (N - B) = B
    BY ONLY <1>1, <1>2
  <2>2. \A n : n \in (B + 1)..N <=> n \in 1..N /\ n > B
    BY ONLY <1>1, <1>2
  <2>3. Held = {n \in 1..N : n > N - (N - B)}
    BY ONLY <1>4, <2>1, <2>2
  <2> QED
    BY ONLY <1>2, <1>6, <2>3 DEF N
<1>8. ASSUME \A n \in DOMAIN log : Cost(SubSeq(pushed, 1, n), n) <= log[n].max
      PROVE  Held = DOMAIN log
  <2>1. B = 0
    <3> SUFFICES ASSUME B > 0 PROVE FALSE
      BY <1>1
    <3>1. PICK n \in (B + 1)..Len(pushed) : Cost(SubSeq(pushed, 1, n), n - B + 1) > limits[n]
      BY DEF Budgeted, B
    <3>2. n \in 1..N /\ n - B + 1 \in 0..n /\ n \in Nat
      BY <1>1, <1>3, <3>1
    <3> DEFINE first == SubSeq(pushed, 1, n)
    <3>3. first \in Seq(Frames) /\ Len(first) = n
      <4>1. pushed \in Seq(Frames)
        BY DEF Sound, BufferType
      <4> QED
        BY <1>3, <3>2, <4>1
    <3>4. limits[n] = log[n].max /\ limits[n] \in Nat
      <4>1. log \in Seq(Entries) /\ n \in DOMAIN log
        BY <1>2, <3>2 DEF Logged
      <4>2. log[n] \in Entries
        BY <4>1
      <4>3. log[n].max \in Nat
        BY <4>2 DEF Entries
      <4> QED
        BY <4>1, <4>3 DEF Logged
    <3> HIDE DEF first
    <3>5. /\ Cost(first, n - B + 1) \in Int /\ Cost(first, n) \in Nat
          /\ Cost(first, n - B + 1) <= Cost(first, n)
      BY <3>2, <3>3, NewestCost
    <3>6. Cost(first, n) <= limits[n] /\ Cost(first, n - B + 1) > limits[n]
      BY <1>2, <1>8, <3>1, <3>2, <3>4 DEF first
    <3> QED
      BY ONLY <3>4, <3>5, <3>6
  <2> QED
    BY ONLY <1>2, <1>4, <2>1
<1>9. pushed = [n \in DOMAIN log |-> log[n].frame]
  BY DEF Logged
<1> QED
  BY <1>7, <1>8, <1>9 DEF Carries

----------------------------------------------------------------------------
(* What a host reads of a result.                                          *)

\* No pointer to a result's part is null.
LEMMA PartsPresent ==
    ASSUME NEW r, Null \notin Parts(r)
    PROVE  /\ r # Null
           /\ \A i \in DOMAIN r.files : r.files[i] # Null
           /\ \A i \in DOMAIN r.tracks :
                r.tracks[i] # Null /\ \A j \in DOMAIN r.tracks[i].frames : r.tracks[i].frames[j] # Null
<1>1. ASSUME NEW i \in DOMAIN r.files PROVE r.files[i] # Null
  <2>1. r.files[i] \in Range(r.files)
    BY DEF Range
  <2> QED
    BY <2>1 DEF Parts
<1>2. ASSUME NEW i \in DOMAIN r.tracks PROVE r.tracks[i] # Null
  <2>1. r.tracks[i] \in Range(r.tracks)
    BY DEF Range
  <2> QED
    BY <2>1 DEF Parts
<1>3. ASSUME NEW i \in DOMAIN r.tracks, NEW j \in DOMAIN r.tracks[i].frames
      PROVE  r.tracks[i].frames[j] # Null
  <2>1. r.tracks[i].frames[j] \in Range(r.tracks[i].frames)
    BY DEF Range
  <2> QED
    BY <2>1 DEF Parts
<1> QED
  BY <1>1, <1>2, <1>3 DEF Parts

\* A reply is a message, with sequences of files, tracks and frames.
LEMMA ReplyParts ==
    ASSUME NEW r \in Replies
    PROVE  /\ r.files \in Seq(StepFiles) /\ r.tracks \in Seq(TrackOutputs)
           /\ \A i \in DOMAIN r.tracks : r.tracks[i].frames \in Seq(FrameOutputs)
           /\ Null \notin Parts(r) /\ Null \notin Parts(ReactorStepResult(r))
<1>1. r \in Messages
  BY RepliesAssumption
<1>2. r.files \in Seq(StepFiles) /\ r.tracks \in Seq(TrackOutputs)
  BY <1>1 DEF Messages
<1>3. ASSUME NEW i \in DOMAIN r.tracks PROVE r.tracks[i].frames \in Seq(FrameOutputs)
  <2>1. r.tracks[i] \in TrackOutputs
    BY <1>2
  <2> QED
    BY <2>1 DEF TrackOutputs
<1> QED
  BY <1>2, <1>3, NullAssumption

\* A native host reads a file that is there as it is.
LEMMA FileRead ==
    ASSUME NEW r, r # Null, NEW i \in Nat, i \in DOMAIN r.files, r.files[i] # Null
    PROVE  /\ reactor_step_result_file_name(r, i - 1) = r.files[i].name
           /\ reactor_step_result_file_content_type(r, i - 1) = r.files[i].content_type
           /\ reactor_step_result_file_size(r, i - 1) = r.files[i].size
<1>1. (i - 1) + 1 = i
  OBVIOUS
<1>2. file(r, i - 1) = r.files[i]
  BY <1>1 DEF file, At
<1> QED
  BY <1>2 DEF reactor_step_result_file_name, reactor_step_result_file_content_type,
              reactor_step_result_file_size, Field

\* So does one of a track...
LEMMA TrackRead ==
    ASSUME NEW r, r # Null, NEW i \in Nat, i \in DOMAIN r.tracks, r.tracks[i] # Null
    PROVE  /\ track(r, i - 1) = r.tracks[i]
           /\ reactor_step_result_track_name(r, i - 1) = r.tracks[i].name
           /\ reactor_step_result_track_kind(r, i - 1) = r.tracks[i].kind
           /\ reactor_step_result_track_rate(r, i - 1) = r.tracks[i].rate
           /\ reactor_step_result_frame_count(r, i - 1) = Len(r.tracks[i].frames)
<1>1. (i - 1) + 1 = i
  OBVIOUS
<1>2. track(r, i - 1) = r.tracks[i]
  BY <1>1 DEF track, At
<1> QED
  BY <1>2 DEF reactor_step_result_track_name, reactor_step_result_track_kind,
              reactor_step_result_track_rate, reactor_step_result_frame_count, Field

\* ... and one of a track's frame.
LEMMA FrameRead ==
    ASSUME NEW r, r # Null, NEW i \in Nat, i \in DOMAIN r.tracks, r.tracks[i] # Null,
           NEW j \in Nat, j \in DOMAIN r.tracks[i].frames, r.tracks[i].frames[j] # Null
    PROVE  /\ reactor_step_result_frame_encoding(r, i - 1, j - 1) = r.tracks[i].frames[j].encoding
           /\ reactor_step_result_frame_dtype(r, i - 1, j - 1) = r.tracks[i].frames[j].dtype
           /\ reactor_step_result_frame_shape(r, i - 1, j - 1) = r.tracks[i].frames[j].shape
           /\ reactor_step_result_frame_data(r, i - 1, j - 1) = r.tracks[i].frames[j].data
           /\ reactor_step_result_frame_metadata(r, i - 1, j - 1) = r.tracks[i].frames[j].metadata
           /\ reactor_step_result_frame_capture_time_us(r, i - 1, j - 1) = r.tracks[i].frames[j].time
<1>1. (j - 1) + 1 = j
  OBVIOUS
<1>2. track(r, i - 1) = r.tracks[i]
  BY TrackRead
<1>3. frame(r, i - 1, j - 1) = r.tracks[i].frames[j]
  BY <1>1, <1>2 DEF frame, At
<1> QED
  BY <1>3 DEF reactor_step_result_frame_encoding, reactor_step_result_frame_dtype,
              reactor_step_result_frame_shape, reactor_step_result_frame_data,
              reactor_step_result_frame_metadata, reactor_step_result_frame_capture_time_us, Field

\* What the boundary makes of a file and of a track.
OwnFile(own, f) ==
    /\ own.name = CString(f.name) /\ own.content_type = CString(f.content_type)
    /\ own.size = f.size
OwnTrack(own, t) ==
    /\ own.name = CString(t.name) /\ own.kind = t.kind /\ own.rate = t.rate
    /\ own.frames = t.frames

\* What the boundary hands a native host of a reply.
LEMMA HandedOver ==
    ASSUME NEW r \in Replies
    PROVE  LET own == ReactorStepResult(r) IN
           /\ own.step = r.step /\ own.elapsed = r.elapsed
           /\ own.error = IF r.error = Null THEN Null ELSE CString(r.error)
           /\ DOMAIN own.files = DOMAIN r.files /\ DOMAIN own.tracks = DOMAIN r.tracks
           /\ Len(own.files) = Len(r.files) /\ Len(own.tracks) = Len(r.tracks)
           /\ \A i \in DOMAIN r.files : OwnFile(own.files[i], r.files[i])
           /\ \A i \in DOMAIN r.tracks : OwnTrack(own.tracks[i], r.tracks[i])
<1> DEFINE own == ReactorStepResult(r)
<1>1. /\ own.step = r.step /\ own.elapsed = r.elapsed
      /\ own.error = IF r.error = Null THEN Null ELSE CString(r.error)
      /\ own.files = [i \in DOMAIN r.files |-> StepFileEntry(r.files[i])]
      /\ own.tracks = [i \in DOMAIN r.tracks |-> StepTrack(r.tracks[i])]
  BY DEF ReactorStepResult, Optional
<1> HIDE DEF own
<1>2. r.files \in Seq(StepFiles) /\ r.tracks \in Seq(TrackOutputs)
  BY ReplyParts
<1>3. /\ DOMAIN r.files = 1..Len(r.files) /\ Len(r.files) \in Nat
      /\ DOMAIN r.tracks = 1..Len(r.tracks) /\ Len(r.tracks) \in Nat
  BY <1>2
<1>4. Len(own.files) = Len(r.files) /\ Len(own.tracks) = Len(r.tracks)
  BY <1>1, <1>3
<1>5. \A i \in DOMAIN r.files : OwnFile(own.files[i], r.files[i])
  BY <1>1 DEF StepFileEntry, OwnFile
<1>6. \A i \in DOMAIN r.tracks : OwnTrack(own.tracks[i], r.tracks[i])
  BY <1>1 DEF StepTrack, OwnTrack
<1> QED
  BY <1>1, <1>4, <1>5, <1>6 DEF own

\* A native host reads a result whole.
LEMMA NativeWhole ==
    ASSUME NEW r \in Replies, Native
    PROVE  ReadWhole(ReadNatively(ReactorStepResult(r)), r)
<1> DEFINE own == ReactorStepResult(r)
           got == ReadNatively(own)
<1>1. /\ own.step = r.step /\ own.elapsed = r.elapsed
      /\ own.error = IF r.error = Null THEN Null ELSE CString(r.error)
      /\ DOMAIN own.files = DOMAIN r.files /\ DOMAIN own.tracks = DOMAIN r.tracks
      /\ Len(own.files) = Len(r.files) /\ Len(own.tracks) = Len(r.tracks)
      /\ \A i \in DOMAIN r.files : OwnFile(own.files[i], r.files[i])
      /\ \A i \in DOMAIN r.tracks : OwnTrack(own.tracks[i], r.tracks[i])
  BY HandedOver
<1>2. /\ own # Null
      /\ \A i \in DOMAIN own.files : own.files[i] # Null
      /\ \A i \in DOMAIN own.tracks :
           own.tracks[i] # Null /\ \A j \in DOMAIN own.tracks[i].frames : own.tracks[i].frames[j] # Null
  BY ReplyParts, PartsPresent
<1> HIDE DEF own
<1>3. got.step = own.step /\ got.elapsed = own.elapsed /\ got.error = own.error
  BY <1>2 DEF ReadNatively, reactor_step_result_step, reactor_step_result_elapsed,
              reactor_step_result_error, Field
<1>4. r.files \in Seq(StepFiles) /\ r.tracks \in Seq(TrackOutputs)
  BY ReplyParts
<1>5. /\ DOMAIN r.files = 1..Len(r.files) /\ Len(r.files) \in Nat
      /\ DOMAIN r.tracks = 1..Len(r.tracks) /\ Len(r.tracks) \in Nat
  BY <1>4
<1>6. /\ reactor_step_result_file_count(own) = Len(r.files)
      /\ reactor_step_result_track_count(own) = Len(r.tracks)
  BY <1>1, <1>2 DEF reactor_step_result_file_count, reactor_step_result_track_count, Field
<1> DEFINE fileAt(i) == [name |-> reactor_step_result_file_name(own, i - 1),
                         content_type |-> reactor_step_result_file_content_type(own, i - 1),
                         size |-> reactor_step_result_file_size(own, i - 1)]
           frameAt(i, j) == [encoding |-> reactor_step_result_frame_encoding(own, i - 1, j - 1),
                             dtype |-> reactor_step_result_frame_dtype(own, i - 1, j - 1),
                             shape |-> reactor_step_result_frame_shape(own, i - 1, j - 1),
                             data |-> reactor_step_result_frame_data(own, i - 1, j - 1),
                             metadata |-> reactor_step_result_frame_metadata(own, i - 1, j - 1),
                             time |-> reactor_step_result_frame_capture_time_us(own, i - 1, j - 1)]
           trackAt(i) == [name |-> reactor_step_result_track_name(own, i - 1),
                          kind |-> reactor_step_result_track_kind(own, i - 1),
                          rate |-> reactor_step_result_track_rate(own, i - 1),
                          frames |-> [j \in 1..reactor_step_result_frame_count(own, i - 1) |-> frameAt(i, j)]]
<1>7. /\ got.files = [i \in 1..Len(r.files) |-> fileAt(i)]
      /\ got.tracks = [i \in 1..Len(r.tracks) |-> trackAt(i)]
  BY <1>6 DEF ReadNatively
<1> HIDE DEF got
<1>8. Len(got.files) = Len(r.files) /\ Len(got.tracks) = Len(r.tracks)
  <2> HIDE DEF fileAt, trackAt
  <2> QED
    BY <1>5, <1>7
<1>9. ASSUME NEW i \in DOMAIN r.files PROVE SameFile(got.files[i], r.files[i])
  <2>1. i \in Nat /\ i \in DOMAIN own.files /\ got.files[i] = fileAt(i)
    BY <1>1, <1>5, <1>7
  <2>2. /\ reactor_step_result_file_name(own, i - 1) = own.files[i].name
        /\ reactor_step_result_file_content_type(own, i - 1) = own.files[i].content_type
        /\ reactor_step_result_file_size(own, i - 1) = own.files[i].size
    BY <1>2, <2>1, FileRead
  <2>3. /\ got.files[i].name = CString(r.files[i].name) /\ got.files[i].size = r.files[i].size
        /\ got.files[i].content_type = CString(r.files[i].content_type)
    BY <1>1, <2>1, <2>2 DEF OwnFile
  <2> QED
    BY <2>3 DEF SameFile, SameText, SameNumber
<1>10. ASSUME NEW i \in DOMAIN r.tracks PROVE SameTrack(got.tracks[i], r.tracks[i])
  <2> DEFINE fs == r.tracks[i].frames
  <2>1. /\ i \in Nat /\ i \in DOMAIN own.tracks /\ got.tracks[i] = trackAt(i)
        /\ OwnTrack(own.tracks[i], r.tracks[i])
    <3> HIDE DEF trackAt
    <3> QED
      BY <1>1, <1>5, <1>7
  <2>2. /\ reactor_step_result_track_name(own, i - 1) = CString(r.tracks[i].name)
        /\ reactor_step_result_track_kind(own, i - 1) = r.tracks[i].kind
        /\ reactor_step_result_track_rate(own, i - 1) = r.tracks[i].rate
        /\ reactor_step_result_frame_count(own, i - 1) = Len(fs)
    <3> HIDE DEF trackAt
    <3>1. /\ reactor_step_result_track_name(own, i - 1) = own.tracks[i].name
          /\ reactor_step_result_track_kind(own, i - 1) = own.tracks[i].kind
          /\ reactor_step_result_track_rate(own, i - 1) = own.tracks[i].rate
          /\ reactor_step_result_frame_count(own, i - 1) = Len(own.tracks[i].frames)
      BY <1>2, <2>1, TrackRead
    <3> QED
      BY <2>1, <3>1 DEF OwnTrack
  <2>3. /\ got.tracks[i].name = CString(r.tracks[i].name)
        /\ got.tracks[i].kind = r.tracks[i].kind /\ got.tracks[i].rate = r.tracks[i].rate
        /\ got.tracks[i].frames = [j \in 1..Len(fs) |-> frameAt(i, j)]
    BY <2>1, <2>2
  <2>4. fs \in Seq(FrameOutputs)
    BY ReplyParts
  <2>5. DOMAIN fs = 1..Len(fs) /\ Len(fs) \in Nat
    <3> HIDE DEF fs
    <3> QED
      BY <2>4
  <2>6. Len(got.tracks[i].frames) = Len(fs)
    <3> HIDE DEF frameAt, fs
    <3> QED
      BY <2>3, <2>5
  <2>7. ASSUME NEW j \in DOMAIN fs PROVE SameFrame(got.tracks[i].frames[j], fs[j])
    <3>1. got.tracks[i].frames[j] = frameAt(i, j) /\ j \in Nat
      <4> HIDE DEF frameAt, fs
      <4> QED
        BY <2>3, <2>5
    <3>2. j \in DOMAIN own.tracks[i].frames /\ own.tracks[i].frames[j] = fs[j]
      BY <2>1 DEF OwnTrack
    <3>3. /\ reactor_step_result_frame_encoding(own, i - 1, j - 1) = own.tracks[i].frames[j].encoding
          /\ reactor_step_result_frame_dtype(own, i - 1, j - 1) = own.tracks[i].frames[j].dtype
          /\ reactor_step_result_frame_shape(own, i - 1, j - 1) = own.tracks[i].frames[j].shape
          /\ reactor_step_result_frame_data(own, i - 1, j - 1) = own.tracks[i].frames[j].data
          /\ reactor_step_result_frame_metadata(own, i - 1, j - 1) = own.tracks[i].frames[j].metadata
          /\ reactor_step_result_frame_capture_time_us(own, i - 1, j - 1) = own.tracks[i].frames[j].time
      BY <1>2, <2>1, <3>1, <3>2, FrameRead
    <3> HIDE DEF fs
    <3>4. /\ frameAt(i, j).encoding = fs[j].encoding /\ frameAt(i, j).dtype = fs[j].dtype
          /\ frameAt(i, j).shape = fs[j].shape /\ frameAt(i, j).data = fs[j].data
          /\ frameAt(i, j).metadata = fs[j].metadata /\ frameAt(i, j).time = fs[j].time
      BY <3>2, <3>3
    <3> HIDE DEF frameAt
    <3> QED
      BY <3>1, <3>4, Zenon DEF SameFrame, SameNumber
  <2> HIDE DEF frameAt
  <2> QED
    BY <2>3, <2>6, <2>7 DEF SameTrack, SameText
<1>11. ReadWhole(got, r)
  <2> HIDE DEF fileAt, frameAt, trackAt
  <2> QED
    BY <1>1, <1>3, <1>8, <1>9, <1>10 DEF ReadWhole, SameText, SameNumber
<1> QED
  BY <1>11 DEF got, own

\* A decoded result's frames all decode.
LEMMA FramesDecode ==
    ASSUME NEW r \in Replies, DecodeResult(r) = "OK"
    PROVE  \A i \in DOMAIN r.tracks : \A j \in DOMAIN r.tracks[i].frames : RawSized(r.tracks[i].frames[j])
<1>1. \A i \in DOMAIN r.tracks : TrackFailure(r.tracks[i]) = "OK"
  <2> DEFINE bad == {i \in DOMAIN r.tracks : TrackFailure(r.tracks[i]) # "OK"}
  <2> SUFFICES ASSUME bad # {} PROVE FALSE
    OBVIOUS
  <2>1. r.tracks \in Seq(TrackOutputs)
    BY ReplyParts
  <2>2. bad \in SUBSET Nat
    <3>1. DOMAIN r.tracks \in SUBSET Nat
      BY <2>1
    <3>2. bad \subseteq DOMAIN r.tracks
      OBVIOUS
    <3> HIDE DEF bad
    <3> QED
      BY <3>1, <3>2
  <2>3. Min(bad) \in bad
    <3> HIDE DEF bad
    <3> QED
      BY <2>2, MinIsLeast
  <2>4. TrackFailure(r.tracks[Min(bad)]) # "OK"
    BY <2>3
  <2> QED
    BY <2>4 DEF DecodeResult
<1>2. ASSUME NEW i \in DOMAIN r.tracks, NEW j \in DOMAIN r.tracks[i].frames
      PROVE  DecodeFrame(r.tracks[i].frames[j]) = "OK"
  <2> DEFINE t == r.tracks[i]
             bad == {k \in DOMAIN t.frames : DecodeFrame(t.frames[k]) # "OK"}
  <2> SUFFICES ASSUME bad # {} PROVE FALSE
    OBVIOUS
  <2>1. t.frames \in Seq(FrameOutputs)
    BY ReplyParts
  <2>2. bad \in SUBSET Nat
    <3>1. DOMAIN t.frames \in SUBSET Nat
      BY <2>1
    <3>2. bad \subseteq DOMAIN t.frames
      OBVIOUS
    <3> HIDE DEF bad
    <3> QED
      BY <3>1, <3>2
  <2>3. Min(bad) \in bad
    <3> HIDE DEF bad
    <3> QED
      BY <2>2, MinIsLeast
  <2>4. DecodeFrame(t.frames[Min(bad)]) # "OK"
    BY <2>3
  <2>5. TrackFailure(t) = "OK"
    BY <1>1
  <2> QED
    BY <2>4, <2>5 DEF TrackFailure
<1> QED
  BY <1>2 DEF DecodeFrame

\* The recursion of RawSized, as an equation.
BytesEquation(h, f) ==
    h = [n \in 0..Len(f.shape) |-> IF n = 0 THEN DtypeSize(f.dtype) ELSE h[n - 1] * f.shape[n]]

\* A frame of a known dtype has whole elements.
LEMMA WholeElements ==
    ASSUME NEW f \in FrameOutputs, RawSized(f), DtypeSize(f.dtype) # 0
    PROVE  \E c \in Nat : Len(f.data) = DtypeSize(f.dtype) * c
<1> DEFINE N == Len(f.shape)
           D == DtypeSize(f.dtype)
           turn == [x \in (1..N) \X Nat |-> x[2] * f.shape[x[1]]]
<1>1. f.shape \in Seq(Nat) /\ f.data \in Seq(Nat)
  BY DEF FrameOutputs
<1>2. N \in Nat /\ \A n \in 1..N : f.shape[n] \in Nat
  BY <1>1
<1>3. D \in {1, 2, 4, 8}
  BY DEF DtypeSize
<1> HIDE DEF N, D
<1>4. turn \in [(1..N) \X Nat -> Nat]
  <2>1. \A x, y \in Nat : x * y \in Nat
    OBVIOUS
  <2> QED
    BY <1>2, <2>1
<1>5. \E h : BytesEquation(h, f)
  <2>1. D \in Nat
    BY <1>3
  <2>2. Solvable(Nat, N, D, turn)
    <3> HIDE DEF turn
    <3> QED
      BY <1>2, <1>4, <2>1, Recursion
  <2>3. PICK h \in [0..N -> Nat] : h[0] = D /\ \A n \in 1..N : h[n] = turn[<<n, h[n - 1]>>]
    BY <2>2 DEF Solvable
  <2>4. \A n \in 1..N : h[n] = h[n - 1] * f.shape[n]
    <3> TAKE n \in 1..N
    <3>1. n - 1 \in 0..N /\ h[n - 1] \in Nat
      BY <1>2, <2>3
    <3> QED
      BY <2>3, <3>1
  <2>5. h = [n \in 0..N |-> IF n = 0 THEN D ELSE h[n - 1] * f.shape[n]]
    <3>1. \A n \in 0..N : h[n] = IF n = 0 THEN D ELSE h[n - 1] * f.shape[n]
      BY <1>2, <2>3, <2>4
    <3> HIDE DEF turn
    <3> QED
      BY <2>3, <3>1
  <2> QED
    BY <2>5 DEF BytesEquation, N, D
<1> DEFINE g == CHOOSE h : BytesEquation(h, f)
<1>6. BytesEquation(g, f)
  BY <1>5
<1>7. Len(f.data) = g[N]
  <2>1. Len(f.data) = (CHOOSE h : h = [n \in 0..Len(f.shape) |->
                          IF n = 0 THEN DtypeSize(f.dtype) ELSE h[n - 1] * f.shape[n]])[Len(f.shape)]
    BY Zenon DEF RawSized
  <2> QED
    BY Zenon, <2>1 DEF BytesEquation, N
<1> HIDE DEF g
<1>8. g[0] = D /\ \A n \in 1..N : g[n] = g[n - 1] * f.shape[n]
  <2>1. g = [n \in 0..N |-> IF n = 0 THEN D ELSE g[n - 1] * f.shape[n]]
    BY <1>6 DEF BytesEquation, N, D
  <2>2. \A n \in 0..N : g[n] = IF n = 0 THEN D ELSE g[n - 1] * f.shape[n]
    BY <2>1
  <2> QED
    BY <1>2, <2>2
<1> DEFINE T == {n \in Nat : n <= N => \E c \in Nat : g[n] = D * c}
<1>9. 0 \in T
  BY <1>3, <1>8
<1>10. ASSUME NEW n \in T PROVE n + 1 \in T
  <2> SUFFICES ASSUME n + 1 <= N PROVE \E c \in Nat : g[n + 1] = D * c
    OBVIOUS
  <2>1. PICK c \in Nat : g[n] = D * c
    BY <1>2
  <2>2. n + 1 \in 1..N /\ (n + 1) - 1 = n
    BY <1>2
  <2>3. g[n + 1] = (D * c) * f.shape[n + 1] /\ f.shape[n + 1] \in Nat
    BY <1>2, <1>8, <2>1, <2>2
  <2>4. \A x, y, z \in Nat : (x * y) * z = x * (y * z) /\ y * z \in Nat
    OBVIOUS
  <2>5. g[n + 1] = D * (c * f.shape[n + 1]) /\ c * f.shape[n + 1] \in Nat
    BY <1>3, <2>3, <2>4
  <2> QED
    BY <2>5
<1>11. T = Nat
  <2> HIDE DEF T
  <2> QED
    BY <1>9, <1>10, Induction DEF T
<1>12. \E c \in Nat : g[N] = D * c
  <2>1. N \in T
    BY <1>2, <1>11
  <2> QED
    BY <1>2, <2>1
<1> QED
  BY <1>7, <1>12 DEF D

\* A part of a sequence.
LEMMA Part ==
    ASSUME NEW data \in Seq(Nat), NEW x \in Nat, NEW y \in Nat, x <= y, y <= Len(data)
    PROVE  /\ SubSeq(data, x + 1, y) \in Seq(Nat) /\ Len(SubSeq(data, x + 1, y)) = y - x
           /\ \A i \in 1..(y - x) : SubSeq(data, x + 1, y)[i] = data[i + x]
  OBVIOUS

\* Two neighbouring parts of a sequence are one part.
LEMMA Neighbours ==
    ASSUME NEW data \in Seq(Nat), NEW x \in Nat, NEW y \in Nat, x <= y, y <= Len(data)
    PROVE  SubSeq(data, 1, x) \o SubSeq(data, x + 1, y) = SubSeq(data, 1, y)
<1> DEFINE p == SubSeq(data, 1, x)
           q == SubSeq(data, x + 1, y)
           w == SubSeq(data, 1, y)
<1>1. p \in Seq(Nat) /\ Len(p) = x /\ \A i \in 1..x : p[i] = data[i]
  <2>1. 0 + 1 = 1 /\ x - 0 = x /\ 0 <= x /\ x <= Len(data) /\ \A i \in 1..x : i + 0 = i
    OBVIOUS
  <2> QED
    BY <2>1, Part
<1>2. q \in Seq(Nat) /\ Len(q) = y - x /\ \A i \in 1..(y - x) : q[i] = data[i + x]
  BY Part
<1>3. w \in Seq(Nat) /\ Len(w) = y /\ \A i \in 1..y : w[i] = data[i]
  <2>1. 0 + 1 = 1 /\ y - 0 = y /\ 0 <= y /\ \A i \in 1..y : i + 0 = i
    OBVIOUS
  <2> QED
    BY <2>1, Part
<1> HIDE DEF p, q, w
<1>4. p \o q \in Seq(Nat) /\ Len(p \o q) = y
  <2>1. p \o q \in Seq(Nat) /\ Len(p \o q) = Len(p) + Len(q)
    BY <1>1, <1>2, ConcatProperties
  <2>2. x + (y - x) = y
    OBVIOUS
  <2> QED
    BY <1>1, <1>2, <2>1, <2>2
<1>5. ASSUME NEW i \in 1..y PROVE (p \o q)[i] = w[i]
  <2>1. CASE i <= x
    <3>1. i \in 1..Len(p) /\ p[i] = data[i]
      BY <1>1, <2>1
    <3>2. (p \o q)[i] = p[i]
      BY <1>1, <1>2, <3>1, ConcatProperties
    <3> QED
      BY <1>3, <3>1, <3>2
  <2>2. CASE i > x
    <3>1. i - x \in 1..(y - x) /\ (i - x) + x = i
      BY <2>2
    <3>2. (p \o q)[i] = q[i - x]
      <4>1. i \in 1..(Len(p) + Len(q)) /\ ~(i <= Len(p)) /\ i - Len(p) = i - x
        BY <1>1, <1>2, <2>2
      <4>2. \A k \in 1..(Len(p) + Len(q)) :
              (p \o q)[k] = IF k <= Len(p) THEN p[k] ELSE q[k - Len(p)]
        <5>1. p \in Seq(Nat) /\ q \in Seq(Nat)
          BY <1>1, <1>2
        <5> QED
          BY ONLY <5>1, ConcatProperties
      <4>3. (p \o q)[i] = q[i - Len(p)]
        BY ONLY <4>1, <4>2
      <4> QED
        BY ONLY <4>1, <4>3
    <3> QED
      BY <1>2, <1>3, <3>1, <3>2
  <2>3. i <= x \/ i > x
    OBVIOUS
  <2> QED
    BY <2>1, <2>2, <2>3
<1>6. \A i \in 1..y : (p \o q)[i] = w[i]
  BY <1>5
<1>7. p \o q = w
  <2> DEFINE v == p \o q
  <2>1. v \in Seq(Nat) /\ Len(v) = Len(w) /\ \A i \in 1..Len(v) : v[i] = w[i]
    BY <1>3, <1>4, <1>6
  <2> HIDE DEF v
  <2>2. v = w
    BY <1>3, <2>1
  <2> QED
    BY <2>2 DEF v
<1> QED
  BY <1>7 DEF p, q, w

\* How many elements of n bytes n * c bytes are.
LEMMA Quotient ==
    ASSUME NEW len \in Nat, NEW n \in Nat \ {0}, NEW c \in Nat, len = n * c PROVE len \div n = c
  OBVIOUS

\* The recursion of FlattenSeq, as an equation.
FlattenEquation(h, seqs) ==
    h = [i \in 1..Len(seqs) |-> IF i = 1 THEN seqs[i] ELSE h[i - 1] \o seqs[i]]

\* Bytes grouped in equal elements are the same bytes in a row.
LEMMA Flattened ==
    ASSUME NEW data \in Seq(Nat), NEW n \in Nat \ {0}, NEW c \in Nat, Len(data) = n * c
    PROVE  FlattenSeq([k \in 1..c |-> SubSeq(data, n * (k - 1) + 1, n * k)]) = data
<1> DEFINE seqs == [k \in 1..c |-> SubSeq(data, n * (k - 1) + 1, n * k)]
           g == [k \in 1..c |-> SubSeq(data, 1, n * k)]
<1>1. Len(seqs) = c /\ DOMAIN seqs = 1..c
  OBVIOUS
<1>2. CASE c = 0
  <2>1. Len(data) = 0 /\ seqs = <<>>
    BY <1>2
  <2>2. data = <<>>
    BY <2>1
  <2>3. FlattenSeq(<<>>) = <<>>
    BY DEF FlattenSeq
  <2> QED
    BY <2>1, <2>2, <2>3
<1>3. CASE c # 0
  <2>1. \A k \in 1..c : /\ n * k \in Nat /\ n * (k - 1) \in Nat /\ n * (k - 1) <= n * k
                        /\ n * k <= Len(data)
    <3>1. \A x, y, z \in Nat : x * y \in Nat /\ (y <= z => x * y <= x * z)
      OBVIOUS
    <3>2. \A k \in 1..c : k \in Nat /\ k - 1 \in Nat /\ k - 1 <= k /\ k <= c
      OBVIOUS
    <3> QED
      BY <3>1, <3>2
  <2>2. \A k \in 2..c : g[k - 1] \o seqs[k] = g[k]
    <3> TAKE k \in 2..c
    <3>1. k \in 1..c /\ k - 1 \in 1..c
      OBVIOUS
    <3> DEFINE x == n * (k - 1)
               y == n * k
    <3>2. g[k - 1] = SubSeq(data, 1, x) /\ seqs[k] = SubSeq(data, x + 1, y) /\ g[k] = SubSeq(data, 1, y)
      BY <3>1
    <3>3. x \in Nat /\ y \in Nat /\ x <= y /\ y <= Len(data)
      BY <2>1, <3>1
    <3> HIDE DEF x, y, g, seqs
    <3> QED
      BY <3>2, <3>3, Neighbours
  <2>3. g[1] = seqs[1]
    <3>1. n * (1 - 1) + 1 = 1 /\ n * 1 = n /\ 1 \in 1..c
      BY <1>3
    <3> QED
      BY <3>1
  <2> HIDE DEF seqs, g
  <2>4. FlattenEquation(g, seqs)
    <3>1. \A k \in 1..c : g[k] = IF k = 1 THEN seqs[k] ELSE g[k - 1] \o seqs[k]
      <4> TAKE k \in 1..c
      <4>1. k = 1 \/ k \in 2..c
        OBVIOUS
      <4> QED
        BY <2>2, <2>3, <4>1
    <3>2. g = [k \in 1..c |-> g[k]]
      BY DEF g
    <3>3. g = [k \in 1..c |-> IF k = 1 THEN seqs[k] ELSE g[k - 1] \o seqs[k]]
      BY <3>1, <3>2
    <3> QED
      BY <1>1, <3>3 DEF FlattenEquation
  <2> DEFINE h == CHOOSE f : FlattenEquation(f, seqs)
  <2>5. FlattenEquation(h, seqs)
    BY <2>4
  <2>6. FlattenSeq(seqs) = h[Len(seqs)]
    <3>1. Len(seqs) # 0
      BY <1>1, <1>3
    <3> QED
      BY Zenon, <3>1 DEF FlattenSeq, FlattenEquation
  <2> HIDE DEF h
  <2>7. \A k \in 1..c : h[k] = IF k = 1 THEN seqs[k] ELSE h[k - 1] \o seqs[k]
    BY <1>1, <2>5 DEF FlattenEquation
  <2> DEFINE T == {k \in Nat : k + 1 \in 1..c => h[k + 1] = g[k + 1]}
  <2>8. 0 \in T
    <3>1. 0 + 1 = 1
      OBVIOUS
    <3> QED
      BY <2>3, <2>7, <3>1
  <2>9. ASSUME NEW k \in T PROVE k + 1 \in T
    <3> SUFFICES ASSUME (k + 1) + 1 \in 1..c PROVE h[(k + 1) + 1] = g[(k + 1) + 1]
      OBVIOUS
    <3>1. /\ k + 1 \in 1..c /\ (k + 1) + 1 \in 2..c /\ ((k + 1) + 1) - 1 = k + 1
          /\ (k + 1) + 1 # 1
      OBVIOUS
    <3>2. h[k + 1] = g[k + 1]
      BY <3>1
    <3>3. h[(k + 1) + 1] = h[k + 1] \o seqs[(k + 1) + 1]
      BY <2>7, <3>1
    <3>4. g[k + 1] \o seqs[(k + 1) + 1] = g[(k + 1) + 1]
      BY <2>2, <3>1
    <3> QED
      BY <3>2, <3>3, <3>4
  <2>10. T = Nat
    <3> HIDE DEF T
    <3> QED
      BY <2>8, <2>9, Induction DEF T
  <2>11. h[c] = g[c]
    <3>1. c - 1 \in Nat /\ (c - 1) + 1 = c /\ c \in 1..c
      BY <1>3
    <3>2. c - 1 \in T
      BY <2>10, <3>1
    <3> QED
      BY <3>1, <3>2
  <2>12. g[c] = data
    <3>1. g[c] = SubSeq(data, 1, Len(data))
      BY <1>3 DEF g
    <3> QED
      BY <3>1
  <2> QED
    BY <1>1, <2>6, <2>11, <2>12 DEF seqs
<1> QED
  BY <1>2, <1>3

\* What the browser makes of a frame's bytes holds all of them.
LEMMA TypedWhole ==
    ASSUME NEW f \in FrameOutputs, RawSized(f)
    PROVE  FlattenSeq(TypedArray(f.dtype, f.data)) = f.data
<1> DEFINE n == ElementSize(f.dtype)
<1>1. f.data \in Seq(Nat) /\ Len(f.data) \in Nat
  <2>1. f.data \in Seq(Nat)
    BY DEF FrameOutputs
  <2> QED
    BY <2>1
<1>2. n \in {1, 2, 4, 8} /\ (n = 1 \/ n = DtypeSize(f.dtype))
  BY DEF ElementSize, DtypeSize
<1>3. \E c \in Nat : Len(f.data) = n * c
  <2>1. CASE n = 1
    BY <1>1, <2>1
  <2>2. CASE n = DtypeSize(f.dtype)
    BY <1>2, <2>2, WholeElements
  <2> QED
    BY <1>2, <2>1, <2>2
<1>4. PICK c \in Nat : Len(f.data) = n * c
  BY <1>3
<1> HIDE DEF n
<1>5. n \in Nat \ {0}
  BY <1>2
<1>6. Len(f.data) \div n = c
  BY <1>1, <1>4, <1>5, Quotient
<1>7. TypedArray(f.dtype, f.data) = [k \in 1..c |-> SubSeq(f.data, n * (k - 1) + 1, n * k)]
  BY <1>6, Zenon DEF TypedArray, n
<1>8. FlattenSeq([k \in 1..c |-> SubSeq(f.data, n * (k - 1) + 1, n * k)]) = f.data
  BY <1>1, <1>4, <1>5, Flattened
<1> QED
  BY <1>7, <1>8

\* A double holds an integer up to Exact.
LEMMA NumberHeld ==
    ASSUME NEW n
    PROVE  ~Native => SameNumber(AsF64(n), n)
BY DEF SameNumber, AsF64

\* A browser reads a frame that decodes whole...
LEMMA FrameWhole ==
    ASSUME NEW f \in FrameOutputs, ~Native, RawSized(f)
    PROVE  SameFrame(FrameToJs(f), f)
<1> DEFINE data == TypedArray(f.dtype, f.data)
           time == IF f.time = Null THEN Null ELSE AsF64(f.time)
<1>1. FlattenSeq(data) = f.data
  BY TypedWhole
<1>2. f = [encoding |-> f.encoding, dtype |-> f.dtype, shape |-> f.shape, data |-> f.data,
           metadata |-> f.metadata, time |-> f.time]
  BY DEF FrameOutputs
<1>3. FrameToJs(f) = [f EXCEPT !.data = data, !.time = time]
  BY DEF FrameToJs, Optional
<1>4. IF f.time = Null THEN time = Null ELSE SameNumber(time, f.time)
  BY NumberHeld
<1> HIDE DEF data, time
<1>5. FrameToJs(f) = [encoding |-> f.encoding, dtype |-> f.dtype, shape |-> f.shape, data |-> data,
                      metadata |-> f.metadata, time |-> time]
  BY <1>2, <1>3
<1>6. /\ FrameToJs(f).encoding = f.encoding /\ FrameToJs(f).dtype = f.dtype
      /\ FrameToJs(f).shape = f.shape /\ FrameToJs(f).data = data
      /\ FrameToJs(f).metadata = f.metadata /\ FrameToJs(f).time = time
  BY <1>5
<1> QED
  BY <1>1, <1>4, <1>6, Zenon DEF SameFrame

\* ... and a file.
LEMMA FileWhole ==
    ASSUME NEW f \in StepFiles, ~Native
    PROVE  SameFile(FileToJs(f), f)
<1> DEFINE size == AsF64(f.size)
<1>1. f = [name |-> f.name, content_type |-> f.content_type, size |-> f.size]
  BY DEF StepFiles
<1>2. FileToJs(f) = [f EXCEPT !.size = size]
  BY DEF FileToJs
<1>3. SameNumber(size, f.size)
  BY NumberHeld
<1> HIDE DEF size
<1>4. FileToJs(f) = [name |-> f.name, content_type |-> f.content_type, size |-> size]
  BY <1>1, <1>2
<1> QED
  BY <1>3, <1>4 DEF SameFile, SameText

\* A browser reads a decoded result whole.
LEMMA BrowserWhole ==
    ASSUME NEW r \in Replies, ~Native, DecodeResult(r) = "OK"
    PROVE  ReadWhole(OutputToJs(r), r)
<1> DEFINE got == OutputToJs(r)
<1>1. /\ got.step = AsF64(r.step) /\ got.elapsed = r.elapsed /\ got.error = r.error
      /\ got.files = [i \in DOMAIN r.files |-> FileToJs(r.files[i])]
      /\ got.tracks = [i \in DOMAIN r.tracks |-> TrackToJs(r.tracks[i])]
  BY DEF OutputToJs
<1> HIDE DEF got
<1>2. r.tracks \in Seq(TrackOutputs) /\ r.files \in Seq(StepFiles)
  BY ReplyParts
<1>3. /\ DOMAIN r.tracks = 1..Len(r.tracks) /\ Len(r.tracks) \in Nat
      /\ DOMAIN r.files = 1..Len(r.files) /\ Len(r.files) \in Nat
  BY <1>2
<1>4. Len(got.tracks) = Len(r.tracks) /\ Len(got.files) = Len(r.files)
  BY <1>1, <1>3
<1>5. ASSUME NEW i \in DOMAIN r.tracks PROVE SameTrack(got.tracks[i], r.tracks[i])
  <2> DEFINE t == r.tracks[i]
             fs == t.frames
             made == [j \in DOMAIN fs |-> FrameToJs(fs[j])]
  <2>1. t \in TrackOutputs /\ fs \in Seq(FrameOutputs) /\ got.tracks[i] = TrackToJs(t)
    BY <1>1, <1>2, ReplyParts
  <2>2. \A j \in DOMAIN fs : RawSized(fs[j])
    BY FramesDecode
  <2>3. t = [name |-> t.name, kind |-> t.kind, rate |-> t.rate, frames |-> fs]
    BY <2>1 DEF TrackOutputs
  <2>4. TrackToJs(t) = [t EXCEPT !.frames = made]
    BY DEF TrackToJs
  <2> HIDE DEF made, t, fs
  <2>5. got.tracks[i] = [name |-> t.name, kind |-> t.kind, rate |-> t.rate, frames |-> made]
    BY <2>1, <2>3, <2>4
  <2>6. DOMAIN fs = 1..Len(fs) /\ Len(fs) \in Nat
    BY <2>1
  <2>7. Len(made) = Len(fs)
    BY <2>6 DEF made
  <2>8. ASSUME NEW j \in DOMAIN fs PROVE SameFrame(made[j], fs[j])
    <3>1. fs[j] \in FrameOutputs /\ RawSized(fs[j]) /\ made[j] = FrameToJs(fs[j])
      BY <2>1, <2>2 DEF made
    <3> QED
      BY <3>1, FrameWhole
  <2>9. t.frames = fs
    BY DEF fs
  <2>10. SameTrack(got.tracks[i], t)
    BY <2>5, <2>7, <2>8, <2>9 DEF SameTrack, SameText
  <2> QED
    BY <2>10 DEF t
<1>6. ASSUME NEW i \in DOMAIN r.files PROVE SameFile(got.files[i], r.files[i])
  <2>1. r.files[i] \in StepFiles /\ got.files[i] = FileToJs(r.files[i])
    BY <1>1, <1>2
  <2> QED
    BY <2>1, FileWhole
<1>7. SameNumber(got.step, r.step)
  BY <1>1, NumberHeld
<1>8. ReadWhole(got, r)
  BY <1>1, <1>4, <1>5, <1>6, <1>7 DEF ReadWhole, SameText
<1> QED
  BY <1>8 DEF got

----------------------------------------------------------------------------
(* What a push hands the buffer.                                           *)

\* A frame of some bytes is one.
LEMMA FrameMade ==
    ASSUME NEW i, i.track \in Tracks, NEW encoded \in BOOLEAN, NEW bytes \in Nat
    PROVE  FrameOf(i, encoded, bytes) \in Frames
<1>1. 1 + bytes \in Nat \ {0}
  OBVIOUS
<1> QED
  BY <1>1 DEF FrameOf, FrameCost, Frames

\* What the core makes of pixels is a frame, or nothing.
LEMMA VideoMade ==
    ASSUME NEW i, i.track \in Tracks, i.width \in Nat, i.height \in Nat
    PROVE  BufferVideoFrame(i) # Null => BufferVideoFrame(i) \in Frames
<1>1. 3 * i.width * i.height \in Nat
  <2>1. \A x, y \in Nat : 3 * x * y \in Nat
    OBVIOUS
  <2> QED
    BY <2>1
<1>2. FrameOf(i, FALSE, 3 * i.width * i.height) \in Frames
  BY <1>1, FrameMade
<1> QED
  BY <1>2, Zenon DEF BufferVideoFrame, RawVideoFrame

\* An access unit...
LEMMA EncodedMade ==
    ASSUME NEW i, i.track \in Tracks, i.count \in Nat
    PROVE  PushStepEncodedVideoFrame(i) # Null => PushStepEncodedVideoFrame(i) \in Frames
<1>1. FrameOf(i, TRUE, i.count) \in Frames
  BY FrameMade
<1> QED
  BY <1>1, Zenon DEF PushStepEncodedVideoFrame, EncodedVideoFrame

\* ... and samples likewise.
LEMMA AudioMade ==
    ASSUME NEW i, i.track \in Tracks, i.count \in Nat
    PROVE  PushAudioFrame(i) # Null => PushAudioFrame(i) \in Frames
<1>1. 2 * i.count \in Nat
  OBVIOUS
<1>2. FrameOf(i, FALSE, 2 * i.count) \in Frames
  BY <1>1, FrameMade
<1> QED
  BY <1>2, Zenon DEF PushAudioFrame, RawAudioFrame

\* So whatever a binding lets through is a frame.
LEMMA PushesFrames ==
    ASSUME NEW i \in Inputs
    PROVE  /\ NativePush(i) # Null => NativePush(i) \in Frames
           /\ BrowserPush(i) # Null => BrowserPush(i) \in Frames
<1>1. /\ i.track \in Tracks /\ i.what \in {"video", "encoded", "audio"}
      /\ i.width \in Nat /\ i.height \in Nat /\ i.count \in Nat
      /\ i = [track |-> i.track, what |-> i.what, layout |-> i.layout, width |-> i.width,
              height |-> i.height, count |-> i.count]
  BY InputsAssumption
<1>2. /\ NativeVideo(i).track = i.track /\ NativeVideo(i).width = i.width
      /\ NativeVideo(i).height = i.height
  <2> DEFINE n == (i.width * i.height * 4) % Word
  <2>1. NativeVideo(i) = [i EXCEPT !.layout = "bgra", !.count = n]
    BY DEF NativeVideo
  <2> HIDE DEF n
  <2>2. NativeVideo(i) = [track |-> i.track, what |-> i.what, layout |-> "bgra", width |-> i.width,
                          height |-> i.height, count |-> n]
    BY <1>1, <2>1
  <2> QED
    BY <2>2
<1>3. BufferVideoFrame(NativeVideo(i)) # Null => BufferVideoFrame(NativeVideo(i)) \in Frames
  BY <1>1, <1>2, VideoMade
<1>4. NativeEncoded(i) # Null => NativeEncoded(i) = i
  BY DEF NativeEncoded
<1>5. NativeAudio(i) # Null => NativeAudio(i).track \in Tracks /\ NativeAudio(i).count \in Nat
  <2> DEFINE n == i.count * i.width
  <2>1. n \in Nat
    <3>1. \A x, y \in Nat : x * y \in Nat
      OBVIOUS
    <3> QED
      BY <1>1, <3>1
  <2> HIDE DEF n
  <2>2. NativeAudio(i) # Null => NativeAudio(i) = [i EXCEPT !.count = n]
    BY Zenon DEF NativeAudio, n
  <2>3. [i EXCEPT !.count = n] = [track |-> i.track, what |-> i.what, layout |-> i.layout,
                                  width |-> i.width, height |-> i.height, count |-> n]
    BY <1>1
  <2> QED
    BY <1>1, <2>1, <2>2, <2>3
<1>6. NativePush(i) # Null => NativePush(i) \in Frames
  <2>1. CASE i.what = "video"
    BY <1>3, <2>1 DEF NativePush
  <2>2. CASE i.what = "encoded"
    BY <1>1, <1>4, <2>2, EncodedMade DEF NativePush, Optional
  <2>3. CASE i.what = "audio"
    BY <1>5, <2>3, AudioMade DEF NativePush, Optional
  <2> QED
    BY <1>1, <2>1, <2>2, <2>3
<1>7. BrowserPush(i) # Null => BrowserPush(i) \in Frames
  <2>1. CASE i.what = "video"
    BY <1>1, <2>1, VideoMade DEF BrowserPush
  <2>2. CASE i.what = "encoded"
    BY <1>1, <2>2, EncodedMade DEF BrowserPush
  <2>3. CASE i.what = "audio"
    BY <1>1, <2>3, AudioMade DEF BrowserPush
  <2> QED
    BY <1>1, <2>1, <2>2, <2>3
<1> QED
  BY <1>6, <1>7

----------------------------------------------------------------------------
(* The inductive invariant.                                                *)

\* The buffer is sound, and lost frames only when it had to.
BufferInv == Sound(buffer, pushed, entered) /\ Budgeted(buffer, pushed, limits) /\ budget \in Budgets

\* The log tells the pushes of whom, and a frame of a session gone was under way.
LogInv ==
    /\ Logged(log, pushed, limits)
    /\ \A n \in DOMAIN log : log[n].session \in session.ended => log[n].torn
\* So was a frame that has yet to land.
LandingInv ==
    landing # Null => landing \in Landings /\ (landing.session \in session.ended => landing.torn)

\* A session is made once, and one that ended is never the current one again.
SessionInv ==
    /\ session \in [current : Nat, made : Nat, ended : SUBSET Nat, ready : BOOLEAN]
    /\ session.ended \subseteq 1..session.made /\ session.current <= session.made
    /\ session.current \notin session.ended
    /\ ending \in [at : {"none", "failed", "closed", "cleared"}, recoverable : BOOLEAN]

\* The frames' part, which rests on none of the steps'.
InputsInv == BufferInv /\ LogInv /\ LandingInv /\ SessionInv
inputVars == <<vars, log, landing, session, ending>>

\* What is told of a step: its output, or the code it failed with.
Codes ==
    {"none", "output", "step_refused", "step_not_ready", "step_result_too_large",
     "step_command_failed", "step_session_ended", "INTERNAL_ERROR", "DECODE_FAILED",
     "UNSUPPORTED_FRAME_ENCODING", "INVALID_STATE", "TRANSPORT_ERROR",
     "MESSAGE_TOO_LARGE", "REQUEST_TIMEOUT", "DISCONNECTED"} \union {r.code : r \in Replies}

\* A step, as far as it is.
Outputs == [of : Nat, result : Replies]
StepRecords ==
    [phase : {"begun", "sent", "decided", "told"}, bytes : Int, media : SUBSET Nat,
     offered : Seq(Entries), sentOn : Nat, ran : BOOLEAN, answered : BOOLEAN,
     outcome : Codes, answer : Outputs \union {Null}]

\* The step's outcome is the code of the Error it was answered with.
ToldError(s) ==
    /\ s.answer # Null
    /\ s.answer.result.payload = "error" /\ s.answer.result.code = s.outcome

\* What is so of step k: begun, it carries what it should and the runtime does not know
\* it; decided, its answer is an answer to it, an output is of a step that ran, and a
\* step told not to have run never will, since it was not sent or has been answered,
\* unless an Error says so.
StepRight(k, s) ==
    /\ s \in StepRecords
    /\ s.phase = "begun" => s.sentOn = 0 /\ ~s.ran /\ ~s.answered /\ Carries(s.media, s.offered)
    /\ s.phase # "decided" => s.answer = Null
    /\ s.phase = "decided" =>
         /\ s.answer # Null => s.answer \in Outputs /\ s.answer.of = k
         /\ s.outcome = "output" =>
              s.ran /\ s.answer # Null /\ Outcome(s.answer.result) = "OK"
         /\ s.outcome \in NotRun =>
              ToldError(s) \/ (~s.ran /\ (s.sentOn = 0 \/ s.answered))

\* The steps' part: every step is right.
StepsInv ==
    /\ link \in [open : BOOLEAN, number : Nat \ {0}]
    /\ steps \in Seq(StepRecords)
    /\ \A k \in DOMAIN steps : StepRight(k, steps[k])

\* The inductive invariant.
IInv == InputsInv /\ StepsInv

----------------------------------------------------------------------------
(* The frames.                                                             *)

\* take() and clear() leave the buffer as it began.
LEMMA TakeKeeps ==
    ASSUME BufferInv, Take, log' = <<>>
    PROVE  BufferInv' /\ Logged(log, pushed, limits)' /\ DOMAIN log' = {}
<1>1. /\ buffer' = Empty /\ pushed' = <<>> /\ limits' = <<>>
      /\ entered' = [t \in Tracks |-> 0] /\ budget' = budget
  BY DEF Take
<1>2. Sound(buffer', pushed', entered') /\ Budgeted(buffer', pushed', limits')
  BY <1>1, EmptySound
<1>3. BufferInv'
  BY <1>1, <1>2 DEF BufferInv
<1>4. DOMAIN log' = {} /\ log' \in Seq(Entries)
  OBVIOUS
<1>5. /\ pushed' = [n \in DOMAIN log' |-> log'[n].frame]
      /\ limits' = [n \in DOMAIN log' |-> log'[n].max]
  BY <1>1, <1>4
<1> QED
  BY <1>3, <1>4, <1>5 DEF Logged

\* A push is logged with its frame, its session, whether that had ended, and its budget.
LEMMA LandKeeps ==
    ASSUME BufferInv, LogInv, NEW f \in Frames, NEW of \in Nat, NEW torn \in BOOLEAN,
           of \in session.ended => torn, Land(f, of, torn)
    PROVE  BufferInv' /\ LogInv' /\ UNCHANGED <<session, ending>>
<1> DEFINE entry == [frame |-> f, session |-> of, torn |-> torn, max |-> budget]
<1>1. Push(f) /\ log' = Append(log, entry) /\ session' = session /\ ending' = ending
  BY DEF Land
<1>2. pushed' = Append(pushed, f) /\ limits' = Append(limits, budget) /\ budget' = budget
  BY <1>1 DEF Push
<1>3. Sound(buffer, pushed, entered)' /\ Budgeted(buffer, pushed, limits)'
  BY <1>1, PushSound DEF BufferInv
<1>4. BufferInv'
  BY <1>2, <1>3 DEF BufferInv
<1>5. budget \in Nat
  BY BudgetsAssumption DEF BufferInv
<1>6. /\ entry \in Entries /\ entry.frame = f /\ entry.max = budget
      /\ entry.session \in session.ended => entry.torn
  BY <1>5 DEF Entries
<1> HIDE DEF entry
<1>7. /\ log \in Seq(Entries) /\ pushed = [n \in DOMAIN log |-> log[n].frame]
      /\ limits = [n \in DOMAIN log |-> log[n].max]
  BY DEF LogInv, Logged
<1> DEFINE N == Len(log)
<1>8. N \in Nat /\ DOMAIN log = 1..N
  BY <1>7
<1>9. /\ log' \in Seq(Entries) /\ DOMAIN log' = 1..(N + 1) /\ log'[N + 1] = entry
      /\ \A n \in 1..N : log'[n] = log[n]
  BY <1>1, <1>6, <1>7, AppendProperties
<1> HIDE DEF N
<1>10. \A n \in 1..(N + 1) : n \in 1..N \/ n = N + 1
  BY <1>8
<1>11. pushed' = [n \in DOMAIN log' |-> log'[n].frame]
  <2>1. pushed \in Seq(Frames) /\ Len(pushed) = N
    <3>1. pushed \in Seq(Frames)
      BY DEF BufferInv, Sound, BufferType
    <3>2. pushed = [n \in 1..N |-> log[n].frame]
      BY <1>7, <1>8
    <3> QED
      BY <1>8, <3>1, <3>2
  <2>2. /\ pushed' \in Seq(Frames) /\ Len(pushed') = N + 1 /\ pushed'[N + 1] = f
        /\ \A n \in 1..N : pushed'[n] = pushed[n]
    BY <1>2, <2>1
  <2>3. \A n \in 1..(N + 1) : pushed'[n] = log'[n].frame
    BY <1>6, <1>7, <1>8, <1>9, <1>10, <2>2
  <2>4. pushed' = [n \in 1..(N + 1) |-> pushed'[n]]
    BY <1>8, <2>2
  <2> QED
    BY <1>9, <2>3, <2>4
<1>12. limits' = [n \in DOMAIN log' |-> log'[n].max]
  <2>1. limits \in Seq(Nat) /\ Len(limits) = N
    <3>1. limits \in Seq(Nat)
      BY DEF BufferInv, Budgeted
    <3>2. limits = [n \in 1..N |-> log[n].max]
      BY <1>7, <1>8
    <3> QED
      BY <1>8, <3>1, <3>2
  <2>2. /\ limits' \in Seq(Nat) /\ Len(limits') = N + 1 /\ limits'[N + 1] = budget
        /\ \A n \in 1..N : limits'[n] = limits[n]
    BY <1>2, <1>5, <2>1
  <2>3. \A n \in 1..(N + 1) : limits'[n] = log'[n].max
    BY <1>6, <1>7, <1>8, <1>9, <1>10, <2>2
  <2>4. limits' = [n \in 1..(N + 1) |-> limits'[n]]
    BY <1>8, <2>2
  <2> QED
    BY <1>9, <2>3, <2>4
<1>13. \A n \in DOMAIN log' : log'[n].session \in session'.ended => log'[n].torn
  BY <1>1, <1>6, <1>8, <1>9, <1>10 DEF LogInv
<1>14. Logged(log, pushed, limits)'
  BY <1>9, <1>11, <1>12 DEF Logged
<1> QED
  BY <1>1, <1>4, <1>13, <1>14 DEF LogInv

\* Every step keeps what is so of the frames.
LEMMA InputsStep == InputsInv /\ [Next]_allVars => InputsInv'
<1> SUFFICES ASSUME InputsInv, [Next]_allVars PROVE InputsInv'
  OBVIOUS
<1> USE DEF InputsInv
<1>1. /\ session = [current |-> session.current, made |-> session.made,
                    ended |-> session.ended, ready |-> session.ready]
      /\ session.current \in Nat /\ session.made \in Nat /\ session.ended \in SUBSET Nat
      /\ session.ready \in BOOLEAN
      /\ ending = [at |-> ending.at, recoverable |-> ending.recoverable]
      /\ ending.recoverable \in BOOLEAN /\ ending.at \in {"none", "failed", "closed", "cleared"}
  BY DEF SessionInv
<1>2. UNCHANGED inputVars => InputsInv'
  BY DEF inputVars, vars, BufferInv, LogInv, Logged, LandingInv, SessionInv
<1>3. ASSUME UNCHANGED <<session, ending>>, BufferInv', LogInv', LandingInv' PROVE InputsInv'
  BY <1>3 DEF SessionInv
<1>4. ASSUME NEW i \in Inputs, PushCheck(i) PROVE InputsInv'
  <2> DEFINE new == [frame |-> NativePush(i), session |-> session.current, torn |-> FALSE]
  <2>1. /\ landing' = new /\ NativePush(i) \in Frames
        /\ UNCHANGED <<vars, log, session, ending>>
    BY <1>4, PushesFrames DEF PushCheck
  <2>2. new \in Landings /\ new.session = session.current
    BY <1>1, <2>1 DEF Landings
  <2> HIDE DEF new
  <2>3. LandingInv'
    BY <2>1, <2>2 DEF LandingInv, SessionInv
  <2>4. BufferInv' /\ LogInv'
    BY <2>1 DEF vars, BufferInv, LogInv, Logged
  <2> QED
    BY <1>3, <2>1, <2>3, <2>4
<1>5. ASSUME NEW i \in Inputs, PushBrowser(i) PROVE InputsInv'
  <2>1. BrowserPush(i) \in Frames /\ Land(BrowserPush(i), session.current, FALSE) /\ landing' = landing
    BY <1>5, PushesFrames DEF PushBrowser
  <2>2. session.current \in Nat /\ session.current \notin session.ended
    BY <1>1 DEF SessionInv
  <2>3. BufferInv' /\ LogInv' /\ UNCHANGED <<session, ending>>
    BY <2>1, <2>2, LandKeeps
  <2>4. LandingInv'
    BY <2>1, <2>3 DEF LandingInv
  <2> QED
    BY <1>3, <2>3, <2>4
<1>6. CASE PushLand
  <2>1. landing \in Landings /\ (landing.session \in session.ended => landing.torn)
    BY <1>6 DEF PushLand, LandingInv
  <2>2. landing.frame \in Frames /\ landing.session \in Nat /\ landing.torn \in BOOLEAN
    BY <2>1 DEF Landings
  <2>3. Land(landing.frame, landing.session, landing.torn) /\ landing' = Null
    BY <1>6 DEF PushLand
  <2>4. BufferInv' /\ LogInv' /\ UNCHANGED <<session, ending>>
    BY <2>1, <2>2, <2>3, LandKeeps
  <2>5. LandingInv'
    BY <2>3 DEF LandingInv
  <2> QED
    BY <1>3, <2>4, <2>5
<1>7. ASSUME NEW t \in Tracks, PauseTrack(t) PROVE InputsInv'
  BY <1>2, <1>7 DEF PauseTrack, inputVars
<1>8. ASSUME Take, log' = <<>>, UNCHANGED <<session, ending>>, LandingInv' PROVE InputsInv'
  <2>1. BufferInv' /\ Logged(log, pushed, limits)' /\ DOMAIN log' = {}
    BY <1>8, TakeKeeps
  <2>2. LogInv'
    BY <2>1 DEF LogInv
  <2> QED
    BY <1>3, <1>8, <2>1, <2>2
<1>9. CASE ClearStepInputs
  <2>1. LandingInv'
    BY <1>9 DEF ClearStepInputs, LandingInv
  <2> QED
    BY <1>8, <1>9, <2>1 DEF ClearStepInputs
<1>10. ASSUME NEW a \in Asks, BeginStep(a) PROVE InputsInv'
  <2> DEFINE code == CheckStep(a)
  <2>1. UNCHANGED <<session, ending, landing>>
    BY <1>10 DEF BeginStep
  <2>2. LandingInv'
    BY <2>1 DEF LandingInv
  <2>3. CASE code = "OK"
    <3>1. Take /\ log' = <<>>
      BY <1>10, <2>3 DEF BeginStep, TakesFrames
    <3> QED
      BY <1>8, <2>1, <2>2, <3>1
  <2>4. CASE code # "OK"
    <3>1. UNCHANGED vars /\ log' = log
      BY <1>10, <2>4 DEF BeginStep, TakesFrames
    <3> QED
      BY <1>2, <2>1, <3>1 DEF inputVars
  <2> QED
    BY <2>3, <2>4
<1>11. CASE Answering
  <2>1. ASSUME OnlyAStep PROVE InputsInv'
    BY <1>2, <2>1 DEF OnlyAStep, inputVars
  <2>2. OnlyAStep
    BY <1>11, Zenon DEF Answering, SendStep, RuntimeRuns, StepReply, StepTimeout, TellStep
  <2> QED
    BY <2>1, <2>2
<1>12. ASSUME NEW recoverable \in BOOLEAN, FailAll(recoverable) PROVE InputsInv'
  <2>1. /\ UNCHANGED <<vars, session, landing, log>>
        /\ ending' = [at |-> "failed", recoverable |-> recoverable]
    BY <1>12 DEF FailAll
  <2>2. SessionInv'
    BY <2>1 DEF SessionInv
  <2> QED
    BY <2>1, <2>2 DEF vars, BufferInv, LogInv, Logged, LandingInv
<1>13. CASE ClosePeer
  <2>1. /\ ending.at = "failed" /\ ending' = [ending EXCEPT !.at = "closed"]
        /\ UNCHANGED <<buffer, pushed, limits, entered, session, landing, log>>
    BY <1>13 DEF ClosePeer
  <2>4. BufferInv'
    <3>1. budget' = Default /\ Default \in Budgets
      BY <1>13, ExchangeBounds DEF ClosePeer
    <3> QED
      BY <2>1, <3>1 DEF BufferInv, Budgeted
  <2>2. ending' = [at |-> "closed", recoverable |-> ending.recoverable]
    BY <1>1, <2>1
  <2>3. SessionInv'
    BY <1>1, <2>1, <2>2 DEF SessionInv
  <2> QED
    BY <2>1, <2>3, <2>4 DEF LogInv, Logged, LandingInv
<1>14. CASE ClearState
  <2>1. ending.at = "closed" /\ ending' = [ending EXCEPT !.at = "cleared"]
    BY <1>14 DEF ClearState
  <2>2. ending' = [at |-> "cleared", recoverable |-> ending.recoverable]
    BY <1>1, <2>1
  <2>3. CASE UNCHANGED <<vars, session, landing, log>>
    <3>1. SessionInv'
      BY <1>1, <2>1, <2>2, <2>3 DEF SessionInv
    <3> QED
      BY <2>3, <3>1 DEF vars, BufferInv, LogInv, Logged, LandingInv
  <2>4. CASE /\ session' = [session EXCEPT !.current = 0, !.ended = @ \union ({session.current} \ {0})]
             /\ DropsFrames
             /\ landing' = IF landing = Null THEN Null ELSE [landing EXCEPT !.torn = TRUE]
    <3>1. session' = [current |-> 0, made |-> session.made,
                      ended |-> session.ended \union ({session.current} \ {0}), ready |-> session.ready]
      BY <1>1, <2>4
    <3>2. session.current # 0 => session.current \in 1..session.made
      BY <1>1 DEF SessionInv
    <3>3. SessionInv'
      <4>1. session.ended \union ({session.current} \ {0}) \subseteq 1..session.made
        BY <3>2 DEF SessionInv
      <4>2. 0 \notin 1..session.made /\ 0 <= session.made
        BY <1>1
      <4> QED
        BY <1>1, <2>2, <3>1, <3>2, <4>1, <4>2 DEF SessionInv
    <3>4. BufferInv' /\ Logged(log, pushed, limits)' /\ DOMAIN log' = {}
      BY <2>4, TakeKeeps DEF DropsFrames
    <3>5. LogInv'
      BY <3>4 DEF LogInv
    <3>6. LandingInv'
      <4> SUFFICES ASSUME landing' # Null PROVE landing' \in Landings /\ landing'.torn
        BY DEF LandingInv
      <4>1. landing \in Landings /\ landing' = [landing EXCEPT !.torn = TRUE]
        BY <2>4 DEF LandingInv
      <4> QED
        BY <4>1 DEF Landings
    <3> QED
      BY <3>3, <3>4, <3>5, <3>6
  <2> QED
    BY <1>14, <2>3, <2>4 DEF ClearState
<1>15. CASE EndTeardown
  <2>1. /\ ending' = NotEnding /\ session' = [session EXCEPT !.ready = FALSE]
        /\ UNCHANGED <<vars, landing, log>>
    BY <1>15 DEF EndTeardown
  <2>2. session' = [current |-> session.current, made |-> session.made,
                    ended |-> session.ended, ready |-> FALSE]
    BY <1>1, <2>1
  <2>3. SessionInv'
    BY <1>1, <2>1, <2>2 DEF SessionInv, NotEnding
  <2> QED
    BY <2>1, <2>2, <2>3 DEF vars, BufferInv, LogInv, Logged, LandingInv
<1>16. CASE Connect
  <2>1. /\ ending.at = "none" /\ budget' \in Budgets
        /\ UNCHANGED <<buffer, pushed, limits, entered, ending, landing, log>>
    BY <1>16 DEF Connect
  <2>2. BufferInv'
    BY <2>1 DEF BufferInv, Budgeted
  <2>3. CASE session' = [session EXCEPT !.current = session.made + 1, !.made = @ + 1, !.ready = TRUE]
    <3>1. session' = [current |-> session.made + 1, made |-> session.made + 1,
                      ended |-> session.ended, ready |-> TRUE]
      BY <1>1, <2>3
    <3>2. /\ session.ended \subseteq 1..(session.made + 1) /\ session.made + 1 \notin session.ended
          /\ session.made + 1 \in Nat /\ session.made + 1 # 0
      BY <1>1 DEF SessionInv
    <3>3. SessionInv'
      BY <1>1, <2>1, <3>1, <3>2 DEF SessionInv
    <3> QED
      BY <2>1, <2>2, <3>1, <3>3 DEF LogInv, Logged, LandingInv
  <2>4. CASE session.current # 0 /\ session' = [session EXCEPT !.ready = TRUE]
    <3>1. session' = [current |-> session.current, made |-> session.made,
                      ended |-> session.ended, ready |-> TRUE]
      BY <1>1, <2>4
    <3>2. SessionInv'
      BY <1>1, <2>1, <2>4, <3>1 DEF SessionInv
    <3> QED
      BY <2>1, <2>2, <3>1, <3>2 DEF LogInv, Logged, LandingInv
  <2> QED
    BY <1>16, <2>3, <2>4 DEF Connect
<1>17. CASE UNCHANGED allVars
  BY <1>2, <1>17 DEF allVars, exchangeVars, inputVars
<1> QED
  BY <1>4, <1>5, <1>6, <1>7, <1>9, <1>10, <1>11, <1>12, <1>13, <1>14, <1>15, <1>16, <1>17 DEF Next

----------------------------------------------------------------------------
(* The steps.                                                              *)

\* A step decided is one, with what it was and the code it failed with.
LEMMA DecidedStep ==
    ASSUME NEW s \in StepRecords, NEW code \in Codes
    PROVE  /\ Decided(s, code) \in StepRecords
           /\ Decided(s, code).phase = "decided" /\ Decided(s, code).outcome = code
           /\ Decided(s, code).answer = s.answer /\ Decided(s, code).sentOn = s.sentOn
           /\ Decided(s, code).ran = s.ran /\ Decided(s, code).answered = s.answered
<1> DEFINE a == [s EXCEPT !.bytes = 0]
           b == [a EXCEPT !.media = {}]
           nothing == <<>>
           g == [b EXCEPT !.offered = nothing]
           d == [g EXCEPT !.phase = "decided", !.outcome = code]
<1>1. Decided(s, code) = d
  BY DEF Decided, Gone
<1>2. /\ a \in StepRecords /\ a.answer = s.answer /\ a.sentOn = s.sentOn
      /\ a.ran = s.ran /\ a.answered = s.answered
  BY DEF StepRecords
<1> HIDE DEF a
<1>3. /\ b \in StepRecords /\ b.answer = s.answer /\ b.sentOn = s.sentOn
      /\ b.ran = s.ran /\ b.answered = s.answered
  BY <1>2 DEF StepRecords
<1>0. nothing \in Seq(Entries)
  OBVIOUS
<1> HIDE DEF b, nothing
<1>4. /\ g \in StepRecords /\ g.answer = s.answer /\ g.sentOn = s.sentOn
      /\ g.ran = s.ran /\ g.answered = s.answered
  BY <1>0, <1>3 DEF StepRecords
<1> HIDE DEF g
<1>5. /\ d \in StepRecords /\ d.phase = "decided" /\ d.outcome = code /\ d.answer = s.answer
      /\ d.sentOn = s.sentOn /\ d.ran = s.ran /\ d.answered = s.answered
  BY <1>4 DEF StepRecords
<1> QED
  BY <1>1, <1>5

\* A failure that no reply decides is right of a step that is not decided.
LEMMA FailedRight ==
    ASSUME NEW k, NEW s, StepRight(k, s), s.phase # "decided", NEW code \in Codes,
           code # "output", code \in NotRun => ~s.ran /\ (s.sentOn = 0 \/ s.answered)
    PROVE  StepRight(k, Decided(s, code))
<1>1. s \in StepRecords /\ s.answer = Null
  BY DEF StepRight
<1>2. /\ Decided(s, code) \in StepRecords
      /\ Decided(s, code).phase = "decided" /\ Decided(s, code).outcome = code
      /\ Decided(s, code).answer = Null /\ Decided(s, code).sentOn = s.sentOn
      /\ Decided(s, code).ran = s.ran /\ Decided(s, code).answered = s.answered
  BY <1>1, DecidedStep
<1> QED
  BY <1>2 DEF StepRight

\* A change of one step keeps the others.
LEMMA UpdateKeeps ==
    ASSUME StepsInv, NEW k \in DOMAIN steps, NEW s, StepRight(k, s), Update(k, s), link' = link
    PROVE  StepsInv'
<1>1. /\ steps' = [steps EXCEPT ![k] = s] /\ s \in StepRecords /\ steps \in Seq(StepRecords)
      /\ link \in [open : BOOLEAN, number : Nat \ {0}]
  BY DEF Update, StepRight, StepsInv
<1>2. steps' \in Seq(StepRecords) /\ DOMAIN steps' = DOMAIN steps
  BY <1>1
<1>3. ASSUME NEW j \in DOMAIN steps PROVE StepRight(j, steps'[j])
  <2>1. CASE j = k
    BY <1>1, <2>1
  <2>2. CASE j # k
    BY <1>1, <2>2 DEF StepsInv
  <2> QED
    BY <2>1, <2>2
<1> QED
  BY <1>1, <1>2, <1>3 DEF StepsInv

\* What a new step is.
LEMMA NewStepFields ==
    ASSUME NEW a \in Asks
    PROVE  /\ a.bytes \in Nat /\ NewStep(a) \in StepRecords
           /\ NewStep(a).phase = "begun" /\ NewStep(a).sentOn = 0 /\ NewStep(a).answer = Null
           /\ ~NewStep(a).ran /\ ~NewStep(a).answered /\ NewStep(a).bytes = a.bytes
<1>1. a.bytes \in Nat
  BY AsksAssumption
<1>2. NewStep(a) \in StepRecords
  BY <1>1 DEF NewStep, StepRecords, Codes
<1> QED
  BY <1>1, <1>2 DEF NewStep

\* A step begun is as it should be.
LEMMA BegunRight ==
    ASSUME InputsInv, NEW a \in Asks, NEW k, NEW bytes \in Int,
           NEW s, s = [NewStep(a) EXCEPT !.bytes = bytes, !.media = Held, !.offered = log]
    PROVE  StepRight(k, s)
<1>1. Carries(Held, log) /\ log \in Seq(Entries)
  BY HeldCarries DEF InputsInv, BufferInv, LogInv, Logged
<1>2. Held \in SUBSET Nat
  <2>1. Sound(buffer, pushed, entered)
    BY DEF InputsInv, BufferInv
  <2>2. Base(buffer, pushed) \in Nat /\ Len(pushed) \in Nat
    BY <2>1, SoundNumbers
  <2> QED
    BY <2>1, <2>2, HeldNewest
<1> DEFINE n == NewStep(a)
           b == [n EXCEPT !.bytes = bytes]
           c == [b EXCEPT !.media = Held]
<1>3. /\ n \in StepRecords /\ n.phase = "begun" /\ n.sentOn = 0 /\ n.answer = Null
      /\ ~n.ran /\ ~n.answered
  BY NewStepFields
<1>4. s = [c EXCEPT !.offered = log]
  OBVIOUS
<1> HIDE DEF n
<1>5. /\ b \in StepRecords /\ b.phase = "begun" /\ b.sentOn = 0 /\ b.answer = Null
      /\ ~b.ran /\ ~b.answered
  BY <1>3 DEF StepRecords
<1> HIDE DEF b
<1>6. /\ c \in StepRecords /\ c.phase = "begun" /\ c.sentOn = 0 /\ c.answer = Null
      /\ ~c.ran /\ ~c.answered /\ c.media = Held
  BY <1>2, <1>5 DEF StepRecords
<1> HIDE DEF c
<1>7. /\ s \in StepRecords /\ s.phase = "begun" /\ s.sentOn = 0 /\ s.answer = Null
      /\ ~s.ran /\ ~s.answered /\ s.media = Held /\ s.offered = log
  BY <1>1, <1>4, <1>6 DEF StepRecords
<1> QED
  BY <1>1, <1>7 DEF StepRight

\* One that fails as it is begun never ran.
LEMMA RefusedRight ==
    ASSUME NEW a \in Asks, NEW code \in Codes, code # "output", NEW k
    PROVE  StepRight(k, Failed(a, code))
<1> DEFINE n == NewStep(a)
           b == [n EXCEPT !.outcome = code]
           c == [b EXCEPT !.phase = "decided"]
           s == [c EXCEPT !.bytes = 0]
<1>1. n \in StepRecords /\ n.sentOn = 0 /\ n.answer = Null /\ ~n.ran
  BY NewStepFields
<1>2. Failed(a, code) = s
  BY DEF Failed
<1> HIDE DEF n
<1>3. b \in StepRecords /\ b.sentOn = 0 /\ b.answer = Null /\ ~b.ran /\ b.outcome = code
  BY <1>1 DEF StepRecords
<1> HIDE DEF b
<1>4. /\ c \in StepRecords /\ c.sentOn = 0 /\ c.answer = Null /\ ~c.ran /\ c.outcome = code
      /\ c.phase = "decided"
  BY <1>3 DEF StepRecords
<1> HIDE DEF c
<1>5. /\ s \in StepRecords /\ s.sentOn = 0 /\ s.answer = Null /\ ~s.ran /\ s.outcome = code
      /\ s.phase = "decided"
  BY <1>4 DEF StepRecords
<1> QED
  BY <1>2, <1>5 DEF StepRight

----------------------------------------------------------------------------
(* What a reply makes of a step.                                           *)

\* Decoding fails with one of two codes, or not.
LEMMA DecodesTo ==
    ASSUME NEW t \in TrackOutputs
    PROVE  TrackFailure(t) \in {"OK", "DECODE_FAILED", "UNSUPPORTED_FRAME_ENCODING"}
<1>1. \A f : DecodeFrame(f) \in {"OK", "DECODE_FAILED", "UNSUPPORTED_FRAME_ENCODING"}
  BY Zenon DEF DecodeFrame
<1> DEFINE bad == {j \in DOMAIN t.frames : DecodeFrame(t.frames[j]) # "OK"}
<1>2. TrackFailure(t) \in {"DECODE_FAILED", "OK", DecodeFrame(t.frames[Min(bad)])}
  BY Zenon DEF TrackFailure
<1> QED
  BY <1>1, <1>2, Zenon

\* A result that does not decode fails the step with one of them, whatever its frames.
LEMMA ResultDecodesTo ==
    ASSUME NEW r \in Replies
    PROVE  \/ StepFailure(r) # "OK" /\ DecodeResult(r) = StepFailure(r)
           \/ /\ StepFailure(r) = "OK"
              /\ DecodeResult(r) \in {"OK", "DECODE_FAILED", "UNSUPPORTED_FRAME_ENCODING"}
<1> DEFINE bad == {i \in DOMAIN r.tracks : TrackFailure(r.tracks[i]) # "OK"}
<1>1. r.tracks \in Seq(TrackOutputs)
  BY ReplyParts
<1>2. bad \in SUBSET Nat /\ bad \subseteq DOMAIN r.tracks
  BY <1>1
<1>3. ASSUME bad # {} PROVE r.tracks[Min(bad)] \in TrackOutputs
  <2>1. Min(bad) \in bad
    BY <1>2, <1>3, MinIsLeast
  <2>2. Min(bad) \in DOMAIN r.tracks
    BY <1>2, <2>1, Zenon
  <2> HIDE DEF bad
  <2> QED
    BY <1>1, <2>2
<1>4. CASE StepFailure(r) # "OK"
  BY <1>4, Zenon DEF DecodeResult
<1>5. CASE StepFailure(r) = "OK" /\ bad = {}
  BY <1>5, Zenon DEF DecodeResult
<1>6. CASE StepFailure(r) = "OK" /\ bad # {}
  <2>1. DecodeResult(r) = TrackFailure(r.tracks[Min(bad)])
    BY <1>6, Zenon DEF DecodeResult
  <2> QED
    BY <1>3, <1>6, <2>1, DecodesTo, Zenon
<1> QED
  BY <1>4, <1>5, <1>6

\* An output is of a step that ran, and what says that it did not is right.
LEMMA OutcomeRight ==
    ASSUME NEW r \in Replies
    PROVE  /\ Outcome(r) \in Codes \union {"OK"} /\ Outcome(r) # "output"
           /\ Outcome(r) = "OK" => r.ran /\ DecodeResult(r) = "OK"
           /\ Outcome(r) \in NotRun => ~r.ran \/ (r.payload = "error" /\ r.code = Outcome(r))
<1>1. r \in Messages
  BY RepliesAssumption
<1>2. r.failure \in STRING /\ r.payload \in STRING
  BY <1>1 DEF Messages
<1> DEFINE codes == {"refused", "not_ready", "result_too_large", "command_failed", "session_ended"}
<1>3. StepFailure(r) \in {"OK", "INTERNAL_ERROR", "step_refused", "step_not_ready",
         "step_result_too_large", "step_command_failed", "step_session_ended"}
  BY DEF StepFailure, StepFailed, FailureCodes
<1>4. /\ StepFailure(r) = "OK" => r.failure \in {"unspecified", "failed"}
      /\ StepFailure(r) \in {"step_refused", "step_not_ready", "step_command_failed"} =>
           r.failure \in {"refused", "not_ready", "command_failed"}
  BY DEF StepFailure, StepFailed, FailureCodes
<1>5. CASE r.payload = "step_result"
  <2>1. Outcome(r) = DecodeResult(r)
    BY <1>5 DEF Outcome
  <2>2. /\ r.failure \in {"unspecified", "failed"} => r.ran
        /\ r.failure \in {"refused", "not_ready", "command_failed"} => ~r.ran
    BY <1>5, RanAssumption
  <2>3. CASE StepFailure(r) # "OK" /\ DecodeResult(r) = StepFailure(r)
    BY <1>3, <1>4, <2>1, <2>2, <2>3 DEF NotRun, Codes
  <2>4. CASE /\ StepFailure(r) = "OK"
             /\ DecodeResult(r) \in {"OK", "DECODE_FAILED", "UNSUPPORTED_FRAME_ENCODING"}
    BY <1>4, <2>1, <2>2, <2>4 DEF NotRun, Codes
  <2> QED
    BY <2>3, <2>4, ResultDecodesTo
<1>6. CASE r.payload = "error"
  <2>1. Outcome(r) = StepFailed(r.code)
    BY <1>6 DEF Outcome
  <2>2. r.code \notin {"none", "output", "OK"}
    BY CodesAssumption
  <2>3. CASE r.code = ""
    BY <2>1, <2>3 DEF StepFailed, NotRun, Codes
  <2>4. CASE r.code # ""
    <3>1. Outcome(r) = r.code
      BY <2>1, <2>4 DEF StepFailed
    <3> QED
      BY <1>6, <2>2, <3>1 DEF Codes
  <2> QED
    BY <2>3, <2>4
<1>7. CASE r.payload \notin {"step_result", "error"}
  BY <1>7 DEF Outcome, NotRun, Codes
<1> QED
  BY <1>5, <1>6, <1>7

\* The step a reply answers is right afterwards.
LEMMA AnsweredRight ==
    ASSUME NEW k \in Nat, NEW s, StepRight(k, s), s.phase = "sent", NEW r \in Replies,
           s.ran = r.ran, s.answered
    PROVE  StepRight(k, Answered(s, r, k))
<1> DEFINE code == IF Outcome(r) = "OK" THEN "output" ELSE Outcome(r)
           d == Decided(s, code)
           out == [of |-> k, result |-> r]
           e == [d EXCEPT !.answer = out]
<1>1. s \in StepRecords
  BY DEF StepRight
<1>2. /\ Outcome(r) \in Codes \union {"OK"} /\ Outcome(r) # "output"
      /\ Outcome(r) = "OK" => r.ran /\ DecodeResult(r) = "OK"
      /\ Outcome(r) \in NotRun => ~r.ran \/ (r.payload = "error" /\ r.code = Outcome(r))
  BY OutcomeRight
<1>3. /\ code \in Codes /\ (code = "output" => Outcome(r) = "OK")
      /\ code \in NotRun => Outcome(r) = code
  BY <1>2 DEF NotRun, Codes
<1>4. out \in Outputs /\ out.of = k /\ out.result = r /\ out # Null
  BY NullAssumption DEF Outputs
<1>5. Answered(s, r, k) = e
  BY Zenon DEF Answered
<1> HIDE DEF code
<1>6. d \in StepRecords /\ d.phase = "decided" /\ d.outcome = code /\ d.ran = s.ran /\ d.answered
  BY <1>1, <1>3, DecidedStep
<1> HIDE DEF d, out
<1>7. /\ e \in StepRecords /\ e.phase = "decided" /\ e.outcome = code /\ e.ran = s.ran
      /\ e.answered /\ e.answer = out
  BY <1>4, <1>6 DEF StepRecords
<1> HIDE DEF e
<1>8. e.outcome = "output" => e.ran /\ e.answer # Null /\ Outcome(e.answer.result) = "OK"
  BY <1>2, <1>3, <1>4, <1>7
<1>9. e.outcome \in NotRun => ToldError(e) \/ (~e.ran /\ e.answered)
  BY <1>2, <1>3, <1>4, <1>7 DEF ToldError
<1>10. StepRight(k, e)
  BY <1>4, <1>7, <1>8, <1>9 DEF StepRight
<1> QED
  BY <1>5, <1>10

----------------------------------------------------------------------------
(* The steps' part of the invariant.                                       *)

\* A step may be marked as run or answered, not back.
LEMMA MarkedRight ==
    ASSUME NEW k, NEW s, StepRight(k, s)
    PROVE  /\ s.phase # "begun" => StepRight(k, [s EXCEPT !.answered = TRUE])
           /\ s.sentOn # 0 /\ ~s.answered => StepRight(k, [s EXCEPT !.ran = TRUE])
           /\ s.phase = "decided" => StepRight(k, [s EXCEPT !.phase = "told", !.outcome = "none", !.answer = Null])
<1>1. s \in StepRecords
  BY DEF StepRight
<1>2. ASSUME s.phase # "begun" PROVE StepRight(k, [s EXCEPT !.answered = TRUE])
  <2> DEFINE d == [s EXCEPT !.answered = TRUE]
  <2>1. /\ d \in StepRecords /\ d.phase = s.phase /\ d.answer = s.answer /\ d.outcome = s.outcome
        /\ d.ran = s.ran /\ d.answered /\ d.sentOn = s.sentOn
    BY <1>1 DEF StepRecords
  <2> HIDE DEF d
  <2>2. StepRight(k, d)
    BY <1>2, <2>1 DEF StepRight, ToldError
  <2> QED
    BY <2>2 DEF d
<1>3. ASSUME s.sentOn # 0, ~s.answered PROVE StepRight(k, [s EXCEPT !.ran = TRUE])
  <2> DEFINE d == [s EXCEPT !.ran = TRUE]
  <2>1. /\ d \in StepRecords /\ d.phase = s.phase /\ d.answer = s.answer /\ d.outcome = s.outcome
        /\ d.ran /\ d.answered = s.answered /\ d.sentOn = s.sentOn
    BY <1>1 DEF StepRecords
  <2> HIDE DEF d
  <2>2. StepRight(k, d)
    BY <1>3, <2>1 DEF StepRight, ToldError
  <2> QED
    BY <2>2 DEF d
<1>4. ASSUME s.phase = "decided"
      PROVE StepRight(k, [s EXCEPT !.phase = "told", !.outcome = "none", !.answer = Null])
  <2> DEFINE b == [s EXCEPT !.phase = "told"]
             c == [b EXCEPT !.outcome = "none"]
             d == [c EXCEPT !.answer = Null]
  <2>1. b \in StepRecords /\ b.phase = "told"
    BY <1>1 DEF StepRecords
  <2>2. [s EXCEPT !.phase = "told", !.outcome = "none", !.answer = Null] = d
    OBVIOUS
  <2> HIDE DEF b
  <2>3. c \in StepRecords /\ c.phase = "told"
    BY <2>1 DEF StepRecords, Codes
  <2> HIDE DEF c
  <2>4. d \in StepRecords /\ d.phase = "told" /\ d.answer = Null
    BY <2>3 DEF StepRecords
  <2> HIDE DEF d
  <2>5. StepRight(k, d)
    BY <2>4 DEF StepRight
  <2> QED
    BY <2>2, <2>5
<1> QED
  BY <1>2, <1>3, <1>4

\* A step sent is right, as one begun is, with nothing of its request left.
LEMMA SentRight ==
    ASSUME NEW k, NEW s, StepRight(k, s), s.phase = "begun", NEW on \in Nat
    PROVE  StepRight(k, [Gone(s) EXCEPT !.phase = "sent", !.sentOn = on])
<1> DEFINE a == [s EXCEPT !.bytes = 0]
           b == [a EXCEPT !.media = {}]
           nothing == <<>>
           g == [b EXCEPT !.offered = nothing]
           d == [g EXCEPT !.phase = "sent", !.sentOn = on]
<1>1. [Gone(s) EXCEPT !.phase = "sent", !.sentOn = on] = d
  BY DEF Gone
<1>2. s \in StepRecords /\ s.answer = Null /\ nothing \in Seq(Entries)
  BY DEF StepRight
<1>3. a \in StepRecords /\ a.answer = Null
  BY <1>2 DEF StepRecords
<1> HIDE DEF a
<1>4. b \in StepRecords /\ b.answer = Null
  BY <1>3 DEF StepRecords
<1> HIDE DEF b, nothing
<1>5. g \in StepRecords /\ g.answer = Null
  BY <1>2, <1>4 DEF StepRecords
<1> HIDE DEF g
<1>6. d \in StepRecords /\ d.answer = Null /\ d.phase = "sent"
  BY <1>5 DEF StepRecords
<1> HIDE DEF d
<1> QED
  BY <1>1, <1>6 DEF StepRight

\* Every step keeps what is so of the steps asked for.
LEMMA StepsStep == InputsInv /\ StepsInv /\ [Next]_allVars => StepsInv'
<1> SUFFICES ASSUME InputsInv, StepsInv, [Next]_allVars PROVE StepsInv'
  OBVIOUS
<1>1. /\ link \in [open : BOOLEAN, number : Nat \ {0}] /\ steps \in Seq(StepRecords)
      /\ link.number \in Nat \ {0}
      /\ \A k \in DOMAIN steps : StepRight(k, steps[k]) /\ steps[k] \in StepRecords /\ k \in Nat
  BY DEF StepsInv
<1>2. UNCHANGED <<steps, link>> => StepsInv'
  BY <1>1 DEF StepsInv
<1>3. ASSUME NEW l, l \in [open : BOOLEAN, number : Nat \ {0}], steps' = steps, link' = l PROVE StepsInv'
  BY <1>1, <1>3 DEF StepsInv
<1>4. ASSUME NEW i \in Inputs, PushCheck(i) \/ PushBrowser(i) PROVE StepsInv'
  BY <1>2, <1>4 DEF PushCheck, PushBrowser, Land
<1>5. CASE PushLand
  BY <1>2, <1>5 DEF PushLand, Land
<1>6. ASSUME NEW t \in Tracks, PauseTrack(t) PROVE StepsInv'
  BY <1>2, <1>6 DEF PauseTrack
<1>7. CASE ClearStepInputs
  BY <1>2, <1>7 DEF ClearStepInputs
<1>8. ASSUME NEW a \in Asks, BeginStep(a) PROVE StepsInv'
  <2> DEFINE code == CheckStep(a)
             s == IF code = "OK" THEN TakeInputs(a) ELSE Failed(a, code)
  <2>1. steps' = Append(steps, s) /\ link' = link
    BY <1>8 DEF BeginStep
  <2>2. code \in {"OK", "DECODE_FAILED", "INVALID_STATE"}
    BY Zenon DEF CheckStep, Parsed, ParseCommands, StepInput, BuildStep
  <2>3. StepRight(Len(steps) + 1, s)
    <3>1. CASE code # "OK"
      <4>1. s = Failed(a, code) /\ code \in Codes /\ code # "output"
        BY <2>2, <3>1 DEF Codes
      <4> QED
        BY <4>1, RefusedRight
    <3>2. CASE code = "OK" /\ Refuses
      <4>1. s = Failed(a, "step_refused")
        BY <3>2 DEF TakeInputs
      <4>2. "step_refused" \in Codes /\ "step_refused" # "output"
        BY DEF Codes
      <4> QED
        BY <4>1, <4>2, RefusedRight
    <3>3. CASE code = "OK" /\ ~Refuses
      <4> DEFINE bytes == NewStep(a).bytes + buffer.bytes
      <4>1. s = [NewStep(a) EXCEPT !.bytes = bytes, !.media = Held, !.offered = log]
        BY <3>3 DEF TakeInputs
      <4>2. bytes \in Int
        <5>1. NewStep(a).bytes = a.bytes /\ a.bytes \in Nat
          BY NewStepFields
        <5>2. buffer.bytes \in Int
          BY DEF InputsInv, BufferInv, Sound, BufferType, Buffers
        <5> QED
          BY <5>1, <5>2
      <4> HIDE DEF bytes, s
      <4> QED
        BY <4>1, <4>2, BegunRight
    <3> QED
      BY <3>1, <3>2, <3>3
  <2> HIDE DEF s
  <2>4. s \in StepRecords
    BY <2>3 DEF StepRight
  <2>5. /\ steps' \in Seq(StepRecords) /\ DOMAIN steps' = 1..(Len(steps) + 1)
        /\ steps'[Len(steps) + 1] = s /\ \A k \in 1..Len(steps) : steps'[k] = steps[k]
    BY <1>1, <2>1, <2>4, AppendProperties
  <2>6. ASSUME NEW k \in DOMAIN steps' PROVE StepRight(k, steps'[k])
    <3>1. k \in 1..Len(steps) \/ k = Len(steps) + 1
      BY <1>1, <2>5
    <3> QED
      BY <1>1, <2>3, <2>5, <3>1
  <2> QED
    BY <1>1, <2>1, <2>5, <2>6 DEF StepsInv
<1>9. ASSUME NEW k \in DOMAIN steps, SendStep(k) PROVE StepsInv'
  <2> DEFINE s == steps[k]
  <2>1. StepRight(k, s) /\ s.phase = "begun" /\ link' = link
    BY <1>1, <1>9 DEF SendStep, OnlyAStep
  <2>2. ~s.ran /\ s.sentOn = 0
    BY <2>1 DEF StepRight
  <2>3. ASSUME NEW code \in Codes, code # "output", Update(k, Decided(s, code)) PROVE StepsInv'
    <3>1. StepRight(k, Decided(s, code))
      BY <2>1, <2>2, <2>3, FailedRight
    <3> QED
      BY <2>1, <2>3, <3>1, UpdateKeeps
  <2>4. ASSUME Update(k, [Gone(s) EXCEPT !.phase = "sent", !.sentOn = link.number]) PROVE StepsInv'
    <3>1. StepRight(k, [Gone(s) EXCEPT !.phase = "sent", !.sentOn = link.number])
      BY <1>1, <2>1, SentRight
    <3> QED
      BY <2>1, <2>4, <3>1, UpdateKeeps
  <2>5. \/ Update(k, [Gone(s) EXCEPT !.phase = "sent", !.sentOn = link.number])
        \/ \E code \in {"MESSAGE_TOO_LARGE"} \union ClosedCodes \union ChannelRefusals :
             Update(k, Decided(s, code))
    BY <1>9 DEF SendStep
  <2>6. \A code \in {"MESSAGE_TOO_LARGE"} \union ClosedCodes \union ChannelRefusals :
          code \in Codes /\ code # "output"
    BY DEF ClosedCodes, ChannelRefusals, Codes
  <2> QED
    BY <2>3, <2>4, <2>5, <2>6
<1>10. ASSUME NEW k \in DOMAIN steps, RuntimeRuns(k) PROVE StepsInv'
  <2>1. StepRight(k, [steps[k] EXCEPT !.ran = TRUE])
    BY <1>1, <1>10, MarkedRight DEF RuntimeRuns
  <2> QED
    BY <1>10, <2>1, UpdateKeeps DEF RuntimeRuns, OnlyAStep
<1>11. ASSUME NEW k \in DOMAIN steps, NEW r \in Replies, StepReply(k, r) PROVE StepsInv'
  <2> DEFINE s == [steps[k] EXCEPT !.answered = TRUE]
             seen == [steps EXCEPT ![k].answered = TRUE]
  <2>1. /\ steps[k].sentOn # 0 /\ steps[k].ran = r.ran /\ link' = link
        /\ steps' = IF seen[k].phase = "sent" THEN [seen EXCEPT ![k] = Answered(@, r, k)] ELSE seen
    BY <1>1, <1>11 DEF StepReply, Resolves, OnlyAStep
  <2>2. steps[k].phase # "begun"
    BY <1>1, <2>1 DEF StepRight
  <2>3. StepRight(k, s)
    BY <1>1, <2>2, MarkedRight
  <2>4. s.ran = r.ran /\ s.answered /\ k \in Nat
    BY <1>1, <2>1 DEF StepRecords
  <2>5. seen = [steps EXCEPT ![k] = s] /\ seen[k] = s
    BY <1>1
  <2> HIDE DEF s, seen
  <2>6. CASE s.phase = "sent"
    <3>1. StepRight(k, Answered(s, r, k))
      BY <2>3, <2>4, <2>6, AnsweredRight
    <3>2. steps' = [seen EXCEPT ![k] = Answered(s, r, k)]
      BY <2>1, <2>5, <2>6
    <3>3. steps' = [steps EXCEPT ![k] = Answered(s, r, k)]
      BY <1>1, <2>5, <3>2
    <3> QED
      BY <2>1, <3>1, <3>3, UpdateKeeps DEF Update
  <2>7. CASE s.phase # "sent"
    <3>1. steps' = [steps EXCEPT ![k] = s]
      BY <2>1, <2>5, <2>7
    <3> QED
      BY <2>1, <2>3, <3>1, UpdateKeeps DEF Update
  <2> QED
    BY <2>6, <2>7
<1>12. ASSUME NEW k \in DOMAIN steps, StepTimeout(k) PROVE StepsInv'
  <2>1. /\ steps[k].phase = "sent" /\ Update(k, Decided(steps[k], "REQUEST_TIMEOUT")) /\ link' = link
    BY <1>12 DEF StepTimeout, OnlyAStep
  <2>2. "REQUEST_TIMEOUT" \in Codes /\ "REQUEST_TIMEOUT" # "output" /\ "REQUEST_TIMEOUT" \notin NotRun
    BY DEF NotRun, Codes
  <2>3. StepRight(k, Decided(steps[k], "REQUEST_TIMEOUT"))
    BY <1>1, <2>1, <2>2, FailedRight
  <2> QED
    BY <2>1, <2>3, UpdateKeeps
<1>13. ASSUME NEW k \in DOMAIN steps, TellStep(k) PROVE StepsInv'
  <2>1. StepRight(k, [steps[k] EXCEPT !.phase = "told", !.outcome = "none", !.answer = Null])
    BY <1>1, <1>13, MarkedRight DEF TellStep
  <2> QED
    BY <1>13, <2>1, UpdateKeeps DEF TellStep, OnlyAStep
<1>14. CASE Answering
  BY <1>9, <1>10, <1>11, <1>12, <1>13, <1>14 DEF Answering
<1>15. ASSUME NEW recoverable \in BOOLEAN, FailAll(recoverable) PROVE StepsInv'
  <2> DEFINE N == Len(steps)
             after(k) == IF steps[k].phase = "sent" THEN Decided(steps[k], "DISCONNECTED") ELSE steps[k]
  <2>1. steps' = [k \in 1..N |-> after(k)] /\ N \in Nat /\ link' = link /\ DOMAIN steps = 1..N
    BY <1>1, <1>15 DEF FailAll
  <2>2. "DISCONNECTED" \in Codes /\ "DISCONNECTED" # "output" /\ "DISCONNECTED" \notin NotRun
    BY DEF NotRun, Codes
  <2>3. ASSUME NEW k \in 1..N PROVE StepRight(k, after(k)) /\ after(k) \in StepRecords
    <3>1. CASE steps[k].phase = "sent"
      <4>1. StepRight(k, Decided(steps[k], "DISCONNECTED"))
        BY <1>1, <2>1, <2>2, <3>1, FailedRight
      <4> QED
        BY <3>1, <4>1 DEF StepRight
    <3>2. CASE steps[k].phase # "sent"
      BY <1>1, <2>1, <3>2
    <3> QED
      BY <3>1, <3>2
  <2> HIDE DEF after
  <2>4. steps' \in Seq(StepRecords) /\ DOMAIN steps' = 1..N
    BY <2>1, <2>3
  <2>5. \A k \in DOMAIN steps' : StepRight(k, steps'[k])
    BY <2>1, <2>3, <2>4
  <2> QED
    BY <1>1, <2>1, <2>4, <2>5 DEF StepsInv
<1>16. CASE ClosePeer
  <2>1. steps' = steps /\ link' = [link EXCEPT !.open = FALSE]
    BY <1>16 DEF ClosePeer
  <2>2. [link EXCEPT !.open = FALSE] \in [open : BOOLEAN, number : Nat \ {0}]
    BY <1>1
  <2> QED
    BY <1>3, <2>1, <2>2
<1>17. CASE ClearState \/ EndTeardown
  BY <1>2, <1>17 DEF ClearState, EndTeardown
<1>18. CASE Connect
  <2>1. steps' = steps /\ link' = [open |-> TRUE, number |-> link.number + 1]
    BY <1>18 DEF Connect
  <2>2. [open |-> TRUE, number |-> link.number + 1] \in [open : BOOLEAN, number : Nat \ {0}]
    <3>1. link.number + 1 \in Nat \ {0}
      BY <1>1
    <3> QED
      BY <3>1
  <2> QED
    BY <1>3, <2>1, <2>2
<1>19. CASE UNCHANGED allVars
  BY <1>2, <1>19 DEF allVars, exchangeVars
<1> QED
  BY <1>4, <1>5, <1>6, <1>7, <1>8, <1>14, <1>15, <1>16, <1>17, <1>18, <1>19 DEF Next

----------------------------------------------------------------------------
(* The properties.                                                         *)

\* The invariant holds of a session as it starts, its buffer empty and no step asked for.
LEMMA StartRight == StartExchange => IInv
<1> SUFFICES ASSUME StartExchange PROVE IInv
  OBVIOUS
<1>1. /\ buffer = Empty /\ pushed = <<>> /\ limits = <<>> /\ entered = [t \in Tracks |-> 0] /\ budget \in Budgets
      /\ session = [current |-> 1, made |-> 1, ended |-> {}, ready |-> TRUE]
      /\ link = [open |-> TRUE, number |-> 1]
      /\ ending = [at |-> "none", recoverable |-> FALSE]
      /\ landing = Null /\ log = <<>> /\ steps = <<>>
  BY DEF StartExchange, Init, NotEnding
<1>2. BufferInv
  BY <1>1, EmptySound DEF BufferInv
<1>3. DOMAIN log = {} /\ log \in Seq(Entries)
  BY <1>1
<1>4. LogInv
  <2>1. /\ pushed = [n \in DOMAIN log |-> log[n].frame]
        /\ limits = [n \in DOMAIN log |-> log[n].max]
    BY <1>1, <1>3
  <2> QED
    BY <1>3, <2>1 DEF LogInv, Logged
<1>5. LandingInv
  BY <1>1 DEF LandingInv
<1>6. SessionInv
  <2>1. session.current = 1 /\ session.made = 1 /\ session.ended = {} /\ session.ready
    BY <1>1
  <2>2. ending.at = "none"
    BY <1>1
  <2>3. /\ session \in [current : Nat, made : Nat, ended : SUBSET Nat, ready : BOOLEAN]
        /\ ending \in [at : {"none", "failed", "closed", "cleared"}, recoverable : BOOLEAN]
    BY <1>1
  <2> QED
    BY <2>1, <2>2, <2>3 DEF SessionInv
<1>7. StepsInv
  <2>1. link \in [open : BOOLEAN, number : Nat \ {0}]
    BY <1>1
  <2>2. steps \in Seq(StepRecords) /\ DOMAIN steps = {}
    BY <1>1
  <2> QED
    BY <2>1, <2>2 DEF StepsInv
<1> QED
  BY <1>2, <1>4, <1>5, <1>6, <1>7 DEF IInv, InputsInv

\* A step's frames are as FramesRideOnce says, and so are those in the buffer.
LEMMA RideOnce == IInv => FramesRideOnce
<1> SUFFICES ASSUME IInv PROVE FramesRideOnce
  OBVIOUS
<1>1. \A k \in DOMAIN steps : steps[k].phase = "begun" => Carries(steps[k].media, steps[k].offered)
  BY DEF IInv, StepsInv, StepRight
<1>2. Carries(Held, log)
  BY HeldCarries DEF IInv, InputsInv, BufferInv, LogInv
<1>3. \A n \in DOMAIN log : log[n].session \in session.ended => log[n].torn
  BY DEF IInv, InputsInv, LogInv
<1> QED
  BY <1>1, <1>2, <1>3 DEF FramesRideOnce

\* What the host reads of an output is whole, on either host.
LEMMA OutputRead ==
    ASSUME NEW s, s.outcome = "output", s.answer \in Outputs, Outcome(s.answer.result) = "OK"
    PROVE  ReadWhole(Read(s), s.answer.result)
<1> DEFINE r == s.answer.result
<1>1. r \in Replies
  BY DEF Outputs
<1>2. r # Null /\ DecodeResult(r) = "OK"
  BY <1>1, ReplyParts, PartsPresent, OutcomeRight
<1> HIDE DEF r
<1>3. CASE Native
  <2>1. Read(s) = ReadNatively(ReactorStepResult(r))
    BY <1>2, <1>3, Zenon DEF Read, Optional, r
  <2> QED
    BY <1>1, <1>3, <2>1, NativeWhole DEF r
<1>4. CASE ~Native
  <2>1. Read(s) = OutputToJs(r)
    BY <1>2, <1>4, Zenon DEF Read, Optional, r
  <2> QED
    BY <1>1, <1>2, <1>4, <2>1, BrowserWhole DEF r
<1> QED
  BY <1>3, <1>4

\* A native host reads nothing of a failed step: its counts are zero.
LEMMA FailureRead ==
    ASSUME NEW s, s.outcome # "output", Native
    PROVE  Read(s).tracks = <<>> /\ Read(s).step = 0
<1>1. Read(s) = ReadNatively(Null)
  BY Zenon DEF Read, Optional
<1>2. /\ ReadNatively(Null).step = reactor_step_result_step(Null)
      /\ DOMAIN ReadNatively(Null).tracks = 1..reactor_step_result_track_count(Null)
      /\ ReadNatively(Null).tracks = [i \in 1..reactor_step_result_track_count(Null) |-> ReadNatively(Null).tracks[i]]
  BY DEF ReadNatively
<1>3. reactor_step_result_step(Null) = 0 /\ reactor_step_result_track_count(Null) = 0
  BY DEF reactor_step_result_step, reactor_step_result_track_count, Field
<1>4. 1..0 = {}
  OBVIOUS
<1> QED
  BY <1>1, <1>2, <1>3, <1>4

\* What the host is told is what became of the step.
LEMMA ToldRight == IInv => OutcomeTold
<1> SUFFICES ASSUME IInv, NEW k \in DOMAIN steps, steps[k].phase = "decided"
             PROVE  LET s == steps[k] IN
                      /\ s.answer # Null => s.answer.of = k
                      /\ s.outcome = "output" =>
                           s.answer # Null /\ s.ran /\ ReadWhole(Read(s), s.answer.result)
                      /\ s.outcome \in NotRun /\ s.ran =>
                           /\ s.answer # Null /\ s.answer.result.payload = "error"
                           /\ s.answer.result.code = s.outcome
                      /\ s.outcome # "output" /\ Native => Read(s).tracks = <<>> /\ Read(s).step = 0
  BY Zenon DEF OutcomeTold
<1> DEFINE s == steps[k]
<1>1. /\ s.answer # Null => s.answer \in Outputs /\ s.answer.of = k
      /\ s.outcome = "output" => s.ran /\ s.answer # Null /\ Outcome(s.answer.result) = "OK"
      /\ s.outcome \in NotRun => ToldError(s) \/ ~s.ran
  BY DEF IInv, StepsInv, StepRight
<1> HIDE DEF s
<1>2. s.outcome = "output" => s.answer # Null /\ s.ran /\ ReadWhole(Read(s), s.answer.result)
  BY <1>1, OutputRead
<1>3. s.outcome # "output" /\ Native => Read(s).tracks = <<>> /\ Read(s).step = 0
  BY FailureRead
<1>4. s.outcome \in NotRun /\ s.ran =>
        /\ s.answer # Null /\ s.answer.result.payload = "error"
        /\ s.answer.result.code = s.outcome
  BY <1>1 DEF ToldError
<1> QED
  BY <1>1, <1>2, <1>3, <1>4, Zenon DEF s

\* The invariant holds throughout: of the buffer against the frames pushed, of the
\* frames pushed against the sessions, and of each step against what became of it.
THEOREM Invariance == Spec => []IInv
<1>1. IInv /\ [Next]_allVars => IInv'
  BY InputsStep, StepsStep DEF IInv
<1> QED
  BY <1>1, StartRight, PTL DEF Spec

\* A step takes the newest frames, as many as the budgets at the pushes leave and no
\* fewer, each under its own track, or is refused because a stream among them was cut,
\* whatever was pushed, paused and dropped and whichever connections came and went.
THEOREM TakesTheNewest == Spec => []TakesNewestOrRefuses
<1>1. IInv => TakesNewestOrRefuses
  BY SoundTakes DEF IInv, InputsInv, BufferInv
<1> QED
  BY <1>1, Invariance, PTL

\* A frame rides the first step begun after it and no other, and none once its session
\* was ended, whichever pushes, steps, clears and teardowns crossed.
THEOREM RidesOnce == Spec => []FramesRideOnce
BY Invariance, RideOnce, PTL

\* What the host is told of a step is what became of it, save a code the runtime itself
\* answered with an Error; and what it reads of an output is all that the runtime sent,
\* in the browser its integers up to 2^53.
THEOREM TellsWhatBecame == Spec => []OutcomeTold
BY Invariance, ToldRight, PTL
=============================================================================
