----------------------------- MODULE StepInputs -----------------------------
(***************************************************************************)
(* The input frames an app pushes between two steps of a stepped session:  *)
(* Buffered, held to one message's worth by pushing out the oldest frames  *)
(* whatever their track, and taken whole or refused by the next step.      *)
(*                                                                         *)
(* A frame is the number of its push since the buffer was last emptied;    *)
(* `pushed` says what it was.  Its size is what it costs inside its        *)
(* TrackFrames (frame_bytes), never 0; TrackBytes is track_bytes.          *)
(* push(), take() and clear() each hold the buffer's lock throughout, so   *)
(* each is one action.                                                     *)
(***************************************************************************)
EXTENDS Naturals, Sequences, FiniteSets, SequencesExt

CONSTANTS
    Tracks,      \* track names
    TrackBytes,  \* what a track's entry costs, before its frames
    Budgets,     \* what a message can carry besides its envelope
    MaxPushes    \* bound: frames pushed between two takes

ASSUME BudgetsAssumption == Budgets \subseteq Nat /\ TrackBytes \in Nat /\ MaxPushes \in Nat

VARIABLES
    buffer,   \* Buffered: tracks, order, bytes and cut_encoded
    pushed,   \* every frame pushed since the buffer was emptied, in order
    limits,   \* history: the budget each of them was held to
    entered,  \* the push with which each track last came into the buffer
    budget    \* what the transport says a message carries, less the envelope

vars == <<buffer, pushed, limits, entered, budget>>

Frames == [track : Tracks, encoded : BOOLEAN, size : Nat \ {0}]
Empty == [tracks |-> <<>>, order |-> <<>>, bytes |-> 0, cut |-> {}]

Init ==
    /\ buffer = Empty
    /\ pushed = <<>>
    /\ limits = <<>>
    /\ entered = [t \in Tracks |-> 0]
    /\ budget \in Budgets

Holds(b, t) == \E i \in DOMAIN b.tracks : b.tracks[i].track = t
Position(b, t) == CHOOSE i \in DOMAIN b.tracks : b.tracks[i].track = t

----------------------------------------------------------------------------
\* Buffered::add, of push n.
Add(b, frame, n) ==
    LET known == Holds(b, frame.track)
        opened == IF known THEN b.tracks
                  ELSE Append(b.tracks, [track |-> frame.track, frames |-> <<>>])
        index == IF known THEN Position(b, frame.track) ELSE Len(opened)
    IN [b EXCEPT !.tracks = [opened EXCEPT ![index].frames = Append(@, n)],
                 !.order = Append(@, index),
                 !.bytes = @ + frame.size + (IF known THEN 0 ELSE TrackBytes)]

\* Mutant: positions are not moved down when a track goes.
Unshifted(order, index) == order
\* The tracks behind a removed one move down.
Shifted(order, index) == [j \in DOMAIN order |-> IF order[j] > index THEN order[j] - 1 ELSE order[j]]

CutWithout(cut, t) == cut \ {t}

\* What the end of a track gives back.
Freed(last) == IF last THEN TrackBytes ELSE 0

\* One turn of the loop of Buffered::trim; all are the frames pushed.
PushOut(b, all) ==
    LET index == Head(b.order)
        oldest == b.tracks[index]
        frame == all[Head(oldest.frames)]
        last == Len(oldest.frames) = 1
        cut == IF frame.encoded THEN b.cut \cup {oldest.track} ELSE b.cut
    IN [tracks |-> IF last THEN RemoveAt(b.tracks, index)
                   ELSE [b.tracks EXCEPT ![index].frames = Tail(@)],
        order |-> IF last THEN Shifted(Tail(b.order), index) ELSE Tail(b.order),
        bytes |-> b.bytes - frame.size - Freed(last),
        cut |-> IF last THEN CutWithout(cut, oldest.track) ELSE cut]

\* Buffered::trim: the oldest frames go until the rest fits; the newest stays.
Trim(b, all, max) ==
    LET after[n \in 0..(Len(b.order) - 1)] ==
          IF n = 0 THEN b
          ELSE IF after[n - 1].bytes > max THEN PushOut(after[n - 1], all)
          ELSE after[n - 1]
    IN after[Len(b.order) - 1]

Push(frame) ==
    /\ Len(pushed) < MaxPushes
    /\ pushed' = Append(pushed, frame)
    /\ limits' = Append(limits, budget)
    /\ buffer' = Trim(Add(buffer, frame, Len(pushed')), pushed', budget)
    /\ entered' = IF Holds(buffer, frame.track) THEN entered
                  ELSE [entered EXCEPT ![frame.track] = Len(pushed')]
    /\ UNCHANGED budget

HasEncoded(track) == \E j \in DOMAIN track.frames : pushed[track.frames[j]].encoded
\* take() refuses the step: what is left of a cut stream does not decode.
Refuses == \E i \in DOMAIN buffer.tracks :
    buffer.tracks[i].track \in buffer.cut /\ HasEncoded(buffer.tracks[i])

\* take(), whether it refuses or not, and clear() leave the buffer empty.
Take ==
    /\ buffer' = Empty
    /\ pushed' = <<>>
    /\ limits' = <<>>
    /\ entered' = [t \in Tracks |-> 0]
    /\ UNCHANGED budget

----------------------------------------------------------------------------
(* Properties.                                                             *)

\* The frame the j-th entry of `order` stands for: its track's next one.
Entry(j) ==
    LET index == buffer.order[j]
        nth == Cardinality({i \in 1..j : buffer.order[i] = index})
    IN buffer.tracks[index].frames[nth]

\* What the first n of these frames cost, whatever their tracks, for each n.
Spent(all) ==
    LET first[n \in 0..Len(all)] == IF n = 0 THEN 0 ELSE first[n - 1] + all[n].size
    IN first
\* What the newest k pushes cost in a message.
Cost(all, k) ==
    Spent(all)[Len(all)] - Spent(all)[Len(all) - k]
      + TrackBytes * Cardinality({all[n].track : n \in (Len(all) - k + 1)..Len(all)})

\* Whatever was pushed out and whichever tracks came and went, what is buffered is
\* the newest pushes, each under its own track and in push order, no track is kept
\* without frames (`order` never points at another track), and `bytes`, which decides
\* what is pushed out, is exactly what they cost in a message.
HoldsTheNewest ==
    LET kept == Len(buffer.order) IN
    /\ kept <= Len(pushed)
    /\ \A i \in DOMAIN buffer.tracks :
         /\ buffer.tracks[i].frames # <<>>
         /\ Len(buffer.tracks[i].frames) = Cardinality({j \in 1..kept : buffer.order[j] = i})
    /\ buffer.bytes = Cost(pushed, kept)
    /\ \A j \in 1..kept :
         /\ buffer.order[j] \in DOMAIN buffer.tracks
         /\ Entry(j) = Len(pushed) - kept + j
         /\ buffer.tracks[buffer.order[j]].track = pushed[Entry(j)].track

\* A step is refused exactly when some track has encoded frames left and has lost
\* one since it last came into the buffer: a stream is sent whole or not at all,
\* and a stream begun after its track had gone is not refused for the old one.
Lost(track) == \E n \in entered[track.track]..Len(pushed) :
    /\ pushed[n].track = track.track /\ pushed[n].encoded
    /\ ~\E j \in DOMAIN track.frames : track.frames[j] = n
RefusesCutStreams ==
    Refuses <=> \E i \in DOMAIN buffer.tracks :
        HasEncoded(buffer.tracks[i]) /\ Lost(buffer.tracks[i])

\* The budget is what pushes frames out, and nothing else does: after a push the
\* buffer fits what a message could carry at that push, or holds the newest frame
\* alone; and the youngest frame pushed out had to go, as at some push after it the
\* frames from it on were more than a message could carry.
HeldToTheBudget ==
    LET kept == Len(buffer.order)
        gone == Len(pushed) - kept IN
    /\ pushed # <<>> => kept > 0
    /\ kept > 1 => buffer.bytes <= limits[Len(pushed)]
    /\ gone > 0 => \E n \in (gone + 1)..Len(pushed) :
         Cost(SubSeq(pushed, 1, n), n - gone + 1) > limits[n]

\* What take() gives a step: the newest frames, as many as the budget leaves and no
\* fewer, each under its own track, or a refusal because a stream among them was cut.
TakesNewestOrRefuses == HoldsTheNewest /\ HeldToTheBudget /\ RefusesCutStreams
=============================================================================
