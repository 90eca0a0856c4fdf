--------------------------- MODULE ReorderBuffer ---------------------------
(***************************************************************************)
(* behave_rv.events.watermark: the reordering window, as operators on a    *)
(* buffer value, so that every component that owns one (the replay loop,   *)
(* the live loop) uses the same definitions.                               *)
(*                                                                         *)
(* Event times are floats, a discrete ordered set: they are modelled by    *)
(* integers, and math.nextafter(t, inf) by t + 1.  -inf and +inf are two   *)
(* integers outside the range of every time the program computes; a value  *)
(* that is not a finite number is the value Unusable.                      *)
(***************************************************************************)
EXTENDS Integers, Sequences, FiniteSets

CONSTANTS Grace,    \* the grace window
          NegInf,   \* -inf
          PosInf,   \* +inf
          Unusable  \* an event_time that is no finite number

ASSUME BufferAssumption ==
  /\ Grace \in Nat
  /\ NegInf \in Int /\ PosInf \in Int /\ NegInf < PosInf
  /\ Unusable \notin Int

(* math.isfinite, with the TypeError turned into False. *)
UsableTime(t) == t # Unusable

(* math.nextafter(t, inf). *)
NextAfter(t) == t + 1

Larger(a, b) == IF a >= b THEN a ELSE b

-----------------------------------------------------------------------------
(* A heap entry is (event_time, tie-break, seq, event).  The tie-break is  *)
(* derived from the content of the event; the field "tie" of an event is   *)
(* the rank of its content among all contents.                             *)

Entry(e, n) == [event |-> e, seq |-> n]

Before(x, y) ==
  \/ x.event.time < y.event.time
  \/ /\ x.event.time = y.event.time
     /\ \/ x.event.tie < y.event.tie
        \/ x.event.tie = y.event.tie /\ x.seq < y.seq

(* How many entries of S are popped before x. *)
Rank(x, S) == Cardinality({y \in S : Before(y, x)})

(* The order in which heappop returns the entries of S. *)
InOrder(S) ==
  [i \in 1 .. Cardinality(S) |-> CHOOSE x \in S : Rank(x, S) = i - 1]

-----------------------------------------------------------------------------
EmptyBuffer ==
  [heap |-> {}, seq |-> 0, maxSeen |-> NegInf, watermark |-> NegInf,
   late |-> <<>>, invalid |-> <<>>]

(* Mutants: the late test off by one; no late test; seq not advanced. *)
PushBoundaryLate(b, e) ==
  IF ~UsableTime(e.time) THEN [b EXCEPT !.invalid = Append(@, e)]
  ELSE IF e.time <= b.watermark THEN [b EXCEPT !.late = Append(@, e)]
  ELSE [b EXCEPT !.heap = @ \cup {Entry(e, b.seq)}, !.seq = @ + 1,
                 !.maxSeen = Larger(@, e.time)]

PushAnything(b, e) ==
  IF ~UsableTime(e.time) THEN [b EXCEPT !.invalid = Append(@, e)]
  ELSE [b EXCEPT !.heap = @ \cup {Entry(e, b.seq)}, !.seq = @ + 1,
                 !.maxSeen = Larger(@, e.time)]

PushSameSeq(b, e) ==
  IF ~UsableTime(e.time) THEN [b EXCEPT !.invalid = Append(@, e)]
  ELSE IF e.time < b.watermark THEN [b EXCEPT !.late = Append(@, e)]
  ELSE [b EXCEPT !.heap = @ \cup {Entry(e, b.seq)}, !.maxSeen = Larger(@, e.time)]

Push(b, e) ==
  IF ~UsableTime(e.time) THEN [b EXCEPT !.invalid = Append(@, e)]
  ELSE IF e.time < b.watermark THEN [b EXCEPT !.late = Append(@, e)]
  ELSE [b EXCEPT !.heap = @ \cup {Entry(e, b.seq)},
                 !.seq = @ + 1,
                 !.maxSeen = Larger(@, e.time)]

AdvanceClock(b, tick) == [b EXCEPT !.maxSeen = Larger(@, tick)]

(* Mutants: release at the watermark; popped entries that stay. *)
RipeAtWatermark(b) == {x \in b.heap : x.event.time <= b.watermark}
NotDrained(b) == b

(* The entries strictly below the watermark, and the buffer without them. *)
Ripe(b) == {x \in b.heap : x.event.time < b.watermark}
Drained(b) == [b EXCEPT !.heap = @ \ Ripe(b)]

(* Mutants: a watermark free to regress; a commit without the ulp. *)
SetWatermark(b) == [b EXCEPT !.watermark = b.maxSeen - Grace]
CommitUpTo(b, moment) == [b EXCEPT !.watermark = Larger(@, moment)]

(* releasable() and release_through(moment) first move the watermark ...   *)
MoveWatermark(b) == [b EXCEPT !.watermark = Larger(@, b.maxSeen - Grace)]
CommitThrough(b, moment) ==
  [b EXCEPT !.watermark = Larger(@, NextAfter(moment))]

(* ... and then pop what is strictly below it. *)
AfterReleasable(b) == Drained(MoveWatermark(b))
Releasable(b) == InOrder(Ripe(MoveWatermark(b)))

AfterReleaseThrough(b, moment) == Drained(CommitThrough(b, moment))
ReleaseThrough(b, moment) == InOrder(Ripe(CommitThrough(b, moment)))

AfterFlush(b) == [b EXCEPT !.heap = {}, !.watermark = PosInf]
Flush(b) == InOrder(b.heap)

(* The event times buffered: peek_oldest() is the least of them. *)
BufferedTimes(b) == {x.event.time : x \in b.heap}
=============================================================================
