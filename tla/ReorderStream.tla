--------------------------- MODULE ReorderStream ---------------------------
(***************************************************************************)
(* One ReorderBuffer and the loop that owns it: every public method of the *)
(* class is an action, called in any order, and the history of what the    *)
(* buffer released is kept.                                                *)
(***************************************************************************)
EXTENDS ReorderBuffer

CONSTANTS Event,    \* the events the source can yield
          Moment,   \* the moments a wall fire commits: finite times
          MaxOffer  \* bound: how many events the source yields

VARIABLES buffer,     \* the ReorderBuffer
          offered,    \* history: number of events pushed
          released,   \* history: entries released, in order
          committed,  \* history: the latest moment released through
          flushed     \* history: flush() was called

vars == <<buffer, offered, released, committed, flushed>>

ASSUME StreamAssumption ==
  /\ \A e \in Event : /\ e.time \in Int \cup {Unusable}
                      /\ e.tie \in Int
                      /\ UsableTime(e.time) => NegInf < e.time - Grace /\ e.time < PosInf
  /\ Moment \subseteq Int
  /\ \A m \in Moment : NegInf < m /\ NextAfter(NextAfter(m + Grace)) < PosInf
  /\ MaxOffer \in Nat

Init ==
  /\ buffer = EmptyBuffer
  /\ offered = 0
  /\ released = <<>>
  /\ committed = NegInf
  /\ flushed = FALSE

DoPush(e) ==
  /\ offered < MaxOffer
  /\ buffer' = Push(buffer, e)
  /\ offered' = offered + 1
  /\ UNCHANGED <<released, committed, flushed>>

DoReleasable ==
  /\ buffer' = AfterReleasable(buffer)
  /\ released' = released \o Releasable(buffer)
  /\ UNCHANGED <<offered, committed, flushed>>

(* A wall fire: advance_clock(tick), then release_through(due). *)
DoWallFire(m) ==
  LET b == AdvanceClock(buffer, NextAfter(m + Grace)) IN
  /\ ~flushed
  /\ buffer' = AfterReleaseThrough(b, m)
  /\ released' = released \o ReleaseThrough(b, m)
  /\ committed' = Larger(committed, m)
  /\ UNCHANGED <<offered, flushed>>

DoFlush ==
  /\ buffer' = AfterFlush(buffer)
  /\ released' = released \o Flush(buffer)
  /\ flushed' = TRUE
  /\ UNCHANGED <<offered, committed>>

Next ==
  \/ \E e \in Event : DoPush(e)
  \/ DoReleasable
  \/ \E m \in Moment : DoWallFire(m)
  \/ DoFlush

Spec == Init /\ [][Next]_vars

-----------------------------------------------------------------------------
(* Type invariant: what the heap holds is usable and was numbered once.    *)
Usable == {e \in Event : UsableTime(e.time)}
Entries == [event : Usable, seq : Nat]
BufferType == [heap : SUBSET Entries, seq : Nat, maxSeen : Int, watermark : Int,
               late : Seq(Usable), invalid : Seq(Event \ Usable)]

TypeOK ==
  /\ buffer \in BufferType
  /\ \A x \in buffer.heap : x.seq < buffer.seq
  /\ \A i \in DOMAIN released : released[i].seq < buffer.seq
  /\ offered \in Nat
  /\ released \in Seq(Entries)
  /\ committed \in Moment \cup {NegInf}
  /\ flushed \in BOOLEAN

(* The ordering contract (watermark.py:100-106): over the whole life of    *)
(* the buffer, across separate releases, wall commits and the final flush, *)
(* events come out by time, then content, then arrival.                    *)
CanonicalOrder ==
  \A i, j \in DOMAIN released : i < j => Before(released[i], released[j])

(* Every event pushed is in exactly one place: released once, still held,  *)
(* flagged late, or recorded invalid.  None is dropped in silence.         *)
ExactlyOnce ==
  /\ offered = buffer.seq + Len(buffer.late) + Len(buffer.invalid)
  /\ \A n \in 0 .. buffer.seq - 1 :
       \/ \E x \in buffer.heap : x.seq = n
       \/ \E i \in DOMAIN released : released[i].seq = n
  /\ \A x \in buffer.heap, i \in DOMAIN released : x.seq # released[i].seq
  /\ \A x, y \in buffer.heap : x.seq = y.seq => x = y
  /\ \A i, j \in DOMAIN released : released[i].seq = released[j].seq => i = j

(* The grace is honoured: an event is flagged late only if some admitted   *)
(* event is more than the grace newer, or a wall fire committed a moment   *)
(* at or after it, or the stream had ended.                                *)
AdmittedFrom(t) ==
  \/ \E x \in buffer.heap : t <= x.event.time
  \/ \E i \in DOMAIN released : t <= released[i].event.time
GraceHonoured ==
  \A k \in DOMAIN buffer.late :
    \/ AdmittedFrom(NextAfter(buffer.late[k].time + Grace))
    \/ buffer.late[k].time <= committed
    \/ flushed

(* Nothing the watermark has passed is still held back: the watermark is   *)
(* "event time up to which the stream has been released" (watermark.py:40) *)
NothingRipeHeld == \A x \in buffer.heap : buffer.watermark <= x.event.time

(* A wall commit is complete: what lies at or before a committed moment    *)
(* has been released (otherwise the live loop wakes for it forever,        *)
(* watermark.py:124-129).                                                  *)
CommitIsComplete == \A x \in buffer.heap : committed < x.event.time

(* The watermark never regresses, not even across a wall commit.           *)
WatermarkNeverRegresses == [][buffer'.watermark >= buffer.watermark]_vars

(* The buffer implements the canonical stream.                             *)
Promise == INSTANCE CanonicalStream WITH
  held <- buffer.heap, accepted <- buffer.seq,
  refused <- Len(buffer.late) + Len(buffer.invalid), delivered <- released
ImplementsCanonicalStream == Promise!Spec
=============================================================================
