---------------------------- MODULE ReplayEngine ----------------------------
(***************************************************************************)
(* Engine.run over a source that is not live: events are pulled one by     *)
(* one, pass through the reordering window (when there is a grace) and are *)
(* handled; at the end of the source the window is flushed and what is     *)
(* still undecided may be reported.                                        *)
(***************************************************************************)
EXTENDS EngineMeaning

CONSTANTS MayFollow(_, _, _),  \* MayFollow(buffered, arrived, e): the source
                               \* can yield e next
          MaxArrivals       \* bound on the events the source yields

VARIABLES buffered, \* the engine has a grace, and so a reordering window
          buffer,   \* the ReorderBuffer; unused without a grace
          batch,    \* events released and not handled yet
          eng,      \* the engine value
          phase,    \* "pulling", "flushed", "reported" or "returned"
          arrived,  \* history: the events the source yielded
          handled,  \* history: the usable events handled
          cuts      \* history: where an id was reclaimed

vars == <<buffered, buffer, batch, eng, phase, arrived, handled, cuts>>

Init ==
  /\ buffered \in BOOLEAN
  /\ buffer = EmptyBuffer
  /\ batch = <<>>
  /\ eng = EmptyEngine
  /\ phase = "pulling"
  /\ arrived = <<>>
  /\ handled = <<>>
  /\ cuts = [id \in Id |-> {}]

Pull(e) ==
  /\ phase = "pulling" /\ batch = <<>>
  /\ Len(arrived) < MaxArrivals /\ MayFollow(buffered, arrived, e)
  /\ arrived' = Append(arrived, e)
  /\ IF buffered
     THEN /\ buffer' = AfterReleasable(Push(buffer, e))
          /\ batch' = Events(Releasable(Push(buffer, e)))
     ELSE batch' = <<e>> /\ UNCHANGED buffer
  /\ UNCHANGED <<buffered, eng, phase, handled, cuts>>

HandleNext ==
  LET e == Head(batch) IN
  /\ batch # <<>>
  /\ batch' = Tail(batch)
  /\ eng' = HandleEvent(eng, e)
  /\ IF UsableTime(e.time)
     THEN /\ handled' = Append(handled, e)
          /\ cuts' = [id \in Id |->
                        IF id \in Quiescent(FireDueDeadlines(eng, e.time), e.time)
                        THEN cuts[id] \cup {Len(handled) + 1} ELSE cuts[id]]
     ELSE UNCHANGED <<handled, cuts>>
  /\ UNCHANGED <<buffered, buffer, phase, arrived>>

EndOfSource ==
  /\ phase = "pulling" /\ batch = <<>>
  /\ phase' = "flushed"
  /\ IF buffered
     THEN buffer' = AfterFlush(buffer) /\ batch' = Events(Flush(buffer))
     ELSE UNCHANGED <<buffer, batch>>
  /\ UNCHANGED <<buffered, eng, arrived, handled, cuts>>

Return(emitPending) ==
  /\ phase = "flushed" /\ batch = <<>>
  /\ IF emitPending THEN phase' = "reported" /\ eng' = EmitPending(eng)
     ELSE phase' = "returned" /\ UNCHANGED eng
  /\ UNCHANGED <<buffered, buffer, batch, arrived, handled, cuts>>

Next ==
  \/ \E e \in Event : Pull(e)
  \/ HandleNext
  \/ EndOfSource
  \/ \E emitPending \in BOOLEAN : Return(emitPending)

Spec == Init /\ [][Next]_vars

-----------------------------------------------------------------------------
(* The verdicts of every id are, lifetime after lifetime, those the        *)
(* operators define over its trace (SEMANTICS.md, "Terminal retirement and *)
(* quiescence reclamation"): same verdict, same event time, same evidence. *)
(* Stale timers of a retired lifetime, a key used again, another key's     *)
(* event moving the clock and a raising predicate change nothing.          *)
VerdictsAreMeaning ==
  \A id \in Id :
    LET promised == Promised(handled, id, cuts[id])
        pending  == StillPending(handled, id, cuts[id])
    IN IF phase # "reported" \/ pending = {} THEN eng.verdicts[id] = promised
       ELSE LET v == eng.verdicts[id][Len(promised) + 1]
            IN /\ eng.verdicts[id] = Append(promised, v)
               /\ v.verdict = "pending" /\ v.at = handled[Latest(pending)].time

(* The reordering contract end to end (SEMANTICS.md, "The late-event       *)
(* regime"): what is handled is the admitted events in canonical order,    *)
(* where an event is admitted unless an earlier arrival is newer by more   *)
(* than the grace.  Without a grace it is the usable events as they came.  *)
(* All the others are flagged.                                             *)
Admitted == {i \in DOMAIN arrived :
               /\ UsableTime(arrived[i].time)
               /\ \A j \in 1 .. i - 1 : UsableTime(arrived[j].time) =>
                    arrived[j].time <= arrived[i].time + Grace}
ByArrival(I) == {Entry(arrived[i], i) : i \in I}

Usable == {i \in DOMAIN arrived : UsableTime(arrived[i].time)}
HandledIsAdmitted ==
  phase # "pulling" /\ batch = <<>> =>
    /\ IF buffered THEN handled = Events(InOrder(ByArrival(Admitted)))
       ELSE /\ Len(handled) = Cardinality(Usable)
            /\ \A i \in Usable : handled[Cardinality({j \in Usable : j <= i})] = arrived[i]
    /\ Len(buffer.late \o buffer.invalid \o eng.invalid) = Len(arrived) - Len(handled)

(* No id is reclaimed while an event of its lifetime is younger than TTL.  *)
NoEarlyReclaim ==
  \A id \in Id : \A c \in cuts[id] : \A i \in 1 .. c - 1 :
    Concerns(handled[i], id) => handled[c].time - handled[i].time >= TTL

(* Reclamation is as lazy as documented and no lazier (SEMANTICS.md,       *)
(* "Quiescence reclamation"): an instance the last event did not touch and *)
(* that outlived its TTL by then is one whose own last event decided it,   *)
(* and so left no timer.                                                   *)
Now == handled[Len(handled)].time
LingererIsDecided ==
  TTL # None /\ handled # <<>> => \A id \in Id :
    LET i == eng.instances[id] IN
    i # None /\ i.last < Now /\ Now - i.last >= TTL =>
      /\ i.monitor.settled
      /\ eng.verdicts[id][Len(eng.verdicts[id])].at = i.last
=============================================================================
