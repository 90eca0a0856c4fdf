----------------------------- MODULE LiveEngine -----------------------------
(***************************************************************************)
(* Engine._run_live over a QueueSource: other threads push events and      *)
(* close the queue, wall time passes, and the engine's thread takes the    *)
(* next item or, when none comes in time, fires on the wall clock.  One    *)
(* iteration of the loop is one step: only the queue and the wall clock    *)
(* move while it runs.                                                     *)
(*                                                                         *)
(* Event times and wall time are multiples of Unit, larger than an ulp.    *)
(***************************************************************************)
EXTENDS EngineMeaning

CONSTANTS Delays,       \* how late an event may be pushed, in wall time
          Unit,         \* the step of the wall clock
          LastPush,     \* bound: wall time of the last push
          MaxWall,      \* bound: wall time of the last tick
          MaxArrivals,  \* bound: events pushed
          CLOSED        \* the sentinel

ASSUME LiveAssumption == Unit \in Nat \ {0, 1} /\ MaxArrivals \in Nat

VARIABLES queue,    \* the queue.Queue: events and the sentinel
          closed,   \* QueueSource._closed
          wall,     \* monotonic()
          buffer,   \* the ReorderBuffer; unused without a grace
          eng,      \* the engine value
          front,    \* highest admitted event time, or tick
          anchor,   \* wall instant when front last advanced, or None
          running,  \* the loop has not returned
          arrived,  \* history: number of events pushed
          handled   \* history: the usable events handled

sourceVars == <<queue, closed, arrived>>
engineVars == <<buffer, eng, front, anchor, running, handled>>
vars == <<sourceVars, wall, engineVars>>

Buffered == Grace > 0

(* Step taken for one event after the other, from the value e. *)
InSequence(Step(_, _), e, events) ==
  LET after[n \in 0 .. Len(events)] ==
        IF n = 0 THEN e ELSE Step(after[n - 1], events[n])
  IN after[Len(events)]

(* The events handled one after the other. *)
HandleAll(e, events) == InSequence(HandleEvent, e, events)

Init ==
  /\ queue = <<>> /\ closed = FALSE /\ arrived = 0
  /\ wall = 0
  /\ buffer = EmptyBuffer /\ eng = EmptyEngine
  /\ front = NegInf /\ anchor = None
  /\ running = TRUE /\ handled = <<>>

-----------------------------------------------------------------------------
(* The service: an event is pushed when it happens or some delay later;    *)
(* one without a usable time at any moment.                                *)
Push1(e) ==
  /\ ~closed /\ arrived < MaxArrivals
  /\ wall <= LastPush
  /\ UsableTime(e.time) => wall - e.time \in Delays
  /\ queue' = Append(queue, e)
  /\ arrived' = arrived + 1
  /\ UNCHANGED <<closed, wall, engineVars>>

Close ==
  /\ ~closed
  /\ closed' = TRUE
  /\ queue' = Append(queue, CLOSED)
  /\ UNCHANGED <<arrived, wall, engineVars>>

(* Mutant: the loop waits for deadlines only.                              *)
DeadlineMoments(b, e) == {t.when : t \in e.deadlines}

(* What the loop waits for: armed deadlines and buffered events.           *)
Moments(b, e) ==
  {t.when : t \in e.deadlines} \cup (IF Buffered THEN BufferedTimes(b) ELSE {})

(* Mutant: the estimate forgets the anchor.                                *)
TimesOutUnanchored ==
  /\ Moments(buffer, eng) # {} /\ anchor # None
  /\ front + wall >= Earliest(Moments(buffer, eng)) + Grace

(* next_event(wait) has waited long enough.                                *)
MayTimeOut ==
  /\ Moments(buffer, eng) # {} /\ anchor # None
  /\ front + (wall - anchor) >= Earliest(Moments(buffer, eng)) + Grace

(* An iteration of the loop can complete.                                  *)
LoopReady == running /\ (queue # <<>> \/ MayTimeOut)

(* Wall time passes, also while the loop is busy; after the last push it   *)
(* waits for the loop, whose being late would only move the anchor.        *)
Tick ==
  /\ wall < MaxWall
  /\ wall > LastPush => ~LoopReady
  /\ wall' = wall + Unit
  /\ UNCHANGED <<sourceVars, engineVars>>

-----------------------------------------------------------------------------
(* front and anchor follow the clock front to t.                           *)
AdvanceFront(t) ==
  IF t > front THEN front' = t /\ anchor' = wall ELSE UNCHANGED <<front, anchor>>

Take ==
  LET item == Head(queue)
      b == Push(buffer, item)
      released == Events(Releasable(b))
  IN
  /\ running /\ queue # <<>> /\ item # CLOSED
  /\ queue' = Tail(queue)
  /\ IF Buffered
     THEN /\ buffer' = AfterReleasable(b)
          /\ AdvanceFront(b.maxSeen)
          /\ eng' = HandleAll(eng, released)
          /\ handled' = handled \o released
     ELSE /\ IF UsableTime(item.time)
             THEN AdvanceFront(item.time) /\ handled' = Append(handled, item)
             ELSE UNCHANGED <<front, anchor, handled>>
          /\ eng' = HandleEvent(eng, item)
          /\ UNCHANGED buffer
  /\ UNCHANGED <<closed, arrived, wall, running>>

(* A wall fire: a virtual clock tick just past the earliest moment plus    *)
(* the grace; what the buffer holds up to that moment is handled, then the *)
(* deadlines the tick has reached fire.                                    *)
WallFire ==
  LET due == Earliest(Moments(buffer, eng))
      tick == NextAfter(due + Grace)
      b == AdvanceClock(buffer, tick)
      released == IF Buffered THEN Events(ReleaseThrough(b, due)) ELSE <<>>
  IN
  /\ running /\ queue = <<>> /\ MayTimeOut
  /\ buffer' = IF Buffered THEN AfterReleaseThrough(b, due) ELSE buffer
  /\ AdvanceFront(tick)
  /\ eng' = FireDueDeadlines(HandleAll(eng, released), tick)
  /\ handled' = handled \o released
  /\ UNCHANGED <<sourceVars, wall, running>>

(* The sentinel: the buffer is flushed and run() returns.                  *)
Finish(emitPending) ==
  LET released == IF Buffered THEN Events(Flush(buffer)) ELSE <<>>
      after == HandleAll(eng, released)
  IN
  /\ running /\ queue # <<>> /\ Head(queue) = CLOSED
  /\ queue' = Tail(queue)
  /\ buffer' = IF Buffered THEN AfterFlush(buffer) ELSE buffer
  /\ eng' = IF emitPending THEN EmitPending(after) ELSE after
  /\ handled' = handled \o released
  /\ running' = FALSE
  /\ UNCHANGED <<closed, arrived, wall, front, anchor>>

Loop == Take \/ WallFire \/ \E emitPending \in BOOLEAN : Finish(emitPending)

Next ==
  \/ \E e \in Event : Push1(e)
  \/ Close
  \/ Tick
  \/ Loop

(* The engine's thread runs and wall time passes; nothing is asked of the  *)
(* service, which may stay silent or never close the queue.  The first     *)
(* conjunct is WF_vars(Loop): LoopReady is ENABLED Loop, and a step of     *)
(* Loop is one that moves neither the service nor the wall clock.          *)
LoopStep == UNCHANGED <<closed, arrived, wall>>
Fairness ==
  /\ []<>~LoopReady \/ []<><<LoopStep>>_vars
  /\ WF_vars(Tick)
Spec == Init /\ [][Next]_vars /\ Fairness

-----------------------------------------------------------------------------
(* The steps that are wall fires: all others move the queue or the clock.  *)
Fires == UNCHANGED <<queue, wall>>

(* A wall fire leaves nothing to wait for at the moment it fired for, so   *)
(* the loop never spins on one moment (watermark.py:124-128).              *)
NoBusySpin ==
  [][Fires => \A m \in Moments(buffer, eng)' : m > Earliest(Moments(buffer, eng))]_vars

(* Wall time decides no untimed verdict and reorders nothing: they are     *)
(* those of the operators over the handled events in canonical order, with *)
(* wall fires and without.                                                 *)
Canonical(s) == Events(InOrder({Entry(s[i], i) : i \in DOMAIN s}))
UntimedAreMeaning ==
  running => \A id \in Id : PolicyOf(id).kind # "within" =>
               eng.verdicts[id] = Promised(Canonical(handled), id, {})

(* A timeout reported by a wall fire (its evidence is the trigger alone,   *)
(* and no terminal event of that time was released by the fire) is dated   *)
(* by the deadline of that trigger, and comes no earlier than the wall     *)
(* estimate of stream time reaches it, give or take an ulp                 *)
(* (SEMANTICS.md:271-274).                                                 *)
Obligation(id) == IF eng.instances[id] = None THEN None
                  ELSE NextDeadline(eng.instances[id].monitor)
EndedBy(at) ==
  \E i \in Len(handled) + 1 .. Len(handled') :
    handled'[i].type \in TerminalTypes /\ handled'[i].time = at
TimeoutIsDue ==
  [][Fires => \A id \in Id :
       PolicyOf(id).kind = "within" /\ eng.verdicts'[id] # eng.verdicts[id] =>
         LET v == eng.verdicts'[id][Len(eng.verdicts'[id])] IN
         Len(v.because) = 1 /\ ~EndedBy(v.at) =>
           /\ v.verdict = "violated"
           /\ v.at = v.because[1].time + PolicyOf(id).seconds
           /\ NextAfter(front + (wall - anchor)) >= v.at]_vars

(* SEMANTICS.md:275-281: a wall fire is a commitment; an event that comes  *)
(* later and is older is flagged late, and verdicts differ from those of   *)
(* the events only through the flagged ones.  So no handled event answers  *)
(* in time an obligation that was reported violated.                       *)
NoFalseTimeout ==
  \A id \in Id :
    LET promised == Promised(handled, id, {}) IN
    promised # <<>> /\ eng.verdicts[id] # <<>> =>
      eng.verdicts[id][1].verdict = promised[1].verdict

(* Nobody waits forever on a silent stream: a buffered event is released,  *)
(* an armed obligation is decided, unless the service ends the run.        *)
Settled == ~running \/ (buffer.heap = {} /\ \A id \in Id : Obligation(id) = None)
SilenceIsDecided == []<>Settled
=============================================================================
