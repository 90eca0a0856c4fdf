------------------------------- MODULE Engine -------------------------------
(***************************************************************************)
(* behave_rv.engine: what Engine._handle_event does with one admitted      *)
(* event, as operators on an engine value, so that the replay loop and the *)
(* live loop share them.                                                   *)
(*                                                                         *)
(* An instance belongs to an id, a policy and a correlation key.  No       *)
(* handler lets one id touch the instance, the timers or the verdicts of   *)
(* another, so the dict of instances, the two heaps and the delivery order *)
(* are per-id functions and sets; the order between ids is left out.       *)
(*                                                                         *)
(* An event is [type, status, bindings, time, ...]: status is what the     *)
(* predicates distinguish, bindings maps a field to its value or None.     *)
(***************************************************************************)
EXTENDS ReorderBuffer, Monitor

CONSTANTS Event,          \* the events a source can yield
          Policies,       \* monitor policies with "types" and "field"
          Keys,           \* the values a correlation field takes
          TerminalTypes,  \* terminal_event_types
          TTL             \* quiescence_ttl, or None

ASSUME EngineAssumption ==
  /\ TTL \in Int \cup {None} /\ None \notin Int \cup {"satisfied", "violated"}
  /\ \A p \in Policies : /\ p.kind \in Kinds
                         /\ p.kind = "within" => p.seconds \in Nat

ASSUME EventAssumption ==
  \A e \in Event : /\ UsableTime(e.time) => e.time \in NegInf + 1 .. PosInf - 1
                   /\ e.tie \in Int

(* None is neither an event nor an instance.                               *)
InstanceType ==
  [monitor : [settled : BOOLEAN, trigger : Event \cup {None}, deadline : Int \cup {None},
              flag : BOOLEAN, started : BOOLEAN, evidence : Event \cup {None}],
   last : Int]
ASSUME NoneAssumption == None \notin Event /\ None \notin InstanceType

(* The event with this content at the time t, and the events of what the   *)
(* window released.                                                        *)
At(content, t) ==
  [tie |-> content.tie, type |-> content.type, status |-> content.status,
   bindings |-> content.bindings, time |-> t]
Events(entries) == [i \in DOMAIN entries |-> entries[i].event]

Id == Policies \X Keys
PolicyOf(id) == id[1]

(* Dispatcher.key_of, for the id's policy and key. *)
Carries(e, id) == e.bindings[PolicyOf(id).field] = id[2]
(* The id's policy is a candidate for the event, and the event is its key's. *)
Concerns(e, id) == e.type \in PolicyOf(id).types /\ Carries(e, id)

EmptyEngine ==
  [instances |-> [id \in Id |-> None],   \* [monitor, last (last_activity)]
   deadlines |-> {}, ttlTimers |-> {},   \* entries [when, id]
   verdicts  |-> [id \in Id |-> <<>>],   \* delivered, oldest first
   errors    |-> [p \in Policies |-> 0], \* predicate_errors, by policy
   invalid   |-> <<>>]                   \* dropped_invalid without a buffer

NewInstance == [monitor |-> Fresh, last |-> None]

Report(id, r, at) ==
  IF r.status = None THEN <<>>
  ELSE <<[verdict |-> r.status, at |-> at,
          because |-> DecidingEvents(PolicyOf(id), r.monitor)]>>

-----------------------------------------------------------------------------
(* TimerQueue.due(now): what is popped, by id, and what stays.             *)
Due(timers, id, now) == {t.when : t \in {u \in timers : u.id = id /\ u.when <= now}}
NotDue(timers, now) == {t \in timers : t.when > now}
Earliest(moments) == CHOOSE t \in moments : \A u \in moments : t <= u

(* The due timers of an id that its live monitor accepts: a stale timer is *)
(* one it does not.                                                        *)
Overdue(eng, id, now) ==
  IF eng.instances[id] = None THEN {}
  ELSE {t \in Due(eng.deadlines, id, now) :
          OnTimeout(eng.instances[id].monitor, t).status # None}

(* Due timers fire in time order: the first the monitor accepts settles it *)
(* and dates the verdict.                                                  *)
FireDueDeadlines(eng, now) ==
  LET ids == {id \in Id : Overdue(eng, id, now) # {}}
      when(id) == Earliest(Overdue(eng, id, now))
      r == [id \in ids |-> OnTimeout(eng.instances[id].monitor, when(id))]
  IN [eng EXCEPT
        !.instances = [id \in Id |-> IF id \notin ids THEN @[id]
                                     ELSE [@[id] EXCEPT !.monitor = r[id].monitor]],
        !.verdicts  = [id \in Id |-> IF id \notin ids THEN @[id]
                                     ELSE @[id] \o Report(id, r[id], when(id))],
        !.deadlines = NotDue(@, now)]

(* Mutant: a due TTL timer is trusted.                                     *)
QuiescentByTimer(eng, now) ==
  {id \in Id : eng.instances[id] # None /\ Due(eng.ttlTimers, id, now) # {}}

(* The instances whose due TTL timer the live instance confirms.           *)
Quiescent(eng, now) ==
  {id \in Id : /\ TTL # None
               /\ eng.instances[id] # None
               /\ Due(eng.ttlTimers, id, now) # {}
               /\ now - eng.instances[id].last >= TTL}

ReclaimQuiescent(eng, now) ==
  IF TTL = None THEN eng
  ELSE [eng EXCEPT
          !.instances = [id \in Id |-> IF id \in Quiescent(eng, now) THEN None ELSE @[id]],
          !.ttlTimers = NotDue(@, now)]

-----------------------------------------------------------------------------
(* Mutant: timers are scheduled when the instance is created only.         *)
DispatchedOnce(eng, e, id) ==
  LET new == eng.instances[id] = None
      i == IF new THEN NewInstance ELSE eng.instances[id]
      r == Apply(PolicyOf(id), i.monitor, e)
  IN [instance |-> [monitor |-> r.monitor, last |-> e.time],
      report   |-> Report(id, r, e.time),
      raised   |-> Raises(PolicyOf(id), i.monitor, e),
      deadline |-> IF r.status # None \/ NextDeadline(r.monitor) = None \/ ~new THEN {}
                   ELSE {[when |-> NextDeadline(r.monitor), id |-> id]},
      ttl      |-> IF r.status # None \/ TTL = None \/ ~new THEN {}
                   ELSE {[when |-> e.time + TTL, id |-> id]}]

(* Dispatch to one id: the monitor evaluates the event; with no verdict,   *)
(* its deadline and its TTL timer are scheduled (again).                   *)
Dispatched(eng, e, id) ==
  LET i == IF eng.instances[id] = None THEN NewInstance ELSE eng.instances[id]
      r == Apply(PolicyOf(id), i.monitor, e)
  IN [instance |-> [monitor |-> r.monitor, last |-> e.time],
      report   |-> Report(id, r, e.time),
      raised   |-> Raises(PolicyOf(id), i.monitor, e),
      deadline |-> IF r.status # None \/ NextDeadline(r.monitor) = None THEN {}
                   ELSE {[when |-> NextDeadline(r.monitor), id |-> id]},
      ttl      |-> IF r.status # None \/ TTL = None THEN {}
                   ELSE {[when |-> e.time + TTL, id |-> id]}]

Dispatch(eng, e) ==
  LET ids == {id \in Id : Concerns(e, id)}
      d == [id \in ids |-> Dispatched(eng, e, id)]
  IN [eng EXCEPT
        !.instances = [id \in Id |-> IF id \in ids THEN d[id].instance ELSE @[id]],
        !.verdicts  = [id \in Id |-> IF id \in ids THEN @[id] \o d[id].report ELSE @[id]],
        !.errors    = [p \in Policies |->
                         @[p] + Cardinality({id \in ids : PolicyOf(id) = p /\ d[id].raised})],
        !.deadlines = @ \cup UNION {d[id].deadline : id \in ids},
        !.ttlTimers = @ \cup UNION {d[id].ttl : id \in ids}]

(* A terminal event ends the lifetime of every instance whose key it       *)
(* carries, whether or not the policy observes the event's type.           *)
RetireEntity(eng, e) ==
  LET ids == {id \in Id : Carries(e, id) /\ eng.instances[id] # None}
      r == [id \in ids |-> OnTerminal(PolicyOf(id), eng.instances[id].monitor)]
  IN [eng EXCEPT
        !.instances = [id \in Id |-> IF id \in ids THEN None ELSE @[id]],
        !.verdicts  = [id \in Id |-> IF id \in ids THEN @[id] \o Report(id, r[id], e.time)
                                     ELSE @[id]]]

(* Mutant: reclaimed before its deadline fires.                            *)
ReclaimFirst(eng, e) ==
  LET reclaimed == ReclaimQuiescent(eng, e.time)
      after == Dispatch(FireDueDeadlines(reclaimed, e.time), e)
  IN IF ~UsableTime(e.time) THEN [eng EXCEPT !.invalid = Append(@, e)]
     ELSE IF e.type \in TerminalTypes THEN RetireEntity(after, e) ELSE after

(* Engine._handle_event.                                                  *)
HandleEvent(eng, e) ==
  IF ~UsableTime(e.time) THEN [eng EXCEPT !.invalid = Append(@, e)]
  ELSE LET fired == FireDueDeadlines(eng, e.time)
           after == Dispatch(ReclaimQuiescent(fired, e.time), e)
       IN IF e.type \in TerminalTypes THEN RetireEntity(after, e) ELSE after

(* End of run with emit_pending: every unsettled instance is reported.     *)
Pending(eng) == {id \in Id : eng.instances[id] # None /\ ~eng.instances[id].monitor.settled}
EmitPending(eng) ==
  [eng EXCEPT !.verdicts =
     [id \in Id |-> IF id \notin Pending(eng) THEN @[id]
                    ELSE Append(@[id], [verdict |-> "pending",
                                        at |-> eng.instances[id].last,
                                        because |-> DecidingEvents(PolicyOf(id),
                                                      eng.instances[id].monitor)])]]
=============================================================================
