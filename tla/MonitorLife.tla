----------------------------- MODULE MonitorLife -----------------------------
(***************************************************************************)
(* One monitor through one lifetime of its entity, driven as               *)
(* Engine._handle_event drives it: the clock moves to the event's time,    *)
(* due deadlines fire first, then the event is dispatched (if it is one of *)
(* the policy's types), then a terminal event ends the lifetime.           *)
(***************************************************************************)
EXTENDS Monitor

CONSTANTS Policies,   \* the policies: one is chosen initially
          Event,      \* the events, with a status and a time
          MayHappen(_, _, _)   \* bound: MayHappen(p, n, e): a lifetime of p can
                               \* have e after n events

VARIABLES policy, monitor,
          trace,      \* history: the events dispatched, without those whose
                      \* evaluation raised
          clock,      \* event time of the last event handled
          ended,      \* a terminal event was handled
          verdicts,   \* the conclusive verdicts delivered
          handled     \* number of events handled

vars == <<policy, monitor, trace, clock, ended, verdicts, handled>>

ASSUME LifeAssumption ==
  /\ \A e \in Event : e.time \in Int
  /\ \A p \in Policies : p.kind \in Kinds /\ (p.kind = "within" => p.seconds \in Nat)
  /\ None \notin Event \cup Int \cup {"satisfied", "violated"}

Init ==
  /\ policy \in Policies
  /\ monitor = Fresh
  /\ trace = <<>>
  /\ clock = None
  /\ ended = FALSE
  /\ verdicts = <<>>
  /\ handled = 0

Reported(p, r, at) ==
  IF r.status = None THEN <<>>
  ELSE <<[verdict |-> r.status, at |-> at,
          because |-> DecidingEvents(p, r.monitor)]>>

(* Deadlines at or before now fire with the deadline as "now".             *)
Fired(m, now) ==
  IF NextDeadline(m) # None /\ NextDeadline(m) <= now
  THEN OnTimeout(m, NextDeadline(m)) ELSE Quiet(m)

(* dispatched: the event is of a type the policy observes; terminal: of    *)
(* one that ends the entity's lifetime.                                    *)
Handle(e, dispatched, terminal) ==
  LET f == Fired(monitor, e.time)
      d == IF dispatched THEN Apply(policy, f.monitor, e) ELSE Quiet(f.monitor)
      r == IF terminal THEN OnTerminal(policy, d.monitor) ELSE Quiet(d.monitor)
  IN
  /\ ~ended /\ MayHappen(policy, handled, e)
  /\ clock # None => clock <= e.time
  /\ handled = 0 => dispatched
  /\ monitor' = r.monitor
  /\ clock' = e.time
  /\ ended' = terminal
  /\ handled' = handled + 1
  /\ verdicts' = verdicts \o Reported(policy, f, monitor.deadline)
                          \o Reported(policy, d, e.time) \o Reported(policy, r, e.time)
  /\ trace' = IF dispatched /\ ~Raises(policy, f.monitor, e)
              THEN Append(trace, e) ELSE trace
  /\ UNCHANGED policy

Next == \E e \in Event, dispatched, terminal \in BOOLEAN : Handle(e, dispatched, terminal)

Spec == Init /\ [][Next]_vars

-----------------------------------------------------------------------------
Meaning == INSTANCE Semantics

(* Type invariant; an armed obligation keeps the event that armed it.      *)
Conclusive == {"satisfied", "violated"}
MonitorType ==
  [settled : BOOLEAN, trigger : Event \cup {None}, deadline : Int \cup {None},
   flag : BOOLEAN, started : BOOLEAN, evidence : Event \cup {None}]

TypeOK ==
  /\ policy \in Policies
  /\ monitor \in MonitorType
  /\ monitor.deadline # None =>
       /\ monitor.trigger # None
       /\ monitor.deadline = monitor.trigger.time + policy.seconds
  /\ trace \in Seq(Event)
  /\ clock \in Int \cup {None}
  /\ ended \in BOOLEAN
  /\ handled \in Nat
  /\ \A i \in DOMAIN verdicts : verdicts[i].verdict \in Conclusive

(* The automaton computes the operator: at every point the verdict, its    *)
(* event time and its deciding evidence are those of the definition over   *)
(* the whole trace; an event whose predicate raised leaves no mark at all. *)
VerdictIsMeaning ==
  LET means == Meaning!Means(policy, trace, clock, ended) IN
  verdicts = IF means.verdict = "pending" THEN <<>> ELSE <<means>>

(* A conclusive verdict is final: nothing is delivered after it.           *)
FinalOnce == [][verdicts # <<>> => verdicts' = verdicts]_vars
=============================================================================
