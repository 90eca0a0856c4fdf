----------------------------- MODULE Dashboard -----------------------------
(***************************************************************************)
(* behave_rv.dashboard.Dashboard: a store that the engine's thread (sink)  *)
(* and the application's threads (tap) write, and the threads of the HTTP  *)
(* server read (state), under one lock.  An access takes the lock with its *)
(* first half and gives it up with its second, so that what the lock       *)
(* protects can be seen torn without it.                                   *)
(*                                                                         *)
(* An event is [type, timed]: timed is FALSE when its time is not a        *)
(* number.  A verdict is [policy, key, outcome].                           *)
(***************************************************************************)
EXTENDS Naturals, Sequences, FiniteSets

CONSTANTS None,
          Policy,   \* the policies of the dashboard
          Watches,  \* [Policy -> the event types it observes]
          Key,      \* the entities
          Type,     \* the event types
          History   \* length of the two lists on the page

ASSUME DashboardAssumption == History \in Nat \ {0} /\ Watches \in [Policy -> SUBSET Type]

VARIABLES lock,     \* who is inside the lock, None if nobody is
          board,    \* what the lock protects
          tapped,   \* history: the events whose tap has begun
          sunk      \* history: the verdicts handed to the sink

dashboardVars == <<lock, board, tapped, sunk>>

Blank ==
  [events |-> 0, verdicts |-> 0, violations |-> 0, observed |-> {},
   status |-> [cell \in Policy \X Key |-> None], alarms |-> <<>>, feed |-> <<>>]

DashboardInit == lock = None /\ board = Blank /\ tapped = <<>> /\ sunk = <<>>

(* deque(maxlen=History).appendleft                                        *)
Newest(x, s) == SubSeq(<<x>> \o s, 1, IF Len(s) < History THEN Len(s) + 1 ELSE History)

(* Mutant: nobody locks.                                                   *)
TakeNothing(who) == UNCHANGED lock

Take(who) == lock = None /\ lock' = who

Release == lock' = None

-----------------------------------------------------------------------------
(* tap(event): the count and the type first, then the row of the feed; to  *)
(* round a time that is no number raises, out of the lock's block.         *)
TapBegin(who, e) ==
  /\ Take(who)
  /\ board' = [board EXCEPT !.events = @ + 1, !.observed = @ \cup {e.type}]
  /\ tapped' = Append(tapped, e)
  /\ UNCHANGED sunk

TapEnd(e) ==
  /\ Release
  /\ board' = IF e.timed THEN [board EXCEPT !.feed = Newest(e, @)] ELSE board
  /\ UNCHANGED <<tapped, sunk>>

(* sink(verdict), up to the forwarding.                                    *)
SinkBegin(who, v) ==
  /\ Take(who)
  /\ board' = [board EXCEPT !.verdicts = @ + 1, !.status[<<v.policy, v.key>>] = v.outcome]
  /\ UNCHANGED <<tapped, sunk>>

(* Mutant: the lock is not given up before the verdict is forwarded.       *)
SinkEndHolding(v) ==
  /\ board' = IF v.outcome # "violated" THEN board
              ELSE [board EXCEPT !.violations = @ + 1, !.alarms = Newest(v, @)]
  /\ UNCHANGED <<lock, tapped, sunk>>

SinkEnd(v) ==
  /\ Release
  /\ board' = IF v.outcome # "violated" THEN board
              ELSE [board EXCEPT !.violations = @ + 1, !.alarms = Newest(v, @)]
  /\ UNCHANGED <<tapped, sunk>>

(* Mutant: every type must have been seen.                                 *)
UnobservedInPart(events, observed) ==
  {p \in Policy : events > 0 /\ ~(Watches[p] \subseteq observed)}

(* state(): the policies, then the counts and the lists.                   *)
Unobserved(events, observed) ==
  {p \in Policy : events > 0 /\ observed \cap Watches[p] = {}}

UpperHalf ==
  [status |-> board.status, unobserved |-> Unobserved(board.events, board.observed)]

LowerHalf ==
  [events |-> board.events, verdicts |-> board.verdicts, violations |-> board.violations,
   alarms |-> board.alarms, feed |-> board.feed]

ReadBegin(who) == Take(who) /\ UNCHANGED <<board, tapped, sunk>>
ReadEnd        == Release /\ UNCHANGED <<board, tapped, sunk>>

-----------------------------------------------------------------------------
(* The abstract dashboard: the page as a function of what was tapped and   *)
(* what was decided, and nothing else.                                     *)
Latest(verdicts, p, k) ==
  LET mine == {i \in DOMAIN verdicts : verdicts[i].policy = p /\ verdicts[i].key = k}
  IN IF mine = {} THEN None ELSE verdicts[CHOOSE i \in mine : \A j \in mine : j <= i].outcome

Violated(verdicts) == {i \in DOMAIN verdicts : verdicts[i].outcome = "violated"}
Timed(events)      == {i \in DOMAIN events : events[i].timed}

(* How many of the positions I are not before i.                           *)
Rank(I, i) == Cardinality({j \in I : i <= j})

(* Of the members of s at the positions I, the last ones, latest first.    *)
LastOnes(s, I) ==
  [n \in 1 .. (IF Cardinality(I) < History THEN Cardinality(I) ELSE History) |->
     s[CHOOSE i \in I : Rank(I, i) = n]]

PageOf(events, verdicts) ==
  [upper |-> [status |-> [cell \in Policy \X Key |-> Latest(verdicts, cell[1], cell[2])],
              unobserved |-> {p \in Policy : events # <<>> /\
                                \A i \in DOMAIN events : events[i].type \notin Watches[p]}],
   lower |-> [events |-> Len(events), verdicts |-> Len(verdicts),
              violations |-> Cardinality(Violated(verdicts)),
              alarms |-> LastOnes(verdicts, Violated(verdicts)),
              feed |-> LastOnes(events, Timed(events))]]
=============================================================================
