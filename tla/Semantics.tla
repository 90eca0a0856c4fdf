----------------------------- MODULE Semantics -----------------------------
(***************************************************************************)
(* What each operator means, by direct definition over the whole trace of  *)
(* one entity: no automaton, no state carried from event to event.  It is  *)
(* the role tests/oracle.py plays for the engine.                          *)
(*                                                                         *)
(*   s      the events of the entity's lifetime, in canonical order        *)
(*   now    the stream's clock                                             *)
(*   ended  whether a terminal event has ended the lifetime (at now)       *)
(***************************************************************************)
EXTENDS Integers, Sequences

CONSTANT None

Where(s, P) == {i \in DOMAIN s : s[i].status \in P}
First(I) == CHOOSE i \in I : \A j \in I : i <= j

Pending == [verdict |-> "pending", at |-> None, because |-> <<>>]
Decided(v, at, because) == [verdict |-> v, at |-> at, because |-> because]

(* The verdict an operator gets when the lifetime ends undecided.          *)
AtEnd(ended, v, now, because) ==
  IF ended THEN Decided(v, now, because) ELSE Pending

MeansNever(p, s, now, ended) ==
  LET I == Where(s, p.bad) IN
  IF I = {} THEN AtEnd(ended, "satisfied", now, <<>>)
  ELSE Decided("violated", s[First(I)].time, <<s[First(I)]>>)

MeansOnce(p, s, now, ended) ==
  LET I == Where(s, p.good) IN
  IF I = {} THEN AtEnd(ended, "violated", now, <<>>)
  ELSE Decided("satisfied", s[First(I)].time, <<s[First(I)]>>)

MeansHistorically(p, s, now, ended) ==
  LET I == DOMAIN s \ Where(s, p.phi) IN
  IF I = {} THEN AtEnd(ended, "satisfied", now, <<>>)
  ELSE Decided("violated", s[First(I)].time, <<s[First(I)]>>)

(* Satisfied by a response strictly before the deadline of the first       *)
(* trigger, violated as soon as the clock reaches that deadline.           *)
MeansWithin(p, s, now, ended) ==
  LET T == Where(s, p.trigger) IN
  IF T = {} THEN Pending
  ELSE LET a == First(T)
           deadline == s[a].time + p.seconds
           R == {i \in Where(s, p.response) : a < i /\ s[i].time < deadline}
       IN IF R # {} THEN Decided("satisfied", s[First(R)].time, <<s[a], s[First(R)]>>)
          ELSE IF deadline <= now THEN Decided("violated", deadline, <<s[a]>>)
          ELSE AtEnd(ended, "violated", now, <<s[a]>>)

(* The trigger must be preceded by a prior, or be one.                     *)
MeansBefore(p, s, now, ended) ==
  LET T == Where(s, p.trigger) IN
  IF T = {} THEN Pending
  ELSE LET t == First(T)
           A == {i \in Where(s, p.prior) : i <= t}
       IN IF A = {} THEN Decided("violated", s[t].time, <<s[t]>>)
          ELSE Decided("satisfied", s[t].time, <<s[First(A)], s[t]>>)

MeansPreviously(p, s, now, ended) ==
  LET T == Where(s, p.trigger) IN
  IF T = {} THEN Pending
  ELSE LET t == First(T) IN
       IF t > 1 /\ s[t - 1].status \in p.prior
       THEN Decided("satisfied", s[t].time, <<s[t - 1], s[t]>>)
       ELSE Decided("violated", s[t].time, <<s[t]>>)

(* phi or psi at every event that comes after some psi; the evidence is    *)
(* the last psi and the event that broke the chain.                        *)
MeansSince(p, s, now, ended) ==
  LET I == {i \in DOMAIN s : /\ s[i].status \notin p.phi \cup p.psi
                             /\ \E j \in 1 .. i - 1 : s[j].status \in p.psi}
      upto == IF I = {} THEN Len(s) ELSE First(I)
      anchors == {i \in Where(s, p.psi) : i <= upto}
      anchor == IF anchors = {} THEN <<>>
                ELSE <<s[CHOOSE i \in anchors : \A j \in anchors : j <= i]>>
  IN IF I = {} THEN AtEnd(ended, "satisfied", now, anchor)
     ELSE Decided("violated", s[upto].time, Append(anchor, s[upto]))

(* The scope is open at i if it was opened at some j <= i and no closing   *)
(* event came since.  (An opening event closes nothing: p.open and p.close *)
(* are disjoint in every policy checked.)                                  *)
OpenFrom(p, s, j, i) ==
  /\ s[j].status \in p.open
  /\ \A k \in j + 1 .. i : s[k].status \notin p.close
MeansScopedNever(p, s, now, ended) ==
  LET I == {i \in Where(s, p.bad) : \E j \in 1 .. i : OpenFrom(p, s, j, i)} IN
  IF I = {} THEN AtEnd(ended, "satisfied", now, <<>>)
  ELSE LET i == First(I)
           opening == First({j \in 1 .. i : OpenFrom(p, s, j, i)})
       IN Decided("violated", s[i].time,
                  IF opening = i THEN <<s[i]>> ELSE <<s[opening], s[i]>>)

Means(p, s, now, ended) ==
  CASE p.kind = "never"        -> MeansNever(p, s, now, ended)
    [] p.kind = "once"         -> MeansOnce(p, s, now, ended)
    [] p.kind = "historically" -> MeansHistorically(p, s, now, ended)
    [] p.kind = "within"       -> MeansWithin(p, s, now, ended)
    [] p.kind = "before"       -> MeansBefore(p, s, now, ended)
    [] p.kind = "scoped_never" -> MeansScopedNever(p, s, now, ended)
    [] p.kind = "previously"   -> MeansPreviously(p, s, now, ended)
    [] p.kind = "since"        -> MeansSince(p, s, now, ended)
=============================================================================
