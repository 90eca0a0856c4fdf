-------------------------- MODULE LiveEngineProofs --------------------------
(***************************************************************************)
(* The live loop for every grace, set of policies and keys, whatever is    *)
(* pushed when, and however wall time passes: no wall fire leaves the loop *)
(* waiting for the moment it fired for, a timeout is the deadline of its   *)
(* trigger and not early, and with a window the untimed verdicts are those *)
(* the operators define over the handled events.                           *)
(*                                                                         *)
(* An iteration handles all that the window releases; what holds of one    *)
(* event handled is carried over all of them by AllHandled and Climb.      *)
(***************************************************************************)
EXTENDS LiveEngine, EngineProofs

-----------------------------------------------------------------------------
(* From 0 up to N, one by one.                                             *)
LEMMA Climb ==
  ASSUME NEW N \in Nat, NEW S, 0 \in S, \A n \in 0 .. N : n \in S /\ n # N => n + 1 \in S
  PROVE  \A n \in 0 .. N : n \in S
<1> DEFINE Missed == {n \in 0 .. N : n \notin S}
<1> SUFFICES ASSUME Missed # {}  PROVE FALSE
  OBVIOUS
<1>1. Missed \subseteq Nat
  OBVIOUS
<1> DEFINE m == Earliest(Missed)
<1>2. m \in Missed /\ \A n \in Missed : m <= n
  BY <1>1, EarliestIs
<1> HIDE DEF m
<1>3. m \in 0 .. N /\ m \notin S /\ m # 0
  BY <1>2
<1>4. m - 1 \in 0 .. N /\ m - 1 # N /\ m - 1 + 1 = m /\ ~(m <= m - 1)
  BY <1>3
<1>5. m - 1 \in S
  BY <1>2, <1>4
<1> QED  BY <1>3, <1>4, <1>5

(* The engine after each of the first m events of r.                       *)
Handling(g, r, m, a) ==
  a = [n \in 0 .. m |-> IF n = 0 THEN g ELSE HandleEvent(a[n - 1], r[n])]

(* There is such a list.                                                   *)
LEMMA HandlingExists ==
  ASSUME NEW g, NEW r, NEW N \in Nat
  PROVE  \E a : Handling(g, r, N, a)
<1> DEFINE S == {m \in 0 .. N : \E a : Handling(g, r, m, a)}
<1>1. 0 \in S
  <2>1. Handling(g, r, 0, [n \in 0 .. 0 |-> g])
    BY DEF Handling
  <2> QED  BY <2>1
<1>2. ASSUME NEW m \in 0 .. N, m \in S, m # N
      PROVE  m + 1 \in S
  <2>1. PICK a : Handling(g, r, m, a)
    BY <1>2
  <2>2. /\ DOMAIN a = 0 .. m
        /\ \A n \in 0 .. m : a[n] = IF n = 0 THEN g ELSE HandleEvent(a[n - 1], r[n])
    BY <2>1 DEF Handling
  <2> DEFINE last == HandleEvent(a[m], r[m + 1])
             b == [n \in 0 .. m + 1 |-> IF n = m + 1 THEN last ELSE a[n]]
  <2>3. m \in Nat /\ m + 1 \in 0 .. N /\ \A n \in 0 .. m + 1 : n = m + 1 \/ n \in 0 .. m
    BY <1>2
  <2>4. \A n \in 0 .. m : b[n] = a[n] /\ n # m + 1
    BY <2>3
  <2>5. b[m + 1] = HandleEvent(b[m], r[m + 1])
    BY <2>3, <2>4
  <2>6. b = [n \in 0 .. m + 1 |-> b[n]]
    OBVIOUS
  <2> HIDE DEF b, last
  <2>7. ASSUME NEW n \in 0 .. m + 1
        PROVE  b[n] = IF n = 0 THEN g ELSE HandleEvent(b[n - 1], r[n])
    <3>1. CASE n = m + 1
      BY <2>3, <2>5, <3>1
    <3>2. CASE n = 0
      BY <2>2, <2>3, <2>4, <3>2
    <3>3. CASE n # m + 1 /\ n # 0
      <4>1. n \in 0 .. m /\ n - 1 \in 0 .. m
        BY <2>3, <3>3
      <4> QED  BY <2>2, <2>4, <3>3, <4>1
    <3> QED  BY <3>1, <3>2, <3>3
  <2>8. Handling(g, r, m + 1, b)
    BY <2>6, <2>7 DEF Handling
  <2> QED  BY <2>3, <2>8
<1> HIDE DEF S
<1>3. N \in S
  BY <1>1, <1>2, Climb
<1> QED  BY <1>3 DEF S

(* HandleAll handles them one after the other.                             *)
LEMMA AllHandled ==
  ASSUME NEW g, NEW r, Len(r) \in Nat
  PROVE  \E a : /\ a[0] = g
                /\ \A n \in 0 .. Len(r) : n # Len(r) => a[n + 1] = HandleEvent(a[n], r[n + 1])
                /\ HandleAll(g, r) = a[Len(r)]
<1> DEFINE N == Len(r)
           a == CHOOSE b : Handling(g, r, N, b)
<1>1. Handling(g, r, N, a)
  BY HandlingExists
<1>2. HandleAll(g, r) = a[N]
  BY DEF HandleAll, InSequence, Handling
<1> HIDE DEF a
<1>3. \A n \in 0 .. N : a[n] = IF n = 0 THEN g ELSE HandleEvent(a[n - 1], r[n])
  BY <1>1 DEF Handling
<1>4. a[0] = g
  BY <1>3
<1>5. ASSUME NEW n \in 0 .. N, n # N
      PROVE  a[n + 1] = HandleEvent(a[n], r[n + 1])
  <2>1. n + 1 \in 0 .. N /\ n + 1 # 0 /\ n + 1 - 1 = n
    BY <1>5
  <2> QED  BY <1>3, <2>1
<1> QED  BY <1>2, <1>4, <1>5

-----------------------------------------------------------------------------
(* The obligations of an engine are dated: an armed one by its trigger,    *)
(* and no timer lies before all time.                                      *)
Dated(g) ==
  /\ \A id \in Id : g.instances[id] # None => Life!Sound(PolicyOf(id), g.instances[id].monitor)
  /\ \A t \in g.deadlines : NegInf < t.when

(* A verdict of a timed id whose evidence is one event alone is that of a  *)
(* deadline, counted from that event and not after top, or of the end of   *)
(* its entity by one of the events E.                                      *)
ByDeadline(v, id, top) ==
  /\ v.verdict = "violated" /\ v.at = v.because[1].time + PolicyOf(id).seconds
  /\ v.at \in Int /\ v.at <= top
Grounded(v, id, top, E) ==
  Len(v.because) = 1 =>
    ByDeadline(v, id, top) \/ \E e \in E : e.type \in TerminalTypes /\ e.time = v.at
Says(vs, ws, id, top, E) == ws = vs \/ (ws # <<>> /\ Grounded(ws[Len(ws)], id, top, E))

(* One thing said after the other.                                         *)
LEMMA SaysMore ==
  ASSUME NEW u, NEW v, NEW w, NEW id, NEW top \in Int, NEW low \in Int, low <= top,
         NEW E, NEW F, F \subseteq E, Says(u, v, id, low, F), Says(v, w, id, top, E)
  PROVE  Says(u, w, id, top, E)
BY DEF Says, Grounded, ByDeadline

(* The deadline of a sound monitor is a date.                              *)
LEMMA DeadlineIsDate ==
  ASSUME NEW p \in Policies, NEW m, Life!Sound(p, m)
  PROVE  /\ m.deadline \in Int \cup {None}
         /\ m.deadline # None => /\ p.kind = "within"
                                 /\ m.trigger \in Timely /\ m.trigger # None
                                 /\ m.deadline = m.trigger.time + p.seconds
                                 /\ m.deadline \in Int /\ NegInf < m.deadline
<1>1. /\ m.deadline \in Int \cup {None} /\ m.trigger \in Timely \cup {None}
      /\ m.deadline # None => m.trigger # None /\ m.deadline = m.trigger.time + p.seconds
      /\ p.kind # "within" => m.deadline = None
  BY DEF Life!Sound, Life!Armed, Life!MonitorType
<1>2. p.kind = "within" => p.seconds \in Nat
  BY EngineAssumption
<1>3. NegInf \in Int
  BY BufferAssumption
<1>4. ASSUME m.deadline # None
      PROVE  /\ p.kind = "within" /\ m.trigger \in Timely /\ m.trigger # None
             /\ m.deadline = m.trigger.time + p.seconds
             /\ m.deadline \in Int /\ NegInf < m.deadline
  <2>1. m.trigger \in Timely /\ p.seconds \in Nat /\ m.deadline = m.trigger.time + p.seconds
    BY <1>1, <1>2, <1>4
  <2>2. m.trigger.time \in Int /\ NegInf < m.trigger.time
    BY <2>1, TimelyTimes
  <2> QED  BY <1>1, <1>3, <1>4, <2>1, <2>2
<1> QED  BY <1>1, <1>4

(* What a verdict on an armed obligation gives as evidence.                *)
LEMMA TimedEvidence ==
  ASSUME NEW p \in Policies, p.kind = "within", NEW m, m.trigger # None
  PROVE  /\ Len(DecidingEvents(p, m)) = 1 => DecidingEvents(p, m)[1] = m.trigger
         /\ m.evidence # None => Len(DecidingEvents(p, m)) = 2
<1>1. DecidingEvents(p, m) = <<m.trigger>> \o Kept(m.evidence)
  BY DEF DecidingEvents, Kept
<1>2. m.evidence = None => DecidingEvents(p, m) = <<m.trigger>>
  BY <1>1 DEF Kept
<1>3. m.evidence # None => DecidingEvents(p, m) = <<m.trigger, m.evidence>>
  <2> DEFINE x == m.trigger
             y == m.evidence
  <2>1. m.evidence # None => DecidingEvents(p, m) = <<x>> \o <<y>>
    BY <1>1 DEF Kept
  <2> HIDE DEF x, y
  <2>2. <<x>> \o <<y>> = <<x, y>>
    <3> DEFINE S == {x, y}
    <3>1. <<x>> \in Seq(S) /\ <<y>> \in Seq(S) /\ Len(<<x>>) = 1 /\ Len(<<y>>) = 1
      OBVIOUS
    <3> HIDE DEF S
    <3>2. /\ <<x>> \o <<y>> \in Seq(S) /\ Len(<<x>> \o <<y>>) = 2
          /\ (<<x>> \o <<y>>)[1] = x /\ (<<x>> \o <<y>>)[2] = y
      BY <3>1, ConcatProperties
    <3>3. <<x, y>> \in Seq(S) /\ Len(<<x, y>>) = 2
      BY DEF S
    <3> DEFINE u == <<x>> \o <<y>>
               v == <<x, y>>
    <3>4. \A i \in 1 .. 2 : u[i] = v[i]
      BY <3>2
    <3>5. u \in Seq(S) /\ v \in Seq(S) /\ Len(u) = 2 /\ Len(v) = 2
      BY <3>2, <3>3
    <3> HIDE DEF u, v
    <3>6. u = v
      BY ONLY <3>4, <3>5
    <3> QED  BY <3>6 DEF u, v
  <2> QED  BY <2>1, <2>2 DEF x, y
<1> QED  BY <1>2, <1>3

(* The last of what has been said, after a report.                         *)
LEMMA Reported ==
  ASSUME NEW vs, IsSequence(vs), NEW id, NEW r, NEW at, NEW top, NEW E,
         r.status # None =>
           Grounded([verdict |-> r.status, at |-> at,
                     because |-> DecidingEvents(PolicyOf(id), r.monitor)], id, top, E)
  PROVE  Says(vs, vs \o Report(id, r, at), id, top, E)
<1>1. CASE r.status = None
  <2>1. Report(id, r, at) = <<>>
    BY <1>1 DEF Report
  <2> QED  BY <2>1, AppendingNothing DEF Says
<1>2. CASE r.status # None
  <2> DEFINE v == [verdict |-> r.status, at |-> at,
                   because |-> DecidingEvents(PolicyOf(id), r.monitor)]
  <2>1. Report(id, r, at) = <<v>> /\ Grounded(v, id, top, E)
    BY <1>2 DEF Report
  <2> HIDE DEF v
  <2> QED  BY <2>1, Appending DEF Says
<1> QED  BY <1>1, <1>2

-----------------------------------------------------------------------------
(* Firing what now has reached keeps obligations dated and says only what  *)
(* their deadlines decide.                                                 *)
LEMMA FireDated ==
  ASSUME NEW g, EngineSound(g), Dated(g), NEW now \in Int
  PROVE  LET f == FireDueDeadlines(g, now)
         IN /\ Dated(f)
            /\ \A t \in f.deadlines : t.when > now
            /\ \A id \in Id : PolicyOf(id).kind = "within" =>
                 Says(g.verdicts[id], f.verdicts[id], id, now, {})
<1> DEFINE f == FireDueDeadlines(g, now)
<1>1. f.deadlines \subseteq g.deadlines /\ \A t \in f.deadlines : t.when > now
  BY FireFields DEF NotDue, EngineSound
<1>2. ASSUME NEW id \in Id, f.instances[id] # None
      PROVE  Life!Sound(PolicyOf(id), f.instances[id].monitor)
  <2> DEFINE i == g.instances[id]
             late == Armed(g, id) /\ i.monitor.deadline <= now
  <2>1. /\ ~late => f.instances[id] = i
        /\ late => f.instances[id] = [i EXCEPT !.monitor = [i.monitor EXCEPT !.settled = TRUE]]
    BY FireOne
  <2>2. late => i # None
    BY DEF Armed
  <2>3. i # None => Life!Sound(PolicyOf(id), i.monitor) /\ {"monitor", "last"} \subseteq DOMAIN i
    BY DEF Dated, EngineSound, EngineShape, InstanceShape
  <2>4. i # None => Life!Sound(PolicyOf(id), [i.monitor EXCEPT !.settled = TRUE])
    BY <2>3 DEF Life!Sound, Life!Armed, Life!MonitorType
  <2> HIDE DEF late, i, f
  <2> QED  BY <1>2, <2>1, <2>2, <2>3, <2>4
<1>3. ASSUME NEW id \in Id, PolicyOf(id).kind = "within"
      PROVE  Says(g.verdicts[id], f.verdicts[id], id, now, {})
  <2> DEFINE m == g.instances[id].monitor
             late == Armed(g, id) /\ m.deadline <= now
             d == Earliest(Overdue(g, id, now))
             r == OnTimeout(m, d)
  <2>1. f.verdicts[id] = IF Overdue(g, id, now) = {} THEN g.verdicts[id]
                         ELSE g.verdicts[id] \o Report(id, r, d)
    <3>1. EngineShape(g)
      BY DEF EngineSound
    <3>2. \A x \in Id :
            LET w == Earliest(Overdue(g, x, now))
                q == OnTimeout(g.instances[x].monitor, w)
            IN /\ f.instances[x] = IF Overdue(g, x, now) = {} THEN g.instances[x]
                                    ELSE [g.instances[x] EXCEPT !.monitor = q.monitor]
               /\ f.verdicts[x] = IF Overdue(g, x, now) = {} THEN g.verdicts[x]
                                   ELSE g.verdicts[x] \o Report(x, q, w)
      BY <3>1, FireFields
    <3> QED  BY <3>2
  <2>2. /\ ~late => Overdue(g, id, now) = {}
        /\ late => /\ Overdue(g, id, now) # {} /\ d = m.deadline
                   /\ r = [monitor |-> [m EXCEPT !.settled = TRUE], status |-> "violated"]
    BY OverdueFacts
  <2> HIDE DEF d, r
  <2>3. CASE ~late
    BY <2>1, <2>2, <2>3 DEF Says
  <2>4. CASE late
    <3>1. g.instances[id] # None /\ m.deadline # None
      BY <2>4 DEF Armed, NextDeadline
    <3>2. Life!Sound(PolicyOf(id), m) /\ PolicyOf(id) \in Policies
      BY <3>1, PolicyOfId DEF Dated
    <3>3. /\ m.trigger # None /\ m.deadline = m.trigger.time + PolicyOf(id).seconds
          /\ m.deadline \in Int /\ m.deadline <= now
      BY <2>4, <3>1, <3>2, DeadlineIsDate
    <3> DEFINE n == [m EXCEPT !.settled = TRUE]
               v == [verdict |-> r.status, at |-> d,
                     because |-> DecidingEvents(PolicyOf(id), r.monitor)]
    <3>4. n.trigger = m.trigger
      BY <3>2 DEF Life!Sound, Life!MonitorType
    <3>5. Len(DecidingEvents(PolicyOf(id), n)) = 1 => DecidingEvents(PolicyOf(id), n)[1] = m.trigger
      BY <1>3, <3>2, <3>3, <3>4, TimedEvidence
    <3>6. v.verdict = "violated" /\ v.at = m.deadline /\ v.because = DecidingEvents(PolicyOf(id), n)
      <4>1. r.status = "violated" /\ r.monitor = n /\ d = m.deadline
        <5>1. d = m.deadline /\ r = [monitor |-> n, status |-> "violated"]
          BY <2>2, <2>4
        <5> HIDE DEF n, m
        <5> QED  BY ONLY <5>1
      <4> QED  BY ONLY <4>1 DEF v
    <3> HIDE DEF v
    <3>7. Grounded(v, id, now, {})
      BY <3>3, <3>5, <3>6 DEF Grounded, ByDeadline
    <3>8. IsSequence(g.verdicts[id])
      BY DEF EngineSound, EngineShape
    <3>9. Says(g.verdicts[id], g.verdicts[id] \o Report(id, r, d), id, now, {})
      BY <3>7, <3>8, Reported DEF v
    <3> QED  BY <2>1, <2>2, <2>4, <3>9
  <2> QED  BY <2>3, <2>4
<1>4. Dated(f)
  BY <1>1, <1>2 DEF Dated
<1> QED  BY <1>1, <1>3, <1>4

(* A reclaim drops instances and reports nothing.                          *)
LEMMA ReclaimDated ==
  ASSUME NEW g, EngineSound(g), Dated(g), NEW now
  PROVE  LET h == ReclaimQuiescent(g, now)
         IN Dated(h) /\ h.verdicts = g.verdicts
<1> DEFINE h == ReclaimQuiescent(g, now)
<1>1. /\ h.verdicts = g.verdicts /\ h.deadlines = g.deadlines
      /\ \A id \in Id : h.instances[id] # None => h.instances[id] = g.instances[id]
  BY DEF ReclaimQuiescent, EngineSound, EngineShape, EmptyEngine
<1> HIDE DEF h
<1>2. Dated(h)
  BY <1>1 DEF Dated
<1> QED  BY <1>1, <1>2 DEF h

(* on_event of an engine's policy keeps its monitor sound; one that is     *)
(* bounded reports only with the response as evidence next to its trigger. *)
LEMMA ApplyDated ==
  ASSUME NEW p \in Policies, NEW m, Life!Sound(p, m), NEW e \in Timely
  PROVE  LET r == Apply(p, m, e)
         IN /\ Life!Sound(p, r.monitor)
            /\ p.kind = "within" /\ r.status # None =>
                 r.monitor.trigger # None /\ r.monitor.evidence # None
<1> DEFINE r == Apply(p, m, e)
<1>1. Life!Sound(p, r.monitor)
  BY LifeApplies, SameApply, Life!ApplyIsSound DEF Life!SoundResult
<1>2. ASSUME p.kind = "within", r.status # None
      PROVE  r.monitor.trigger # None /\ r.monitor.evidence # None
  <2>1. r = WithinOnEvent(p, m, e)
    BY <1>2 DEF Apply, OnEvent, Quiet
  <2>2. m.deadline # None /\ r.monitor = [m EXCEPT !.settled = TRUE, !.evidence = e]
    BY <1>2, <2>1 DEF WithinOnEvent, Quiet
  <2>3. m.trigger # None /\ m \in Life!MonitorType
    BY <2>2, DeadlineIsDate DEF Life!Sound
  <2>4. e # None
    BY NoneAssumption DEF Timely
  <2> HIDE DEF r
  <2> QED  BY <2>2, <2>3, <2>4 DEF Life!MonitorType
<1> QED  BY <1>1, <1>2

(* A new monitor is sound.                                                 *)
LEMMA FreshIsSound ==
  ASSUME NEW p \in Policies
  PROVE  Life!Sound(p, Fresh)
BY BeginsAbreast DEF Abreast

(* Dispatch reports no timeouts.                                           *)
LEMMA DispatchDated ==
  ASSUME NEW g, EngineSound(g), Dated(g), NEW e \in Timely
  PROVE  LET d == Dispatch(g, e)
         IN /\ Dated(d)
            /\ \A id \in Id : PolicyOf(id).kind = "within" =>
                 Says(g.verdicts[id], d.verdicts[id], id, e.time, {})
<1>0. EngineShape(g)
  BY DEF EngineSound
<1> DEFINE d == Dispatch(g, e)
<1>1. /\ \A t \in d.deadlines : t \in g.deadlines \/
           \E id \in Id : Concerns(e, id) /\ t \in Dispatched(g, e, id).deadline
      /\ \A id \in Id :
           /\ ~Concerns(e, id) => d.instances[id] = g.instances[id] /\ d.verdicts[id] = g.verdicts[id]
           /\ Concerns(e, id) => /\ d.instances[id] = Dispatched(g, e, id).instance
                                 /\ d.verdicts[id] = g.verdicts[id] \o Dispatched(g, e, id).report
  <2>1. /\ DOMAIN d = DOMAIN g /\ d.invalid = g.invalid
        /\ g.deadlines \subseteq d.deadlines /\ g.ttlTimers \subseteq d.ttlTimers
        /\ \A t \in d.deadlines : t \in g.deadlines \/
             \E id \in Id : Concerns(e, id) /\ t \in Dispatched(g, e, id).deadline
        /\ \A t \in d.ttlTimers : t \in g.ttlTimers \/
             \E id \in Id : Concerns(e, id) /\ t \in Dispatched(g, e, id).ttl
        /\ \A id \in Id :
             /\ ~Concerns(e, id) => d.instances[id] = g.instances[id]
                                    /\ d.verdicts[id] = g.verdicts[id]
             /\ Concerns(e, id) =>
                  LET q == Dispatched(g, e, id)
                  IN /\ d.instances[id] = q.instance
                     /\ d.verdicts[id] = g.verdicts[id] \o q.report
                     /\ q.deadline \subseteq d.deadlines
                     /\ q.ttl \subseteq d.ttlTimers
    BY ONLY <1>0, DispatchFields
  <2> HIDE DEF d
  <2> QED  BY ONLY <2>1
<1> HIDE DEF d
<1> DEFINE m(id) == IF g.instances[id] = None THEN Fresh ELSE g.instances[id].monitor
           r(id) == Apply(PolicyOf(id), m(id), e)
<1>2. ASSUME NEW id \in Id
      PROVE  /\ Dispatched(g, e, id).instance.monitor = r(id).monitor
             /\ Dispatched(g, e, id).report = Report(id, r(id), e.time)
             /\ \A t \in Dispatched(g, e, id).deadline :
                  t.when = r(id).monitor.deadline /\ r(id).monitor.deadline # None
  <2>1. (IF g.instances[id] = None THEN NewInstance ELSE g.instances[id]).monitor = m(id)
    BY DEF NewInstance
  <2> HIDE DEF m
  <2> QED  BY <2>1 DEF Dispatched, NextDeadline
<1>3. ASSUME NEW id \in Id
      PROVE  /\ PolicyOf(id) \in Policies
             /\ Life!Sound(PolicyOf(id), r(id).monitor)
             /\ PolicyOf(id).kind = "within" /\ r(id).status # None =>
                  r(id).monitor.trigger # None /\ r(id).monitor.evidence # None
  <2>1. PolicyOf(id) \in Policies
    BY PolicyOfId
  <2>2. Life!Sound(PolicyOf(id), m(id))
    BY <2>1, FreshIsSound DEF Dated
  <2> HIDE DEF m
  <2> QED  BY <2>1, <2>2, ApplyDated
<1> HIDE DEF r
<1>4. Dated(d)
  <2>1. ASSUME NEW id \in Id, d.instances[id] # None
        PROVE  Life!Sound(PolicyOf(id), d.instances[id].monitor)
    BY <1>1, <1>2, <1>3, <2>1 DEF Dated
  <2>2. ASSUME NEW t \in d.deadlines
        PROVE  NegInf < t.when
    <3>1. CASE t \in g.deadlines
      BY <3>1 DEF Dated
    <3>2. ASSUME NEW id \in Id, t \in Dispatched(g, e, id).deadline
          PROVE  NegInf < t.when
      <4>1. t.when = r(id).monitor.deadline /\ r(id).monitor.deadline # None
        BY <1>2, <3>2
      <4> QED  BY <1>3, <4>1, DeadlineIsDate
    <3> QED  BY <1>1, <3>1, <3>2
  <2> QED  BY <2>1, <2>2 DEF Dated
<1>5. ASSUME NEW id \in Id, PolicyOf(id).kind = "within"
      PROVE  Says(g.verdicts[id], d.verdicts[id], id, e.time, {})
  <2>1. CASE ~Concerns(e, id)
    BY <1>1, <2>1 DEF Says
  <2>2. CASE Concerns(e, id)
    <3> DEFINE q == r(id)
               v == [verdict |-> q.status, at |-> e.time,
                     because |-> DecidingEvents(PolicyOf(id), q.monitor)]
    <3>1. d.verdicts[id] = g.verdicts[id] \o Report(id, q, e.time)
      BY <1>1, <1>2, <2>2
    <3>2. ASSUME q.status # None
          PROVE  Grounded(v, id, e.time, {})
      <4>1. PolicyOf(id) \in Policies /\ q.monitor.trigger # None /\ q.monitor.evidence # None
        BY <1>3, <1>5, <3>2
      <4>2. Len(DecidingEvents(PolicyOf(id), q.monitor)) = 2
        BY <1>5, <4>1, TimedEvidence
      <4>3. Len(v.because) = 2
        BY <4>2
      <4> HIDE DEF v
      <4> QED  BY <4>3 DEF Grounded
    <3>3. IsSequence(g.verdicts[id])
      BY DEF EngineSound, EngineShape
    <3> HIDE DEF q
    <3>4. Says(g.verdicts[id], g.verdicts[id] \o Report(id, q, e.time), id, e.time, {})
      BY <3>2, <3>3, Reported
    <3> QED  BY <3>1, <3>4
  <2> QED  BY <2>1, <2>2
<1> QED  BY <1>4, <1>5 DEF d

(* What the end of an entity reports is dated by its terminal event.       *)
LEMMA RetireDated ==
  ASSUME NEW g, EngineSound(g), Dated(g), NEW e \in Timely, e.type \in TerminalTypes
  PROVE  LET h == RetireEntity(g, e)
         IN /\ Dated(h)
            /\ \A id \in Id : Says(g.verdicts[id], h.verdicts[id], id, e.time, {e})
<1> DEFINE h == RetireEntity(g, e)
           gone(id) == Carries(e, id) /\ g.instances[id] # None
           r(id) == OnTerminal(PolicyOf(id), g.instances[id].monitor)
<1>1. /\ h.deadlines = g.deadlines
      /\ \A id \in Id :
           /\ h.instances[id] = IF gone(id) THEN None ELSE g.instances[id]
           /\ h.verdicts[id] = IF gone(id) THEN g.verdicts[id] \o Report(id, r(id), e.time)
                               ELSE g.verdicts[id]
  BY DEF RetireEntity, EngineSound, EngineShape, EmptyEngine
<1> HIDE DEF h
<1>2. Dated(h)
  BY <1>1 DEF Dated
<1>3. ASSUME NEW id \in Id
      PROVE  Says(g.verdicts[id], h.verdicts[id], id, e.time, {e})
  <2> DEFINE q == r(id)
             v == [verdict |-> q.status, at |-> e.time,
                   because |-> DecidingEvents(PolicyOf(id), q.monitor)]
  <2>1. h.verdicts[id] = g.verdicts[id] \/ h.verdicts[id] = g.verdicts[id] \o Report(id, q, e.time)
    BY <1>1
  <2>2. Grounded(v, id, e.time, {e})
    <3>1. v.at = e.time
      OBVIOUS
    <3> HIDE DEF v
    <3> QED  BY <3>1 DEF Grounded
  <2>3. IsSequence(g.verdicts[id])
    BY DEF EngineSound, EngineShape
  <2> HIDE DEF q
  <2>4. Says(g.verdicts[id], g.verdicts[id] \o Report(id, q, e.time), id, e.time, {e})
    BY <2>2, <2>3, Reported
  <2> QED  BY <2>1, <2>4 DEF Says
<1> QED  BY <1>2, <1>3 DEF h

-----------------------------------------------------------------------------
(* An engine the live loop can have.                                       *)
LiveSound(g) == EngineSound(g) /\ Dated(g)

(* _handle_event as a whole: an event, from the deadlines it reaches to    *)
(* the entity it ends.                                                     *)
LEMMA HandleDated ==
  ASSUME NEW g, LiveSound(g), NEW e \in Timely
  PROVE  LET h == HandleEvent(g, e)
         IN /\ LiveSound(h)
            /\ \A id \in Id : PolicyOf(id).kind = "within" =>
                 Says(g.verdicts[id], h.verdicts[id], id, e.time, {e})
<1> DEFINE f == FireDueDeadlines(g, e.time)
           c == ReclaimQuiescent(f, e.time)
           d == Dispatch(c, e)
           h == HandleEvent(g, e)
<1>1. e.time \in Int /\ UsableTime(e.time)
  BY TimelyTimes DEF Timely
<1>2. EngineSound(h)
  BY <1>1, HandlingIsSound DEF LiveSound
<1>3. h = IF e.type \in TerminalTypes THEN RetireEntity(d, e) ELSE d
  BY <1>1 DEF HandleEvent
<1>4. /\ EngineSound(f) /\ Dated(f)
      /\ \A id \in Id : Armed(f, id) => e.time < f.instances[id].monitor.deadline
      /\ \A id \in Id : PolicyOf(id).kind = "within" =>
           Says(g.verdicts[id], f.verdicts[id], id, e.time, {})
  BY <1>1, FireKeeps, FireDated DEF LiveSound
<1> HIDE DEF f
<1>5. /\ EngineSound(c) /\ Dated(c) /\ c.verdicts = f.verdicts
      /\ \A id \in Id : Armed(c, id) => Armed(f, id) /\ c.instances[id] = f.instances[id]
      /\ \A id \in Id : TTL # None /\ c.instances[id] # None =>
           DecidedAtLast(c, id) \/ e.time < c.instances[id].last + TTL
  BY <1>1, <1>4, ReclaimKeeps, ReclaimDated
<1> HIDE DEF c
<1>6. Prompt(c, e.time)
  <2>1. \A id \in Id : Armed(c, id) => e.time < c.instances[id].monitor.deadline
    BY <1>4, <1>5
  <2> QED  BY <1>5, <2>1 DEF Prompt
<1>7. /\ EngineSound(d) /\ Dated(d)
      /\ \A id \in Id : PolicyOf(id).kind = "within" =>
           Says(c.verdicts[id], d.verdicts[id], id, e.time, {})
  BY <1>1, <1>5, <1>6, DispatchKeeps, DispatchDated
<1> HIDE DEF d, h
<1>8. /\ Dated(h)
      /\ \A id \in Id : Says(d.verdicts[id], h.verdicts[id], id, e.time, {e})
  <2>1. CASE e.type \in TerminalTypes
    BY <1>3, <1>7, <2>1, RetireDated
  <2>2. CASE e.type \notin TerminalTypes
    BY <1>3, <1>7, <2>2 DEF Says
  <2> QED  BY <2>1, <2>2
<1>9. ASSUME NEW id \in Id, PolicyOf(id).kind = "within"
      PROVE  Says(g.verdicts[id], h.verdicts[id], id, e.time, {e})
  <2>1. Says(g.verdicts[id], c.verdicts[id], id, e.time, {})
    BY <1>4, <1>5, <1>9
  <2>2. Says(c.verdicts[id], d.verdicts[id], id, e.time, {})
    BY <1>7, <1>9
  <2>3. Says(d.verdicts[id], h.verdicts[id], id, e.time, {e})
    BY <1>8
  <2>4. e.time <= e.time /\ {} \subseteq {e}
    BY <1>1
  <2>5. Says(g.verdicts[id], d.verdicts[id], id, e.time, {})
    BY <1>1, <2>1, <2>2, <2>4, SaysMore
  <2> QED  BY <1>1, <2>3, <2>4, <2>5, SaysMore
<1> QED  BY <1>2, <1>8, <1>9 DEF LiveSound, h

(* Only the list of the invalid is touched by an event without a usable    *)
(* time.                                                                   *)
LEMMA InvalidIsSound ==
  ASSUME NEW g, LiveSound(g), NEW s
  PROVE  LiveSound([g EXCEPT !.invalid = s])
<1> DEFINE h == [g EXCEPT !.invalid = s]
<1>1. /\ DOMAIN h = DOMAIN g /\ h.instances = g.instances /\ h.verdicts = g.verdicts
      /\ h.deadlines = g.deadlines /\ h.ttlTimers = g.ttlTimers
  BY DEF LiveSound, EngineSound, EngineShape, EmptyEngine
<1> HIDE DEF h
<1>2. EngineSound(h)
  BY <1>1 DEF LiveSound, EngineSound, EngineShape, DeadlineQueued, TtlQueued, Armed, DecidedAtLast
<1>3. Dated(h)
  BY <1>1 DEF LiveSound, Dated
<1> QED  BY <1>2, <1>3 DEF LiveSound, h

(* All that a release hands over, handled.                                 *)
LEMMA AllDated ==
  ASSUME NEW g, LiveSound(g), NEW r \in Seq(Timely), NEW top \in Int,
         \A i \in 1 .. Len(r) : r[i].time <= top
  PROVE  LET h == HandleAll(g, r)
         IN /\ LiveSound(h)
            /\ \A id \in Id : PolicyOf(id).kind = "within" =>
                 Says(g.verdicts[id], h.verdicts[id], id, top, {r[i] : i \in 1 .. Len(r)})
<1> DEFINE N == Len(r)
           E == {r[i] : i \in 1 .. N}
<1>1. N \in Nat
  OBVIOUS
<1>2. PICK a : /\ a[0] = g
               /\ \A n \in 0 .. N : n # N => a[n + 1] = HandleEvent(a[n], r[n + 1])
               /\ HandleAll(g, r) = a[N]
  BY <1>1, AllHandled
<1> DEFINE Good(h) == /\ LiveSound(h)
                      /\ \A id \in Id : PolicyOf(id).kind = "within" =>
                           Says(g.verdicts[id], h.verdicts[id], id, top, E)
           S == {n \in 0 .. N : Good(a[n])}
<1>3. 0 \in S
  BY <1>1, <1>2 DEF Says
<1>4. ASSUME NEW n \in 0 .. N, n \in S, n # N
      PROVE  n + 1 \in S
  <2> DEFINE e == r[n + 1]
             h == a[n + 1]
             old == a[n]
  <2>1. n + 1 \in 1 .. N /\ n + 1 \in 0 .. N
    BY <1>1, <1>4
  <2>2. e \in Timely /\ e.time \in Int /\ e.time <= top /\ {e} \subseteq E
    BY <2>1, TimelyTimes
  <2>3. h = HandleEvent(old, e) /\ Good(old)
    BY <1>2, <1>4
  <2> HIDE DEF e, h, old, E
  <2>4. /\ LiveSound(h)
        /\ \A id \in Id : PolicyOf(id).kind = "within" =>
             Says(old.verdicts[id], h.verdicts[id], id, e.time, {e})
    BY <2>2, <2>3, HandleDated
  <2>5. ASSUME NEW id \in Id, PolicyOf(id).kind = "within"
        PROVE  Says(g.verdicts[id], h.verdicts[id], id, top, E)
    <3>1. Says(g.verdicts[id], old.verdicts[id], id, top, E)
      BY <2>3, <2>5
    <3>2. Says(old.verdicts[id], h.verdicts[id], id, top, E)
      BY <2>2, <2>4, <2>5 DEF Says, Grounded, ByDeadline
    <3> QED  BY <3>1, <3>2, SaysMore
  <2> QED  BY <2>1, <2>4, <2>5 DEF h
<1> HIDE DEF S, N
<1>5. N \in S
  <2>1. \A n \in 0 .. N : n \in S /\ n # N => n + 1 \in S
    BY <1>4
  <2>2. \A n \in 0 .. N : n \in S
    BY ONLY <1>1, <1>3, <2>1, Climb
  <2> QED  BY <1>1, <2>2
<1> QED  BY <1>2, <1>5 DEF S, N

-----------------------------------------------------------------------------
(* What the window still holds is not below its watermark.                 *)
Held(b) == Window(b) /\ \A x \in b.heap : b.watermark <= x.event.time

(* The events of a release: those below w, the rest stays.                 *)
Handed(b, c, r, w) ==
  LET S == {x \in b.heap : x.event.time < w}
  IN /\ w \in Int /\ b.watermark <= w
     /\ r = Events(InOrder(S)) /\ c.heap = b.heap \ S /\ c.watermark = w

(* They come in order, all below w.                                        *)
Follows(x, y) == x.time < y.time \/ (x.time = y.time /\ x.tie <= y.tie)
Sorted(s) == \A i, j \in 1 .. Len(s) : i < j => Follows(s[i], s[j])
LEMMA HandedFacts ==
  ASSUME NEW b, Window(b), NEW c, NEW r, NEW w, Handed(b, c, r, w)
  PROVE  /\ r \in Seq(Timely)
         /\ Sorted(r)
         /\ \A i \in 1 .. Len(r) : r[i].time < w /\ \E x \in b.heap : r[i] = x.event
<1> DEFINE S == {x \in b.heap : x.event.time < w}
           s == InOrder(S)
<1>1. S \subseteq b.heap /\ r = Events(s)
  BY DEF Handed
<1>2. IsFiniteSet(S) /\ Comparable(S) /\ Numbered(S)
  BY <1>1, HeapFacts
<1>3. \A x \in S : x.event.time < w /\ x \in b.heap
  OBVIOUS
<1> HIDE DEF S
<1>4. r \in Seq(Timely) /\ Len(r) = Cardinality(S)
  BY <1>1, PoppedEvents
<1>5. /\ s \in Seq(S) /\ Len(s) = Cardinality(S)
      /\ \A i, j \in 1 .. Cardinality(S) : i < j => Before(s[i], s[j])
  BY <1>2, InOrderIsSorted
<1> HIDE DEF s
<1>6. \A i \in 1 .. Len(r) : s[i] \in S /\ r[i] = s[i].event
  BY <1>1, <1>4, <1>5 DEF Events
<1>7. ASSUME NEW i \in 1 .. Len(r), NEW j \in 1 .. Len(r), i < j
      PROVE  Follows(r[i], r[j])
  <2>1. Before(s[i], s[j]) /\ s[i] \in S /\ s[j] \in S
    BY <1>4, <1>5, <1>6, <1>7
  <2>2. s[i].event.tie \in Int /\ s[j].event.tie \in Int
    BY <1>2, <2>1 DEF Comparable
  <2>3. r[i] = s[i].event /\ r[j] = s[j].event
    BY <1>6
  <2> DEFINE x == s[i]
             y == s[j]
  <2> HIDE DEF x, y
  <2>4. Before(x, y) /\ x.event.tie \in Int /\ y.event.tie \in Int
    BY <2>1, <2>2 DEF x, y
  <2>5. Follows(x.event, y.event)
    BY <2>4 DEF Before, Follows
  <2> QED  BY <2>3, <2>5 DEF x, y
<1>8. Sorted(r)
  BY <1>7 DEF Sorted
<1> QED  BY <1>3, <1>4, <1>6, <1>8

(* A release keeps the rest held.                                          *)
LEMMA HandedIsHeld ==
  ASSUME NEW b, Window(b), NEW c, Window(c), NEW r, NEW w, Handed(b, c, r, w)
  PROVE  Held(c)
<1>1. \A x \in c.heap : x.event.time \in Int /\ ~(x.event.time < w)
  BY TimelyTimes DEF Handed, Window, BufferType, Entries
<1> QED  BY <1>1 DEF Handed, Held

(* releasable(), after a push.                                             *)
LEMMA PushHands ==
  ASSUME NEW b, Held(b), NEW e \in Event
  PROVE  LET p == Push(b, e)
             c == AfterReleasable(p)
         IN /\ Window(p) /\ Window(c) /\ Held(p) /\ p.maxSeen \in Int
            /\ p.watermark = b.watermark
            /\ Handed(p, c, Events(Releasable(p)), c.watermark)
<1> DEFINE p == Push(b, e)
           w == Larger(p.watermark, p.maxSeen - Grace)
           S == {x \in p.heap : x.event.time < w}
           c == AfterReleasable(p)
<1>1. Window(p) /\ Window(b) /\ b \in BufferType
  BY PushKeepsWindow DEF Held, Window
<1>2. /\ w \in Int /\ Releasable(p) = InOrder(S) /\ Window(c)
      /\ c = [p EXCEPT !.heap = p.heap \ S, !.watermark = w]
  BY <1>1, ReleaseGives
<1>3. p.watermark = b.watermark /\ \A x \in p.heap : b.watermark <= x.event.time
  <2>1. \A x \in b.heap : b.watermark <= x.event.time
    BY DEF Held
  <2>2. CASE ~UsableTime(e.time)
    <3>1. p = [b EXCEPT !.invalid = Append(@, e)]
      BY <1>1, <2>2, PushKeepsWindow
    <3> HIDE DEF p
    <3> QED  BY <1>1, <2>1, <3>1 DEF BufferType
  <2>3. CASE UsableTime(e.time) /\ e.time < b.watermark
    <3>1. p = [b EXCEPT !.late = Append(@, e)]
      BY <1>1, <2>3, PushKeepsWindow
    <3> HIDE DEF p
    <3> QED  BY <1>1, <2>1, <3>1 DEF BufferType
  <2>4. CASE UsableTime(e.time) /\ ~(e.time < b.watermark)
    <3>1. p = [b EXCEPT !.heap = @ \cup {Entry(e, b.seq)}, !.seq = @ + 1,
                        !.maxSeen = Larger(@, e.time)]
      BY <1>1, <2>4, PushKeepsWindow
    <3> HIDE DEF p
    <3>2. p.heap = b.heap \cup {Entry(e, b.seq)} /\ p.watermark = b.watermark
      BY <1>1, <3>1 DEF BufferType
    <3>3. b.watermark <= e.time
      <4>1. e.time \in Int
        BY <2>4, TimelyTimes DEF Timely
      <4> QED  BY <1>1, <2>4, <4>1 DEF BufferType
    <3> QED  BY <2>1, <3>2, <3>3 DEF Entry
  <2> QED  BY <2>2, <2>3, <2>4
<1> HIDE DEF p
<1>4. p.maxSeen \in Int /\ p.watermark \in Int /\ p \in BufferType
  BY <1>1 DEF Window, BufferType
<1>5. c.heap = p.heap \ S /\ c.watermark = w
  <2> HIDE DEF S, w, c
  <2> QED  BY <1>2, <1>4 DEF BufferType
<1>6. p.watermark <= w
  BY <1>4, BufferAssumption DEF Larger
<1> HIDE DEF w, c
<1>7. Handed(p, c, Events(Releasable(p)), c.watermark)
  BY <1>2, <1>5, <1>6 DEF Handed
<1> QED  BY <1>1, <1>2, <1>3, <1>4, <1>7 DEF Held, c, p

(* release_through(due), after the clock has been advanced.                *)
LEMMA ThroughHands ==
  ASSUME NEW b, Held(b), NEW tick \in Int, NEW due \in Int
  PROVE  LET p == AdvanceClock(b, tick)
             c == AfterReleaseThrough(p, due)
         IN /\ Window(p) /\ Window(c) /\ p.heap = b.heap /\ p.watermark = b.watermark
            /\ Handed(p, c, Events(ReleaseThrough(p, due)), c.watermark)
            /\ c.watermark = Larger(b.watermark, due + 1)
<1> DEFINE p == AdvanceClock(b, tick)
           w == Larger(p.watermark, due + 1)
           S == {x \in p.heap : x.event.time < w}
           c == AfterReleaseThrough(p, due)
           q == CommitThrough(p, due)
<1>1. Window(b) /\ b \in BufferType
  BY DEF Held, Window
<1>2. /\ p = [b EXCEPT !.maxSeen = Larger(b.maxSeen, tick)]
      /\ Larger(b.maxSeen, tick) \in Int
  BY <1>1 DEF AdvanceClock, Larger, BufferType
<1> HIDE DEF p
<1>3. p \in BufferType /\ p.heap = b.heap /\ p.watermark = b.watermark /\ p.seq = b.seq
  BY <1>1, <1>2 DEF BufferType
<1>4. Window(p)
  BY <1>1, <1>3 DEF Window
<1>5. w \in Int /\ p.watermark \in Int /\ p.watermark <= w
  BY <1>3 DEF BufferType, Larger
<1>6. q = [p EXCEPT !.watermark = w]
  BY DEF CommitThrough, NextAfter
<1> HIDE DEF w
<1>7. q.heap = p.heap /\ q.watermark = w
  BY <1>3, <1>6 DEF BufferType
<1>8. Ripe(q) = S /\ ReleaseThrough(p, due) = InOrder(S)
  BY <1>7 DEF Ripe, ReleaseThrough
<1>9. c = Left(p, p.heap \ S, w)
  <2>1. c = [q EXCEPT !.heap = p.heap \ S]
    BY <1>7, <1>8 DEF AfterReleaseThrough, Drained
  <2> HIDE DEF S, c, q
  <2> QED  BY <1>3, <1>6, <2>1 DEF BufferType, Left
<1>10. Window(c) /\ c.heap = p.heap \ S /\ c.watermark = w
  <2> DEFINE R == p.heap \ S
  <2>1. R \subseteq p.heap
    OBVIOUS
  <2>2. c = Left(p, R, w)
    BY <1>9
  <2> HIDE DEF R, c
  <2>3. Window(c) /\ c.heap = R /\ c.watermark = w
    BY <1>4, <1>5, <2>1, <2>2, FewerEntries
  <2> QED  BY <2>3 DEF R
<1> HIDE DEF c
<1>11. Handed(p, c, Events(ReleaseThrough(p, due)), c.watermark)
  BY <1>5, <1>8, <1>10 DEF Handed
<1> QED  BY <1>3, <1>4, <1>10, <1>11 DEF c, p, w

-----------------------------------------------------------------------------
(* What the loop waits for are dates after the beginning of time, so there *)
(* is an earliest one.                                                     *)
LEMMA MomentsFacts ==
  ASSUME NEW b, Held(b), NEW g, LiveSound(g), Moments(b, g) # {}
  PROVE  LET due == Earliest(Moments(b, g))
         IN due \in Int /\ NegInf < due /\ \A m \in Moments(b, g) : due <= m
<1> DEFINE M == Moments(b, g)
           I == {m - NegInf : m \in M}
<1>1. NegInf \in Int /\ PosInf \in Int
  BY BufferAssumption
<1>2. ASSUME NEW m \in M
      PROVE  m \in Int /\ NegInf < m
  <2>1. \A t \in g.deadlines : t.when \in Int /\ NegInf < t.when
    BY DEF LiveSound, EngineSound, EngineShape, Dated
  <2>2. \A x \in b.heap : x.event.time \in Int /\ NegInf < x.event.time
    BY TimelyTimes DEF Held, Window, BufferType, Entries
  <2> QED  BY <2>1, <2>2 DEF Moments, BufferedTimes
<1> HIDE DEF M
<1>3. I \subseteq Nat /\ I # {}
  BY <1>1, <1>2 DEF M
<1>4. Earliest(I) \in I /\ \A j \in I : Earliest(I) <= j
  BY <1>3, EarliestIs
<1>5. PICK d \in M : Earliest(I) = d - NegInf
  BY <1>4
<1>6. \A m \in M : d <= m
  <2> TAKE m \in M
  <2>1. m - NegInf \in I
    OBVIOUS
  <2>2. d - NegInf <= m - NegInf
    BY <1>4, <1>5, <2>1
  <2> QED  BY <1>1, <1>2, <2>2
<1>7. Earliest(M) \in M /\ \A m \in M : Earliest(M) <= m
  BY <1>6 DEF Earliest
<1> QED  BY <1>2, <1>7 DEF M

(* What the variables are.  After the sentinel the engine is not used any  *)
(* more.                                                                   *)
LiveShapes ==
  /\ queue \in Seq(Event \cup {CLOSED})
  /\ wall \in Nat /\ front \in Int /\ anchor \in Int \cup {None}
  /\ running \in BOOLEAN
  /\ handled \in Seq(Timely)
  /\ Held(buffer)
  /\ running => LiveSound(eng)

(* At the start everything is empty.                                       *)
LEMMA InitLive == Init => LiveShapes
<1> SUFFICES ASSUME Init  PROVE LiveShapes
  OBVIOUS
<1>1. Held(EmptyBuffer)
  BY EmptyWindow DEF Held, EmptyBuffer
<1>2. LiveSound(EmptyEngine)
  BY EmptyIsSound DEF LiveSound, Dated, EmptyEngine
<1>3. NegInf \in Int
  BY BufferAssumption
<1> QED  BY <1>1, <1>2, <1>3 DEF Init, LiveShapes

(* The front never leaves the numbers.                                     *)
LEMMA FrontIsDate ==
  ASSUME LiveShapes, NEW t \in Int, AdvanceFront(t)
  PROVE  front' \in Int /\ anchor' \in Int \cup {None}
BY DEF LiveShapes, AdvanceFront

(* What an iteration that takes an event does with a window: it handles r, *)
(* which the window hands over.                                            *)
TakesFrom(r) ==
  LET p == Push(buffer, Head(queue))
  IN /\ Head(queue) \in Event /\ running /\ running'
     /\ Window(p) /\ Held(p) /\ p.watermark = buffer.watermark
     /\ Handed(p, buffer', r, buffer'.watermark) /\ Held(buffer')
     /\ eng' = HandleAll(eng, r) /\ handled' = handled \o r
LEMMA TakeBuffered ==
  ASSUME LiveShapes, Take, Buffered
  PROVE  /\ \E r : TakesFrom(r)
         /\ front' \in Int /\ anchor' \in Int \cup {None}
<1> DEFINE p == Push(buffer, Head(queue))
           r == Events(Releasable(p))
<1>1. /\ running /\ running' = running
      /\ buffer' = AfterReleasable(p) /\ AdvanceFront(p.maxSeen)
      /\ eng' = HandleAll(eng, r) /\ handled' = handled \o r
  BY DEF Take
<1>2. Head(queue) \in Event
  BY DEF LiveShapes, Take
<1>3. /\ Window(p) /\ Held(p) /\ p.maxSeen \in Int /\ p.watermark = buffer.watermark
      /\ Handed(p, buffer', r, buffer'.watermark) /\ Window(buffer')
  BY <1>1, <1>2, PushHands DEF LiveShapes
<1> HIDE DEF r
<1>4. Held(buffer')
  BY <1>3, HandedIsHeld
<1>5. front' \in Int /\ anchor' \in Int \cup {None}
  BY <1>1, <1>3, FrontIsDate
<1>6. TakesFrom(r)
  BY <1>1, <1>2, <1>3, <1>4 DEF TakesFrom
<1> QED  BY <1>5, <1>6

(* What a wall fire for the moment due does: it handles r, all of it not   *)
(* later than due, and leaves nothing held that is.                        *)
FiresAt(due, r) ==
  /\ due \in Int /\ r \in Seq(Timely) /\ Sorted(r)
  /\ \A i \in 1 .. Len(r) : r[i].time <= due /\ buffer.watermark <= r[i].time
  /\ Buffered => /\ \A i \in 1 .. Len(r) : r[i].time < buffer'.watermark
                 /\ buffer.watermark <= buffer'.watermark
                 /\ \A x \in buffer'.heap : due < x.event.time
  /\ eng' = FireDueDeadlines(HandleAll(eng, r), due + Grace + 1)
  /\ handled' = handled \o r /\ Held(buffer')
LEMMA WallFireGives ==
  ASSUME LiveShapes, WallFire
  PROVE  /\ \E r : FiresAt(Earliest(Moments(buffer, eng)), r)
         /\ front' \in Int /\ anchor' \in Int \cup {None} /\ running /\ running'
         /\ UNCHANGED <<sourceVars, wall>>
<1> DEFINE due == Earliest(Moments(buffer, eng))
           tick == due + Grace + 1
           b == AdvanceClock(buffer, tick)
           r == IF Buffered THEN Events(ReleaseThrough(b, due)) ELSE <<>>
<1>1. /\ running /\ running' = running /\ UNCHANGED <<sourceVars, wall>>
      /\ Moments(buffer, eng) # {}
      /\ buffer' = IF Buffered THEN AfterReleaseThrough(b, due) ELSE buffer
      /\ AdvanceFront(tick)
      /\ eng' = FireDueDeadlines(HandleAll(eng, r), tick) /\ handled' = handled \o r
  BY DEF WallFire, MayTimeOut, NextAfter
<1>2. due \in Int
  BY <1>1, MomentsFacts DEF LiveShapes
<1>3. Grace \in Nat /\ tick \in Int
  BY <1>2, BufferAssumption
<1> HIDE DEF due
<1>4. Held(buffer) /\ Window(buffer)
  BY DEF LiveShapes, Held
<1>5. front' \in Int /\ anchor' \in Int \cup {None}
  BY <1>1, <1>3, FrontIsDate
<1>6. CASE Buffered
  <2> DEFINE w == Larger(buffer.watermark, due + 1)
  <2>1. /\ Window(b) /\ Window(buffer') /\ b.heap = buffer.heap
        /\ b.watermark = buffer.watermark
        /\ Handed(b, buffer', r, buffer'.watermark)
        /\ buffer'.watermark = w
    BY <1>1, <1>2, <1>3, <1>4, <1>6, ThroughHands
  <2> HIDE DEF r, b, w
  <2>2. Held(buffer')
    BY <2>1, HandedIsHeld
  <2>3. /\ r \in Seq(Timely) /\ Sorted(r)
        /\ \A i \in 1 .. Len(r) : r[i].time < buffer'.watermark /\ \E x \in b.heap : r[i] = x.event
    BY <2>1, HandedFacts
  <2>4. buffer.watermark \in Int /\ w \in Int /\ buffer.watermark <= w /\ due < w
    BY <1>2, <1>4 DEF Window, BufferType, Larger, w
  <2>5. ASSUME NEW i \in 1 .. Len(r)
        PROVE  r[i].time <= due /\ buffer.watermark <= r[i].time
    <3>1. buffer.watermark <= r[i].time /\ r[i].time < w
      BY <1>4, <2>1, <2>3 DEF Held
    <3>2. r[i].time \in Int
      BY <2>3, TimelyTimes
    <3> QED  BY <1>2, <2>4, <3>1, <3>2 DEF w, Larger
  <2>6. \A x \in buffer'.heap : due < x.event.time
    <3> TAKE x \in buffer'.heap
    <3>1. w <= x.event.time
      BY <2>1, <2>2 DEF Held
    <3>2. x.event.time \in Int
      BY <2>1, TimelyTimes DEF Window, BufferType, Entries
    <3> QED  BY <1>2, <2>4, <3>1, <3>2
  <2>7. FiresAt(due, r)
    BY <1>1, <1>2, <2>1, <2>2, <2>3, <2>4, <2>5, <2>6 DEF FiresAt
  <2> QED  BY <1>1, <1>5, <2>7 DEF due
<1>7. CASE ~Buffered
  <2>1. r = <<>> /\ buffer' = buffer
    BY <1>1, <1>7
  <2>2. <<>> \in Seq(Timely) /\ Len(<<>>) = 0
    OBVIOUS
  <2> HIDE DEF r
  <2>3. r \in Seq(Timely) /\ 1 .. Len(r) = {}
    BY <2>1, <2>2
  <2>4. FiresAt(due, r)
    BY <1>1, <1>2, <1>4, <1>7, <2>1, <2>3 DEF FiresAt, Sorted
  <2> QED  BY <1>1, <1>5, <2>4 DEF due
<1> QED  BY <1>6, <1>7

(* Events added at the end.                                                *)
LEMMA HandledMore ==
  ASSUME NEW s \in Seq(Timely), NEW r \in Seq(Timely)
  PROVE  /\ s \o r \in Seq(Timely) /\ Len(s \o r) = Len(s) + Len(r)
         /\ \A i \in 1 .. Len(s \o r) :
              (s \o r)[i] = IF i <= Len(s) THEN s[i] ELSE r[i - Len(s)]
         /\ \A i \in 1 .. Len(s) : (s \o r)[i] = s[i]
         /\ \A i \in 1 .. Len(r) : (s \o r)[Len(s) + i] = r[i]
<1>1. s \o r \in Seq(Timely) /\ Len(s \o r) = Len(s) + Len(r)
  BY ConcatProperties
<1>2. \A i \in 1 .. Len(s) + Len(r) :
        (s \o r)[i] = IF i <= Len(s) THEN s[i] ELSE r[i - Len(s)]
  BY ConcatProperties
<1>3. Len(s) \in Nat /\ Len(r) \in Nat
  OBVIOUS
<1> QED  BY <1>1, <1>2, <1>3

(* What an iteration that takes an event does without a window.            *)
LEMMA TakeUnbuffered ==
  ASSUME LiveShapes, Take, ~Buffered
  PROVE  LET e == Head(queue)
         IN /\ e \in Event /\ running /\ running' /\ buffer' = buffer
            /\ front' \in Int /\ anchor' \in Int \cup {None}
            /\ eng' = HandleEvent(eng, e)
            /\ UsableTime(e.time) => handled' = Append(handled, e)
            /\ ~UsableTime(e.time) => handled' = handled
<1> DEFINE e == Head(queue)
<1>1. /\ running /\ running' = running /\ queue # <<>> /\ e # CLOSED
      /\ buffer' = buffer /\ eng' = HandleEvent(eng, e)
      /\ UsableTime(e.time) => AdvanceFront(e.time) /\ handled' = Append(handled, e)
      /\ ~UsableTime(e.time) => front' = front /\ anchor' = anchor /\ handled' = handled
  BY DEF Take
<1>2. e \in Event
  BY <1>1 DEF LiveShapes
<1>3. UsableTime(e.time) => e.time \in Int
  BY <1>2, TimelyTimes DEF Timely
<1> HIDE DEF e
<1>4. front' \in Int /\ anchor' \in Int \cup {None}
  BY <1>1, <1>3, FrontIsDate DEF LiveShapes
<1> QED  BY <1>1, <1>2, <1>4 DEF e

(* The end of the run handles what the flush hands over.                   *)
LEMMA FinishGives ==
  ASSUME LiveShapes, NEW emitPending, Finish(emitPending)
  PROVE  /\ Held(buffer') /\ running' = FALSE
         /\ \E r \in Seq(Timely) : handled' = handled \o r
<1> DEFINE r == IF Buffered THEN Events(Flush(buffer)) ELSE <<>>
<1>1. /\ buffer' = IF Buffered THEN AfterFlush(buffer) ELSE buffer
      /\ handled' = handled \o r /\ running' = FALSE
  BY DEF Finish
<1>2. Window(buffer)
  BY DEF LiveShapes, Held
<1>3. Held(buffer')
  <2>1. CASE Buffered
    <3>1. Window(buffer') /\ buffer'.heap = {}
      BY <1>1, <1>2, <2>1, FlushGives
    <3> QED  BY <3>1 DEF Held
  <2>2. CASE ~Buffered
    BY <1>1, <2>2 DEF LiveShapes
  <2> QED  BY <2>1, <2>2
<1>4. r \in Seq(Timely)
  <2>1. CASE Buffered
    BY <1>2, <2>1, PoppedEvents DEF Flush
  <2>2. CASE ~Buffered
    BY <2>2
  <2> QED  BY <2>1, <2>2
<1> QED  BY <1>1, <1>3, <1>4

(* Every iteration, and everything around it, keeps the shapes.            *)
LEMMA StepLive ==
  ASSUME LiveShapes, [Next]_vars
  PROVE  LiveShapes'
<1>1. ASSUME NEW e \in Event, Push1(e)
      PROVE  LiveShapes'
  <2>1. queue' = Append(queue, e) /\ queue' \in Seq(Event \cup {CLOSED})
    BY <1>1 DEF Push1, LiveShapes
  <2> QED  BY <1>1, <2>1 DEF Push1, LiveShapes, engineVars
<1>2. CASE Close
  <2>1. queue' = Append(queue, CLOSED) /\ queue' \in Seq(Event \cup {CLOSED})
    BY <1>2 DEF Close, LiveShapes
  <2> QED  BY <1>2, <2>1 DEF Close, LiveShapes, engineVars
<1>3. CASE Tick
  BY <1>3, LiveAssumption DEF Tick, LiveShapes, engineVars, sourceVars
<1>4. CASE Take
  <2>1. queue' \in Seq(Event \cup {CLOSED}) /\ wall' = wall
    BY <1>4 DEF Take, LiveShapes
  <2>2. wall' \in Nat /\ handled \in Seq(Timely) /\ LiveShapes
    BY <2>1 DEF LiveShapes
  <2>3. CASE Buffered
    <3>1. PICK r : TakesFrom(r)
      BY <1>4, <2>3, TakeBuffered
    <3>2. front' \in Int /\ anchor' \in Int \cup {None}
      BY <1>4, <2>3, TakeBuffered
    <3> DEFINE p == Push(buffer, Head(queue))
    <3>3. /\ running /\ running' /\ Window(p) /\ Handed(p, buffer', r, buffer'.watermark)
          /\ Held(buffer') /\ eng' = HandleAll(eng, r) /\ handled' = handled \o r
      BY <3>1 DEF TakesFrom
    <3> HIDE DEF p
    <3>4. /\ r \in Seq(Timely) /\ Sorted(r)
          /\ \A i \in 1 .. Len(r) :
               r[i].time < buffer'.watermark /\ \E x \in p.heap : r[i] = x.event
      BY <3>3, HandedFacts
    <3>5. buffer'.watermark \in Int
      BY <3>3 DEF Handed
    <3>6. \A i \in 1 .. Len(r) : r[i].time <= buffer'.watermark
      BY <3>4, <3>5, TimelyTimes
    <3>7. LiveSound(eng)
      BY <3>3 DEF LiveShapes
    <3>8. LiveSound(eng')
      BY <3>3, <3>4, <3>5, <3>6, <3>7, AllDated
    <3>9. handled' \in Seq(Timely)
      BY <2>2, <3>3, <3>4, HandledMore
    <3>10. running' \in BOOLEAN
      BY <3>3, <1>4 DEF Take, LiveShapes
    <3> QED  BY <2>1, <2>2, <3>2, <3>3, <3>8, <3>9, <3>10 DEF LiveShapes
  <2>4. CASE ~Buffered
    <3> DEFINE e == Head(queue)
    <3>1. /\ e \in Event /\ running /\ running' /\ buffer' = buffer
          /\ front' \in Int /\ anchor' \in Int \cup {None}
          /\ eng' = HandleEvent(eng, e)
          /\ UsableTime(e.time) => handled' = Append(handled, e)
          /\ ~UsableTime(e.time) => handled' = handled
      BY <1>4, <2>4, TakeUnbuffered
    <3>2. LiveSound(eng) /\ Held(buffer') /\ running' \in BOOLEAN
      BY <3>1, <1>4 DEF LiveShapes, Take
    <3> HIDE DEF e
    <3>3. CASE UsableTime(e.time)
      <4>1. e \in Timely
        BY <3>1, <3>3 DEF Timely
      <4>2. LiveSound(eng')
        BY <3>1, <3>2, <4>1, HandleDated
      <4>3. handled' \in Seq(Timely)
        BY <2>2, <3>1, <3>3, <4>1
      <4> QED  BY <2>1, <2>2, <3>1, <3>2, <4>2, <4>3 DEF LiveShapes
    <3>4. CASE ~UsableTime(e.time)
      <4>1. eng' = [eng EXCEPT !.invalid = Append(eng.invalid, e)]
        BY <3>1, <3>4 DEF HandleEvent
      <4>2. LiveSound(eng')
        BY <3>2, <4>1, InvalidIsSound
      <4> QED  BY <2>1, <2>2, <3>1, <3>2, <3>4, <4>2 DEF LiveShapes
    <3> QED  BY <3>3, <3>4
  <2> QED  BY <2>3, <2>4
<1>5. CASE WallFire
  <2> DEFINE due == Earliest(Moments(buffer, eng))
             top == due + Grace + 1
  <2>1. PICK r : FiresAt(due, r)
    BY <1>5, WallFireGives
  <2>2. /\ front' \in Int /\ anchor' \in Int \cup {None} /\ running /\ running'
        /\ UNCHANGED <<sourceVars, wall>>
    BY <1>5, WallFireGives
  <2> HIDE DEF due
  <2>3. /\ due \in Int /\ r \in Seq(Timely) /\ \A i \in 1 .. Len(r) : r[i].time <= due
        /\ eng' = FireDueDeadlines(HandleAll(eng, r), due + Grace + 1)
        /\ handled' = handled \o r /\ Held(buffer')
    BY <2>1 DEF FiresAt
  <2>4. LiveSound(eng) /\ handled \in Seq(Timely) /\ wall' \in Nat
        /\ queue' \in Seq(Event \cup {CLOSED})
    BY <2>2 DEF LiveShapes, sourceVars
  <2>5. top \in Int
    BY <2>3, BufferAssumption
  <2> DEFINE h == HandleAll(eng, r)
  <2>6. LiveSound(h)
    BY <2>3, <2>4, AllDated
  <2> HIDE DEF h, top
  <2>7. LiveSound(FireDueDeadlines(h, top))
    BY <2>5, <2>6, FireKeeps, FireDated DEF LiveSound
  <2>8. LiveSound(eng')
    BY <2>3, <2>7 DEF h, top
  <2>9. handled' \in Seq(Timely)
    BY <2>3, <2>4, HandledMore
  <2>10. running' \in BOOLEAN
    BY <1>5 DEF WallFire, LiveShapes
  <2> QED  BY <2>2, <2>3, <2>4, <2>8, <2>9, <2>10 DEF LiveShapes
<1>6. ASSUME NEW emitPending \in BOOLEAN, Finish(emitPending)
      PROVE  LiveShapes'
  <2>1. PICK r \in Seq(Timely) : handled' = handled \o r
    BY <1>6, FinishGives
  <2>2. Held(buffer') /\ running' = FALSE
    BY <1>6, FinishGives
  <2>3. queue' \in Seq(Event \cup {CLOSED}) /\ UNCHANGED <<wall, front, anchor>>
    BY <1>6 DEF Finish, LiveShapes
  <2>4. handled' \in Seq(Timely)
    BY <2>1, HandledMore DEF LiveShapes
  <2> QED  BY <2>2, <2>3, <2>4 DEF LiveShapes
<1>7. CASE UNCHANGED vars
  BY <1>7 DEF vars, sourceVars, engineVars, LiveShapes
<1> QED  BY <1>1, <1>2, <1>3, <1>4, <1>5, <1>6, <1>7 DEF Next, Loop

(* So they hold throughout.                                                *)
LEMMA LiveThroughout == Spec => []LiveShapes
<1>1. Init => LiveShapes
  BY InitLive
<1>2. LiveShapes /\ [Next]_vars => LiveShapes'
  BY StepLive
<1> QED  BY <1>1, <1>2, PTL DEF Spec

-----------------------------------------------------------------------------
(* Only a wall fire moves neither the queue nor the wall clock.            *)
LEMMA OnlyWallFires ==
  ASSUME LiveShapes, Next, Fires
  PROVE  WallFire
<1>1. queue' = queue /\ wall' = wall /\ Len(queue) \in Nat /\ wall \in Nat
  BY DEF Fires, LiveShapes
<1>2. \A x : x \in Event \cup {CLOSED} => Append(queue, x) # queue
  <2> SUFFICES ASSUME NEW x \in Event \cup {CLOSED}
               PROVE  Append(queue, x) # queue
    OBVIOUS
  <2>1. Len(Append(queue, x)) = Len(queue) + 1
    BY DEF LiveShapes
  <2> QED  BY <1>1, <2>1
<1>3. queue # <<>> => Tail(queue) # queue
  <2>1. queue # <<>> => Len(Tail(queue)) = Len(queue) - 1
    BY DEF LiveShapes
  <2> QED  BY <1>1, <2>1
<1>4. \A e \in Event : ~Push1(e)
  BY <1>1, <1>2 DEF Push1
<1>5. ~Close
  BY <1>1, <1>2 DEF Close
<1>6. ~Tick
  BY <1>1, LiveAssumption DEF Tick
<1>7. ~Take
  BY <1>1, <1>3 DEF Take
<1>8. \A emitPending \in BOOLEAN : ~Finish(emitPending)
  BY <1>1, <1>3 DEF Finish
<1> QED  BY <1>4, <1>5, <1>6, <1>7, <1>8 DEF Next, Loop

(* What a wall fire says of the timed ids, and what it leaves to wait for. *)
LEMMA WallFireSays ==
  ASSUME LiveShapes, NEW due, NEW r, FiresAt(due, r), running
  PROVE  LET h == HandleAll(eng, r)
             E == {r[i] : i \in 1 .. Len(r)}
         IN /\ due + Grace + 1 \in Int /\ due < due + Grace + 1
            /\ LiveSound(h)
            /\ \A t \in eng'.deadlines : due + Grace + 1 < t.when /\ t.when \in Int
            /\ \A id \in Id : PolicyOf(id).kind = "within" =>
                 /\ Says(eng.verdicts[id], h.verdicts[id], id, due, E)
                 /\ Says(h.verdicts[id], eng'.verdicts[id], id, due + Grace + 1, {})
<1> DEFINE h == HandleAll(eng, r)
           E == {r[i] : i \in 1 .. Len(r)}
           top == due + Grace + 1
           f == FireDueDeadlines(h, top)
<1>1. /\ due \in Int /\ r \in Seq(Timely) /\ \A i \in 1 .. Len(r) : r[i].time <= due
      /\ eng' = f
  BY DEF FiresAt
<1>2. top \in Int /\ due < top
  BY <1>1, BufferAssumption
<1>3. LiveSound(eng)
  BY DEF LiveShapes
<1>4. /\ LiveSound(h)
      /\ \A id \in Id : PolicyOf(id).kind = "within" =>
           Says(eng.verdicts[id], h.verdicts[id], id, due, E)
  BY <1>1, <1>3, AllDated
<1> HIDE DEF h, top
<1>5. /\ \A t \in f.deadlines : t.when > top
      /\ \A id \in Id : PolicyOf(id).kind = "within" =>
           Says(h.verdicts[id], f.verdicts[id], id, top, {})
  BY <1>2, <1>4, FireDated DEF LiveSound
<1>6. EngineSound(f)
  BY <1>2, <1>4, FireKeeps DEF LiveSound
<1>7. \A t \in f.deadlines : top < t.when /\ t.when \in Int
  BY <1>2, <1>5, <1>6 DEF EngineSound, EngineShape
<1> HIDE DEF f, E
<1>8. /\ \A t \in eng'.deadlines : top < t.when /\ t.when \in Int
      /\ \A id \in Id : PolicyOf(id).kind = "within" =>
           /\ Says(eng.verdicts[id], h.verdicts[id], id, due, E)
           /\ Says(h.verdicts[id], eng'.verdicts[id], id, top, {})
  BY <1>1, <1>4, <1>5, <1>7
<1> QED  BY <1>2, <1>4, <1>8 DEF h, top, E

(* A wall fire leaves nothing to wait for at the moment it fired for, so   *)
(* the loop never spins on one moment (watermark.py:124-128): it has       *)
(* handled what the window held up to that moment, and fired the deadlines *)
(* up to a grace after it.                                                 *)
THEOREM TheLoopMovesOn == Spec => NoBusySpin
<1> DEFINE Moved == Fires => \A m \in Moments(buffer, eng)' : m > Earliest(Moments(buffer, eng))
<1>1. LiveShapes /\ [Next]_vars => [Moved]_vars
  <2> SUFFICES ASSUME LiveShapes, Next, Fires, NEW m \in Moments(buffer', eng')
               PROVE  m > Earliest(Moments(buffer, eng))
    BY DEF Moments
  <2> DEFINE due == Earliest(Moments(buffer, eng))
  <2>1. WallFire
    BY OnlyWallFires
  <2>2. PICK r : FiresAt(due, r)
    BY <2>1, WallFireGives
  <2>3. running
    BY <2>1 DEF WallFire
  <2> HIDE DEF due
  <2>4. /\ due + Grace + 1 \in Int /\ due < due + Grace + 1
        /\ \A t \in eng'.deadlines : due + Grace + 1 < t.when /\ t.when \in Int
    BY <2>2, <2>3, WallFireSays
  <2>5. due \in Int /\ (Buffered => \A x \in buffer'.heap : due < x.event.time)
    BY <2>2 DEF FiresAt
  <2>6. due < m
    <3>1. CASE \E t \in eng'.deadlines : m = t.when
      BY <2>4, <2>5, <3>1
    <3>2. CASE Buffered /\ \E x \in buffer'.heap : m = x.event.time
      BY <2>5, <3>2
    <3> QED  BY <3>1, <3>2 DEF Moments, BufferedTimes
  <2>7. m \in Int
    <3>1. CASE \E t \in eng'.deadlines : m = t.when
      BY <2>4, <3>1
    <3>2. CASE Buffered /\ \E x \in buffer'.heap : m = x.event.time
      <4>1. Held(buffer')
        BY <2>2 DEF FiresAt
      <4> QED  BY <3>2, <4>1, TimelyTimes DEF Held, Window, BufferType, Entries
    <3> QED  BY <3>1, <3>2 DEF Moments, BufferedTimes
  <2> QED  BY <2>5, <2>6, <2>7 DEF due
<1>2. Spec => [][Moved]_vars
  BY <1>1, LiveThroughout, PTL DEF Spec
<1> QED  BY <1>2 DEF NoBusySpin

(* A timeout reported by a wall fire, for want of the response and not     *)
(* because an event released with it ended the entity, is dated by the     *)
(* deadline of its trigger and comes no earlier than the wall estimate of  *)
(* stream time reaches it, give or take an ulp (SEMANTICS.md:271-274).     *)
THEOREM TimeoutsAreDue == Spec => TimeoutIsDue
<1> DEFINE
      ThisIsDue(id) ==
        PolicyOf(id).kind = "within" /\ eng.verdicts'[id] # eng.verdicts[id] =>
          LET v == eng.verdicts'[id][Len(eng.verdicts'[id])] IN
          Len(v.because) = 1 /\ ~EndedBy(v.at) =>
            /\ v.verdict = "violated"
            /\ v.at = v.because[1].time + PolicyOf(id).seconds
            /\ NextAfter(front + (wall - anchor)) >= v.at
      IsDue == Fires => \A id \in Id : ThisIsDue(id)
<1>1. LiveShapes /\ [Next]_vars => [IsDue]_vars
  <2> SUFFICES ASSUME LiveShapes, Next, Fires, NEW id \in Id, PolicyOf(id).kind = "within"
               PROVE  ThisIsDue(id)
    OBVIOUS
  <2> DEFINE due == Earliest(Moments(buffer, eng))
             top == due + Grace + 1
             w == eng'.verdicts[id]
             v == w[Len(w)]
  <2>1. WallFire
    BY OnlyWallFires
  <2>2. PICK r : FiresAt(due, r)
    BY <2>1, WallFireGives
  <2> DEFINE h == HandleAll(eng, r)
             E == {r[i] : i \in 1 .. Len(r)}
  <2>3. running /\ anchor # None /\ front + (wall - anchor) >= due + Grace
    BY <2>1 DEF WallFire, MayTimeOut
  <2> HIDE DEF due
  <2>4. /\ due \in Int /\ top \in Int /\ due <= top
        /\ Says(eng.verdicts[id], h.verdicts[id], id, due, E)
        /\ Says(h.verdicts[id], w, id, top, {})
    <3>1. /\ due + Grace + 1 \in Int /\ due < due + Grace + 1
          /\ \A x \in Id : PolicyOf(x).kind = "within" =>
               /\ Says(eng.verdicts[x], h.verdicts[x], x, due, E)
               /\ Says(h.verdicts[x], eng'.verdicts[x], x, due + Grace + 1, {})
      BY <2>2, <2>3, WallFireSays
    <3>2. due \in Int
      BY <2>2 DEF FiresAt
    <3> HIDE DEF h, E
    <3> QED  BY <3>1, <3>2
  <2> HIDE DEF h, top
  <2>5. Says(eng.verdicts[id], w, id, top, E)
    <3> HIDE DEF E, w
    <3>1. Says(h.verdicts[id], w, id, top, E)
      BY <2>4 DEF Says, Grounded
    <3> QED  BY <2>4, <3>1, SaysMore
  <2>6. ASSUME NEW e \in E, e.type \in TerminalTypes, e.time = v.at
        PROVE  EndedBy(v.at)
    <3>1. PICK i \in 1 .. Len(r) : e = r[i]
      OBVIOUS
    <3>2. handled \in Seq(Timely) /\ r \in Seq(Timely) /\ handled' = handled \o r
      BY <2>2 DEF FiresAt, LiveShapes
    <3> DEFINE k == Len(handled) + i
    <3>3. handled'[k] = r[i] /\ Len(handled') = Len(handled) + Len(r)
      BY <3>2, HandledMore
    <3>4. k \in Len(handled) + 1 .. Len(handled')
      BY <3>2, <3>3
    <3> HIDE DEF k, v
    <3> QED  BY <2>6, <3>1, <3>3, <3>4 DEF EndedBy
  <2> HIDE DEF E
  <2>7. ASSUME w # eng.verdicts[id], Len(v.because) = 1, ~EndedBy(v.at)
        PROVE  ByDeadline(v, id, top)
    BY <2>5, <2>6, <2>7 DEF Says, Grounded
  <2>8. front + (wall - anchor) + 1 >= top
    <3>1. front \in Int /\ wall \in Int /\ anchor \in Int
      BY <2>3 DEF LiveShapes
    <3> QED  BY <2>3, <2>4, <3>1, BufferAssumption DEF top
  <2>9. ASSUME ByDeadline(v, id, top)
        PROVE  /\ v.verdict = "violated"
               /\ v.at = v.because[1].time + PolicyOf(id).seconds
               /\ NextAfter(front + (wall - anchor)) >= v.at
    <3>1. front + (wall - anchor) + 1 \in Int
      BY <2>3 DEF LiveShapes
    <3>2. v.at \in Int /\ v.at <= top
      BY <2>9 DEF ByDeadline
    <3> HIDE DEF v
    <3>3. NextAfter(front + (wall - anchor)) >= v.at
      BY <2>4, <2>8, <3>1, <3>2 DEF NextAfter
    <3> QED  BY <2>9, <3>3 DEF ByDeadline
  <2> QED  BY <2>7, <2>9
<1>2. Spec => [][IsDue]_vars
  BY <1>1, LiveThroughout, PTL DEF Spec
<1> QED  BY <1>2 DEF TimeoutIsDue

-----------------------------------------------------------------------------
(* Sorted events, numbered as they come, are in the window's order.        *)
LEMMA SortedIsCanonical ==
  ASSUME NEW s \in Seq(Timely), Sorted(s)
  PROVE  Canonical(s) = s
<1> DEFINE n == Len(s)
           S == {Entry(s[i], i) : i \in DOMAIN s}
           f == [i \in 1 .. n |-> Entry(s[i], i)]
<1>1. n \in Nat /\ DOMAIN s = 1 .. n
  OBVIOUS
<1>2. /\ \A i \in 1 .. n : f[i] \in S /\ f[i].event = s[i] /\ f[i].seq = i
      /\ \A x \in S : \E i \in 1 .. n : x = f[i]
  BY <1>1 DEF Entry
<1>3. f \in [1 .. n -> S] /\ f \in Seq(S) /\ Len(f) = n /\ DOMAIN f = 1 .. n
  BY <1>1, <1>2
<1>4. \A i \in 1 .. n : s[i].time \in Int /\ s[i].tie \in Int
  BY TimelyTimes
<1> HIDE DEF f, S, n
<1>5. Comparable(S) /\ Numbered(S)
  BY <1>1, <1>2, <1>4 DEF Comparable, Numbered
<1>6. IsFiniteSet(S) /\ Cardinality(S) = n
  <2>1. f \in Bijection(1 .. n, S)
    <3>1. \A i, j \in 1 .. n : f[i] = f[j] => i = j
      BY <1>2
    <3>2. \A x \in S : \E i \in 1 .. n : f[i] = x
      BY <1>2
    <3> QED  BY <1>3, <3>1, <3>2 DEF Bijection, Injection, Surjection, IsInjective
  <2>2. ExistsBijection(1 .. n, S)
    BY <2>1 DEF ExistsBijection
  <2>3. IsFiniteSet(1 .. n) /\ Cardinality(1 .. n) = n
    BY <1>1, UpTo
  <2> QED  BY <2>2, <2>3, FS_Bijection
<1>7. \A i, j \in 1 .. n : i < j => Before(f[i], f[j])
  <2> SUFFICES ASSUME NEW i \in 1 .. n, NEW j \in 1 .. n, i < j
               PROVE  Before(f[i], f[j])
    OBVIOUS
  <2>1. Follows(s[i], s[j])
    BY DEF Sorted, n
  <2>2. s[i].time < s[j].time \/ (s[i].time = s[j].time /\ s[i].tie <= s[j].tie)
    BY <2>1 DEF Follows
  <2>3. f[i].event = s[i] /\ f[j].event = s[j] /\ f[i].seq < f[j].seq
    BY <1>2
  <2>4. s[i].tie \in Int /\ s[j].tie \in Int
    BY <1>4
  <2> QED  BY ONLY <2>2, <2>3, <2>4 DEF Before
<1>8. f = InOrder(S)
  BY <1>3, <1>5, <1>6, <1>7, OneOrder
<1>9. Events(f) = s
  <2>1. Events(f) = [i \in 1 .. n |-> s[i]]
    BY <1>2, <1>3 DEF Events
  <2> QED  BY <1>1, <2>1
<1> QED  BY <1>8, <1>9 DEF Canonical, S

(* What a release adds, not below what came before, keeps the order.       *)
LEMMA SortedMore ==
  ASSUME NEW s \in Seq(Timely), Sorted(s), NEW r \in Seq(Timely), Sorted(r),
         \A i \in 1 .. Len(s), j \in 1 .. Len(r) : s[i].time < r[j].time
  PROVE  Sorted(s \o r)
<1> DEFINE t == s \o r
<1>1. /\ t \in Seq(Timely) /\ Len(t) = Len(s) + Len(r)
      /\ \A i \in 1 .. Len(t) : t[i] = IF i <= Len(s) THEN s[i] ELSE r[i - Len(s)]
  BY HandledMore
<1>2. Len(s) \in Nat /\ Len(r) \in Nat
  OBVIOUS
<1> HIDE DEF t
<1> SUFFICES ASSUME NEW i \in 1 .. Len(t), NEW j \in 1 .. Len(t), i < j
             PROVE  Follows(t[i], t[j])
  BY DEF Sorted, t
<1>3. CASE j <= Len(s)
  BY <1>1, <1>2, <1>3 DEF Sorted
<1>4. CASE i <= Len(s) /\ ~(j <= Len(s))
  <2>1. /\ t[i] = s[i] /\ t[j] = r[j - Len(s)]
        /\ i \in 1 .. Len(s) /\ j - Len(s) \in 1 .. Len(r)
    BY <1>1, <1>2, <1>4
  <2> QED  BY <2>1 DEF Follows
<1>5. CASE ~(i <= Len(s))
  <2>1. /\ t[i] = r[i - Len(s)] /\ t[j] = r[j - Len(s)]
        /\ i - Len(s) \in 1 .. Len(r) /\ j - Len(s) \in 1 .. Len(r) /\ i - Len(s) < j - Len(s)
    BY <1>1, <1>2, <1>5
  <2> QED  BY <2>1 DEF Sorted
<1> QED  BY <1>1, <1>2, <1>3, <1>4, <1>5

(* All that a release hands over, in order, keeps the book when nothing is *)
(* ever reclaimed.                                                         *)
LEMMA AllTracked ==
  ASSUME TTL = None, NEW g, EngineSound(g),
         NEW id \in Id, Life!WellPosed(PolicyOf(id)),
         NEW s \in Seq(Timely), Book(g, id, s, {}), NEW r \in Seq(Timely), Sorted(s \o r)
  PROVE  Book(HandleAll(g, r), id, s \o r, {})
<1> DEFINE N == Len(r)
           k == Len(s)
           t == s \o r
           upTo(n) == [i \in 1 .. k + n |-> t[i]]
<1>1. N \in Nat /\ k \in Nat
  OBVIOUS
<1>2. /\ t \in Seq(Timely) /\ Len(t) = k + N
      /\ \A i \in 1 .. k : t[i] = s[i]
      /\ \A i \in 1 .. N : t[k + i] = r[i]
  BY HandledMore
<1>3. \A i, j \in 1 .. k + N : i < j => t[i].time <= t[j].time
  <2> HIDE DEF t, k, N
  <2>1. \A i \in 1 .. k + N : t[i].time \in Int
    BY <1>2, TimelyTimes
  <2>2. \A i, j \in 1 .. Len(t) : i < j => Follows(t[i], t[j])
    BY DEF Sorted, t
  <2> QED  BY <1>2, <2>1, <2>2 DEF Follows
<1>4. PICK a : /\ a[0] = g
               /\ \A n \in 0 .. N : n # N => a[n + 1] = HandleEvent(a[n], r[n + 1])
               /\ HandleAll(g, r) = a[N]
  BY <1>1, AllHandled
<1>5. upTo(0) = s
  <2> HIDE DEF t
  <2>1. s = [i \in 1 .. k |-> s[i]] /\ k + 0 = k
    OBVIOUS
  <2> QED  BY <1>1, <1>2, <2>1
<1>6. upTo(N) = t
  <2> HIDE DEF t, k, N
  <2> QED  BY <1>2
<1> HIDE DEF t, k, N
<1>7. ASSUME NEW n \in 0 .. N, n # N
      PROVE  /\ upTo(n) \in Seq(Timely) /\ r[n + 1] \in Timely
             /\ upTo(n + 1) = Append(upTo(n), r[n + 1])
             /\ \A i \in DOMAIN upTo(n) : upTo(n)[i].time <= r[n + 1].time
  <2> DEFINE u == upTo(n)
             e == r[n + 1]
  <2>1. n + 1 \in 1 .. N /\ k + n \in Nat /\ k + (n + 1) = (k + n) + 1 /\ (k + n) + 1 \in 1 .. k + N
    BY <1>1, <1>7
  <2>2. e = t[(k + n) + 1]
    BY <1>2, <2>1
  <2>3. \A i \in 1 .. k + n : t[i] \in Timely /\ i \in 1 .. k + N /\ i < (k + n) + 1
    BY <1>1, <1>2, <2>1
  <2>4. u \in Seq(Timely) /\ Len(u) = k + n /\ DOMAIN u = 1 .. k + n
        /\ \A i \in 1 .. k + n : u[i] = t[i]
    BY <2>1, <2>3
  <2>5. upTo(n + 1) = [i \in 1 .. (k + n) + 1 |-> t[i]]
    BY <2>1
  <2> HIDE DEF u
  <2>6. e \in Timely
    BY <1>2, <2>1, <2>2
  <2> HIDE DEF e
  <2> DEFINE v == Append(u, e)
  <2>7. /\ v \in Seq(Timely) /\ Len(v) = (k + n) + 1
        /\ \A i \in 1 .. (k + n) + 1 : v[i] = IF i = (k + n) + 1 THEN e ELSE u[i]
    BY <2>4, <2>6, AppendProperties
  <2>8. \A i \in 1 .. (k + n) + 1 : t[i] = IF i = (k + n) + 1 THEN e ELSE u[i]
    BY <2>1, <2>2, <2>4
  <2>9. upTo(n + 1) = Append(u, e)
    <3> HIDE DEF v
    <3>1. v = [i \in 1 .. (k + n) + 1 |-> v[i]]
      BY <2>7
    <3> QED  BY <2>5, <2>7, <2>8, <3>1 DEF v
  <2>10. \A i \in DOMAIN u : u[i].time <= e.time
    BY <1>3, <2>1, <2>2, <2>3, <2>4
  <2> QED  BY <2>4, <2>6, <2>9, <2>10 DEF u, e
<1> HIDE DEF upTo
<1> DEFINE S == {n \in 0 .. N : EngineSound(a[n]) /\ Book(a[n], id, upTo(n), {})}
<1>8. 0 \in S
  BY <1>1, <1>4, <1>5
<1>9. ASSUME NEW n \in 0 .. N, n \in S, n # N
      PROVE  n + 1 \in S
  <2> DEFINE e == r[n + 1]
             h == a[n + 1]
             old == a[n]
             u == upTo(n)
  <2>1. /\ u \in Seq(Timely) /\ e \in Timely /\ upTo(n + 1) = Append(u, e)
        /\ \A i \in DOMAIN u : u[i].time <= e.time
    BY <1>7, <1>9
  <2>2. h = HandleEvent(old, e) /\ EngineSound(old) /\ Book(old, id, u, {})
    BY <1>4, <1>9
  <2>3. n + 1 \in 0 .. N
    BY <1>1, <1>9
  <2> HIDE DEF e, h, old, u
  <2> DEFINE reclaimed == id \in Quiescent(FireDueDeadlines(old, e.time), e.time)
  <2>4. Book(HandleEvent(old, e), id, Append(u, e), Cut(u, {}, reclaimed))
    BY <2>1, <2>2, HandleTracked
  <2>5. ~reclaimed
    BY DEF Quiescent
  <2> HIDE DEF reclaimed
  <2>6. Book(h, id, Append(u, e), {})
    BY <2>2, <2>4, <2>5 DEF Cut
  <2>7. EngineSound(h)
    BY <2>1, <2>2, TimelyTimes, HandlingIsSound
  <2> QED  BY <2>1, <2>3, <2>6, <2>7 DEF h
<1> HIDE DEF S
<1>10. N \in S
  <2>1. \A n \in 0 .. N : n \in S /\ n # N => n + 1 \in S
    BY <1>9
  <2>2. \A n \in 0 .. N : n \in S
    BY ONLY <1>1, <1>8, <2>1, Climb
  <2> QED  BY <1>1, <2>2
<1> QED  BY <1>4, <1>6, <1>10 DEF S, t

(* A wall fire's tick reaches no untimed id.                               *)
LEMMA FireLeavesUntimed ==
  ASSUME NEW g, LiveSound(g), NEW now \in Int, NEW id \in Id, PolicyOf(id).kind # "within",
         NEW s, NEW cut, Book(g, id, s, cut)
  PROVE  Book(FireDueDeadlines(g, now), id, s, cut)
<1> DEFINE f == FireDueDeadlines(g, now)
<1>1. ~Armed(g, id)
  BY PolicyOfId, DeadlineIsDate DEF Armed, NextDeadline, LiveSound, Dated
<1>2. EngineSound(g)
  BY DEF LiveSound
<1> DEFINE i == g.instances[id]
           late == Armed(g, id) /\ i.monitor.deadline <= now
<1>3. /\ ~late => f.instances[id] = i /\ f.verdicts[id] = g.verdicts[id]
      /\ late => /\ f.instances[id] = [i EXCEPT !.monitor = [i.monitor EXCEPT !.settled = TRUE]]
                 /\ OneMore(g.verdicts[id], f.verdicts[id])
  BY <1>2, FireOne
<1> HIDE DEF f
<1>4. f.instances[id] = g.instances[id] /\ f.verdicts[id] = g.verdicts[id]
  BY <1>1, <1>3
<1> QED  BY <1>4 DEF Book, f

-----------------------------------------------------------------------------
(* The policies without a deadline are well posed.                         *)
UntimedWellPosed == \A p \in Policies : p.kind # "within" => Life!WellPosed(p)

(* While the loop runs, what it has handled is sorted and lies below the   *)
(* watermark, and the engine keeps the book on every untimed id.           *)
Past(s, w) == Sorted(s) /\ \A i \in 1 .. Len(s) : s[i].time < w
Kept1(g, s) == \A id \in Id : PolicyOf(id).kind # "within" => Book(g, id, s, {})
LiveMeant == running => Past(handled, buffer.watermark) /\ Kept1(eng, handled)

(* A release from the watermark up to w.                                   *)
LEMMA ReleaseMeant ==
  ASSUME TTL = None, UntimedWellPosed, LiveShapes, LiveMeant, running,
         NEW r \in Seq(Timely), Sorted(r), NEW w \in Int, buffer.watermark <= w,
         \A i \in 1 .. Len(r) : buffer.watermark <= r[i].time /\ r[i].time < w
  PROVE  /\ handled \o r \in Seq(Timely)
         /\ Past(handled \o r, w)
         /\ Kept1(HandleAll(eng, r), handled \o r)
<1> DEFINE t == handled \o r
           m == buffer.watermark
<1>1. handled \in Seq(Timely) /\ EngineSound(eng) /\ m \in Int
  BY DEF LiveShapes, LiveSound, Held, Window, BufferType
<1>2. Past(handled, m) /\ Kept1(eng, handled)
  BY DEF LiveMeant
<1>3. /\ \A i \in 1 .. Len(handled) : handled[i].time \in Int /\ handled[i].time < m
      /\ \A i \in 1 .. Len(r) : r[i].time \in Int /\ m <= r[i].time /\ r[i].time < w
  BY <1>1, <1>2, TimelyTimes DEF Past
<1> HIDE DEF m
<1>4. Sorted(t)
  <2>1. \A i \in 1 .. Len(handled), j \in 1 .. Len(r) : handled[i].time < r[j].time
    BY <1>1, <1>3
  <2> QED  BY <1>1, <1>2, <2>1, SortedMore DEF Past
<1>5. /\ t \in Seq(Timely) /\ Len(t) = Len(handled) + Len(r)
      /\ \A i \in 1 .. Len(t) : t[i] = IF i <= Len(handled) THEN handled[i] ELSE r[i - Len(handled)]
  BY <1>1, HandledMore
<1>6. \A i \in 1 .. Len(t) : t[i].time < w
  <2> HIDE DEF t
  <2> TAKE i \in 1 .. Len(t)
  <2>1. Len(handled) \in Nat /\ Len(r) \in Nat
    BY <1>1
  <2>2. CASE i <= Len(handled)
    <3>1. t[i] = handled[i] /\ i \in 1 .. Len(handled)
      BY <1>5, <2>1, <2>2
    <3> QED  BY <1>1, <1>3, <3>1 DEF m
  <2>3. CASE ~(i <= Len(handled))
    <3>1. t[i] = r[i - Len(handled)] /\ i - Len(handled) \in 1 .. Len(r)
      BY <1>5, <2>1, <2>3
    <3> QED  BY <1>3, <3>1
  <2> QED  BY <2>2, <2>3
<1>7. ASSUME NEW id \in Id, PolicyOf(id).kind # "within"
      PROVE  Book(HandleAll(eng, r), id, t, {})
  <2>1. Life!WellPosed(PolicyOf(id))
    BY <1>7, PolicyOfId DEF UntimedWellPosed
  <2>2. Book(eng, id, handled, {})
    BY <1>2, <1>7 DEF Kept1
  <2> QED  BY <1>1, <1>4, <2>1, <2>2, AllTracked
<1> QED  BY <1>4, <1>5, <1>6, <1>7 DEF Past, Kept1

(* At the start every book is empty.                                       *)
LEMMA InitMeant == Init => LiveMeant
<1> SUFFICES ASSUME Init  PROVE LiveMeant
  OBVIOUS
<1>1. handled = <<>> /\ Len(<<>>) = 0 /\ eng = EmptyEngine
  BY DEF Init
<1>2. Past(handled, buffer.watermark)
  BY <1>1 DEF Past, Sorted
<1>3. Kept1(eng, handled)
  BY <1>1, EmptyIsBooked DEF Kept1
<1> QED  BY <1>2, <1>3 DEF LiveMeant

(* Every step keeps the books of the untimed ids.                          *)
LEMMA StepMeant ==
  ASSUME Buffered, TTL = None, UntimedWellPosed, LiveShapes, LiveMeant, [Next]_vars
  PROVE  LiveMeant'
<1>1. CASE UNCHANGED engineVars
  <2>1. UNCHANGED <<running, handled, buffer, eng>>
    BY <1>1 DEF engineVars
  <2> QED  BY <2>1 DEF LiveMeant
<1>2. CASE Take
  <2>1. PICK r : TakesFrom(r)
    BY <1>2, TakeBuffered
  <2> DEFINE p == Push(buffer, Head(queue))
             w == buffer'.watermark
  <2>2. /\ running /\ Window(p) /\ Held(p) /\ p.watermark = buffer.watermark
        /\ Handed(p, buffer', r, w)
        /\ eng' = HandleAll(eng, r) /\ handled' = handled \o r
    BY <2>1 DEF TakesFrom
  <2> HIDE DEF p, w
  <2>3. /\ r \in Seq(Timely) /\ Sorted(r)
        /\ \A i \in 1 .. Len(r) : r[i].time < w /\ \E x \in p.heap : r[i] = x.event
    BY <2>2, HandedFacts
  <2>4. w \in Int /\ buffer.watermark <= w
    BY <2>2 DEF Handed
  <2>5. \A i \in 1 .. Len(r) : buffer.watermark <= r[i].time /\ r[i].time < w
    BY <2>2, <2>3 DEF Held
  <2>6. Past(handled \o r, w) /\ Kept1(HandleAll(eng, r), handled \o r)
    BY <2>2, <2>3, <2>4, <2>5, ReleaseMeant
  <2> QED  BY <2>2, <2>6 DEF LiveMeant, w
<1>3. CASE WallFire
  <2> DEFINE due == Earliest(Moments(buffer, eng))
             top == due + Grace + 1
             w == buffer'.watermark
  <2>1. PICK r : FiresAt(due, r)
    BY <1>3, WallFireGives
  <2>2. running
    BY <1>3 DEF WallFire
  <2> HIDE DEF due
  <2> DEFINE h == HandleAll(eng, r)
  <2>3. /\ due \in Int /\ r \in Seq(Timely) /\ Sorted(r)
        /\ \A i \in 1 .. Len(r) : r[i].time <= due /\ buffer.watermark <= r[i].time
        /\ \A i \in 1 .. Len(r) : r[i].time < w
        /\ buffer.watermark <= w /\ Held(buffer')
        /\ eng' = FireDueDeadlines(h, top) /\ handled' = handled \o r
    BY <2>1 DEF FiresAt
  <2>4. w \in Int
    BY <2>3 DEF Held, Window, BufferType
  <2>5. Past(handled \o r, w) /\ Kept1(h, handled \o r)
    BY <2>2, <2>3, <2>4, ReleaseMeant
  <2>6. LiveSound(eng)
    BY <2>2 DEF LiveShapes
  <2>7. LiveSound(h)
    BY <2>3, <2>6, AllDated
  <2>8. top \in Int
    BY <2>3, BufferAssumption
  <2> HIDE DEF h, top, w
  <2>9. Kept1(FireDueDeadlines(h, top), handled \o r)
    BY <2>5, <2>7, <2>8, FireLeavesUntimed DEF Kept1
  <2> QED  BY <2>3, <2>5, <2>9 DEF LiveMeant, w
<1>4. ASSUME NEW emitPending \in BOOLEAN, Finish(emitPending)
      PROVE  LiveMeant'
  BY <1>4 DEF Finish, LiveMeant
<1>5. CASE \E e \in Event : Push1(e)
  BY <1>1, <1>5 DEF Push1
<1>6. CASE Close \/ Tick
  BY <1>1, <1>6 DEF Close, Tick
<1>7. CASE UNCHANGED vars
  BY <1>1, <1>7 DEF vars
<1> QED  BY <1>2, <1>3, <1>4, <1>5, <1>6, <1>7 DEF Next, Loop

(* Wall time decides no untimed verdict and reorders nothing: whenever the *)
(* loop waits, late events, wall fires and all, the untimed verdicts are   *)
(* those the operators define over the handled events in canonical order.  *)
(* There is a grace (without one, events are handled as they come), no     *)
(* TTL, and no untimed policy is one whose scope opens and closes with the *)
(* same status.                                                            *)
THEOREM WallTimeDecidesNoUntimed ==
  ASSUME Buffered, TTL = None, UntimedWellPosed
  PROVE  Spec => []UntimedAreMeaning
<1>1. Init => LiveShapes /\ LiveMeant
  BY InitLive, InitMeant
<1>2. LiveShapes /\ LiveMeant /\ [Next]_vars => LiveShapes' /\ LiveMeant'
  BY StepLive, StepMeant
<1>3. LiveShapes /\ LiveMeant => UntimedAreMeaning
  <2> SUFFICES ASSUME LiveShapes, LiveMeant, running,
                      NEW id \in Id, PolicyOf(id).kind # "within"
               PROVE  eng.verdicts[id] = Promised(Canonical(handled), id, {})
    BY DEF UntimedAreMeaning
  <2>1. handled \in Seq(Timely) /\ Sorted(handled) /\ Book(eng, id, handled, {})
    BY DEF LiveShapes, LiveMeant, Past, Kept1
  <2>2. eng.verdicts[id] = Promised(handled, id, {})
    BY <2>1, BookSays
  <2> QED  BY <2>1, <2>2, SortedIsCanonical
<1> QED  BY <1>1, <1>2, <1>3, PTL DEF Spec
=============================================================================
