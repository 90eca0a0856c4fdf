---------------------------- MODULE EngineProofs ----------------------------
(***************************************************************************)
(* Facts about the operators of the window and the engine, whatever loop   *)
(* calls them.                                                             *)
(*                                                                         *)
(* The window: popping yields the entries in the one canonical order.      *)
(*                                                                         *)
(* The timers: an engine value is sound when every obligation that is      *)
(* armed has its deadline in the queue and every instance that its last    *)
(* event did not decide has its TTL timer; handling an event keeps that.   *)
(*                                                                         *)
(* The verdicts: the engine keeps a Book on each id.  What happens to one  *)
(* monitor is left to MonitorLifeProofs; here it is said how an event cuts *)
(* the history of an id into lifetimes, and that the instance of the id is *)
(* abreast of the newest of them.                                          *)
(***************************************************************************)
EXTENDS EngineMeaning, FiniteSetTheorems, FunctionTheorems, SequenceTheorems, TLAPS

-----------------------------------------------------------------------------
(* The order of the window, as the proofs about ReorderStream establish    *)
(* it; nothing here depends on that module's variables.                    *)
Stream == INSTANCE ReorderStreamProofs
          WITH Event <- {}, Moment <- {}, MaxOffer <- 0,
               buffer <- None, offered <- None, released <- None, committed <- None,
               flushed <- None

(* Entries as push() makes them: comparable times and contents, and a seq  *)
(* of their own.                                                           *)
Comparable(S) ==
  \A x \in S : x.event.time \in Int /\ x.event.tie \in Int /\ x.seq \in Int
Numbered(S) == \A x, y \in S : x.seq = y.seq => x = y

(* The operators are the same in that module.                              *)
LEMMA SameWindow ==
  /\ Stream!BufferAssumption /\ Stream!StreamAssumption
  /\ \A S : (Stream!Comparable(S) <=> Comparable(S)) /\ (Stream!Numbered(S) <=> Numbered(S))
  /\ \A x, y : Stream!Before(x, y) <=> Before(x, y)
  /\ \A x, S : Stream!Rank(x, S) = Rank(x, S)
  /\ \A S : Stream!InOrder(S) = InOrder(S)
  /\ \A S : (Stream!IsFiniteSet(S) <=> IsFiniteSet(S)) /\ Stream!Cardinality(S) = Cardinality(S)
<1>1. \A x, y : Stream!Before(x, y) <=> Before(x, y)
  BY DEF Stream!Before, Before
<1>2. \A S : Stream!Cardinality(S) = Cardinality(S)
  BY DEF Stream!Cardinality, Cardinality
<1>3. \A S : Stream!IsFiniteSet(S) <=> IsFiniteSet(S)
  BY DEF Stream!IsFiniteSet, IsFiniteSet
<1>4. \A x, S : Stream!Rank(x, S) = Rank(x, S)
  BY <1>1, <1>2 DEF Stream!Rank, Rank
<1>5. \A S : Stream!InOrder(S) = InOrder(S)
  BY <1>2, <1>4 DEF Stream!InOrder, InOrder
<1>6. Stream!BufferAssumption /\ Stream!StreamAssumption
  BY BufferAssumption DEF Stream!BufferAssumption, Stream!StreamAssumption
<1>7. \A S : (Stream!Comparable(S) <=> Comparable(S)) /\ (Stream!Numbered(S) <=> Numbered(S))
  BY DEF Stream!Comparable, Comparable, Stream!Numbered, Numbered
<1> QED  BY <1>1, <1>2, <1>3, <1>4, <1>5, <1>6, <1>7

(* The heap key (event_time, tie-break, seq) compares any two entries.     *)
LEMMA BeforeIsStrictOrder ==
  ASSUME NEW S, Comparable(S), Numbered(S)
  PROVE  /\ \A x \in S : ~Before(x, x)
         /\ \A x, y, z \in S : Before(x, y) /\ Before(y, z) => Before(x, z)
         /\ \A x, y \in S : x # y => Before(x, y) \/ Before(y, x)
BY SameWindow, Stream!BeforeIsStrictOrder

(* Ranks follow the order and stay below the number of entries.            *)
LEMMA RankFacts ==
  ASSUME NEW S, IsFiniteSet(S), Comparable(S), Numbered(S)
  PROVE  /\ \A x \in S : Rank(x, S) \in 0 .. Cardinality(S) - 1
         /\ \A x, y \in S : Before(x, y) => Rank(x, S) < Rank(y, S)
BY SameWindow, Stream!RankFacts

(* What heappop returns until the heap is empty: all of it, in order.      *)
LEMMA InOrderIsSorted ==
  ASSUME NEW S, IsFiniteSet(S), Comparable(S), Numbered(S)
  PROVE  /\ InOrder(S) \in Seq(S)
         /\ Len(InOrder(S)) = Cardinality(S)
         /\ \A x \in S : \E i \in 1 .. Cardinality(S) : InOrder(S)[i] = x
         /\ \A i, j \in 1 .. Cardinality(S) :
              i < j => Before(InOrder(S)[i], InOrder(S)[j])
<1>1. Stream!IsFiniteSet(S) /\ Stream!Comparable(S) /\ Stream!Numbered(S)
  BY SameWindow
<1>2. /\ Stream!InOrder(S) \in Seq(S)
      /\ Len(Stream!InOrder(S)) = Stream!Cardinality(S)
      /\ \A x \in S : \E i \in 1 .. Stream!Cardinality(S) : Stream!InOrder(S)[i] = x
      /\ \A i, j \in 1 .. Stream!Cardinality(S) :
           i < j => Stream!Before(Stream!InOrder(S)[i], Stream!InOrder(S)[j])
  BY ONLY <1>1, Stream!BufferAssumption, Stream!StreamAssumption, SameWindow, Stream!InOrderSorts
<1>3. Stream!InOrder(S) = InOrder(S) /\ Stream!Cardinality(S) = Cardinality(S)
  BY SameWindow
<1>4. \A x, y : Stream!Before(x, y) <=> Before(x, y)
  BY SameWindow
<1> QED  BY ONLY <1>2, <1>3, <1>4

(* The first k numbers.                                                    *)
LEMMA UpTo ==
  ASSUME NEW k \in Nat
  PROVE  IsFiniteSet(1 .. k) /\ Cardinality(1 .. k) = k
<1>1. 1 \in Int /\ k \in Int
  OBVIOUS
<1>2. IsFiniteSet(1 .. k) /\ Cardinality(1 .. k) = IF 1 > k THEN 0 ELSE k - 1 + 1
  BY ONLY <1>1, FS_Interval
<1> QED  BY <1>2

(* The image of a finite set is finite.                                    *)
LEMMA FiniteImage ==
  ASSUME NEW S, NEW T, IsFiniteSet(S), NEW f \in [S -> T], \A y \in T : \E x \in S : f[x] = y
  PROVE  IsFiniteSet(T)
<1>1. f \in Surjection(S, T)
  BY DEF Surjection
<1> QED  BY <1>1, FS_Surjection

(* There is one such order: an ordered listing of all of S is InOrder(S).  *)
LEMMA OneOrder ==
  ASSUME NEW S, IsFiniteSet(S), Comparable(S), Numbered(S),
         NEW s \in Seq(S), Len(s) = Cardinality(S),
         \A i, j \in 1 .. Len(s) : i < j => Before(s[i], s[j])
  PROVE  s = InOrder(S)
<1> DEFINE n == Len(s)
<1>1. n \in Nat /\ s \in [1 .. n -> S] /\ n = Cardinality(S)
  OBVIOUS
<1>2. \A i, j \in 1 .. n : s[i] = s[j] => i = j
  <2> TAKE i \in 1 .. n, j \in 1 .. n
  <2>1. s[i] \in S /\ s[j] \in S
    BY <1>1
  <2>2. i < j \/ j < i \/ i = j
    BY <1>1
  <2> QED  BY <2>1, <2>2, BeforeIsStrictOrder
<1>3. IsFiniteSet(1 .. n) /\ Cardinality(1 .. n) = n
  BY <1>1, FS_Interval
<1>4. s \in Injection(1 .. n, S)
  BY <1>1, <1>2 DEF Injection, IsInjective
<1>5. s \in Surjection(1 .. n, S)
  BY <1>1, <1>3, <1>4, FS_Injection
<1>6. \A x \in S : \E i \in 1 .. n : s[i] = x
  BY <1>5 DEF Surjection
<1>7. ASSUME NEW i \in 1 .. n
      PROVE  Rank(s[i], S) = i - 1
  <2> DEFINE B == {y \in S : Before(y, s[i])}
             f == [j \in 1 .. i - 1 |-> s[j]]
  <2>1. \A j \in 1 .. i - 1 : j \in 1 .. n /\ j < i
    BY <1>1
  <2>2. f \in [1 .. i - 1 -> B]
    BY <1>1, <2>1
  <2>3. \A x, y \in 1 .. i - 1 : f[x] = f[y] => x = y
    BY <1>2, <2>1
  <2>4. \A y \in B : \E j \in 1 .. i - 1 : f[j] = y
    <3> TAKE y \in B
    <3>1. PICK j \in 1 .. n : s[j] = y
      BY <1>6
    <3>2. Before(s[j], s[i]) /\ s[i] \in S /\ s[j] \in S
      BY <1>1, <3>1
    <3>3. j < i
      <4>1. ~(i < j) /\ i # j
        BY <3>2, BeforeIsStrictOrder
      <4> QED  BY <1>1, <4>1
    <3>4. j \in 1 .. i - 1
      BY <1>1, <3>3
    <3>5. f[j] = y
      BY <3>1, <3>4
    <3> QED  BY <3>4, <3>5
  <2>5. f \in Bijection(1 .. i - 1, B)
    <3> HIDE DEF f, B
    <3> QED  BY <2>2, <2>3, <2>4 DEF Bijection, Injection, Surjection, IsInjective
  <2>6. IsFiniteSet(1 .. i - 1) /\ Cardinality(1 .. i - 1) = i - 1
    <3>1. i \in Int /\ i - 1 \in Int /\ i - 1 >= 0
      BY <1>1
    <3> QED  BY <3>1, UpTo
  <2>7. Cardinality(B) = i - 1
    <3> HIDE DEF f, B
    <3>1. ExistsBijection(1 .. i - 1, B)
      BY <2>5 DEF ExistsBijection
    <3> QED  BY <2>6, <3>1, FS_Bijection
  <2> QED  BY <2>7 DEF Rank
<1>8. \A x, y \in S : Rank(x, S) = Rank(y, S) => x = y
  <2> TAKE x \in S, y \in S
  <2>1. x # y => Rank(x, S) < Rank(y, S) \/ Rank(y, S) < Rank(x, S)
    BY BeforeIsStrictOrder, RankFacts
  <2> QED  BY <2>1, RankFacts
<1>9. ASSUME NEW i \in 1 .. n
      PROVE  s[i] = CHOOSE x \in S : Rank(x, S) = i - 1
  BY <1>1, <1>7, <1>8
<1> QED  BY <1>1, <1>9 DEF InOrder

(* The order of two sets, one before the other.                            *)
LEMMA InOrderOfParts ==
  ASSUME NEW S, NEW T, IsFiniteSet(S), IsFiniteSet(T), Comparable(S \cup T), Numbered(S \cup T),
         \A x \in S, y \in T : Before(x, y)
  PROVE  InOrder(S \cup T) = InOrder(S) \o InOrder(T)
<1> DEFINE a == InOrder(S)
           b == InOrder(T)
           m == Cardinality(S)
           n == Cardinality(T)
<1>1. Comparable(S) /\ Comparable(T) /\ Numbered(S) /\ Numbered(T)
  BY DEF Comparable, Numbered
<1>2. /\ a \in Seq(S) /\ Len(a) = m /\ b \in Seq(T) /\ Len(b) = n
      /\ \A i, j \in 1 .. m : i < j => Before(a[i], a[j])
      /\ \A i, j \in 1 .. n : i < j => Before(b[i], b[j])
  BY <1>1, InOrderIsSorted
<1>3. m \in Nat /\ n \in Nat
  BY FS_CardinalityType
<1>4. S \cap T = {}
  BY BeforeIsStrictOrder
<1>5. IsFiniteSet(S \cup T) /\ Cardinality(S \cup T) = m + n
  <2>1. /\ IsFiniteSet(S \cup T)
        /\ Cardinality(S \cup T) = m + n - Cardinality(S \cap T)
    BY FS_Union
  <2>2. Cardinality(S \cap T) = 0
    BY <1>4, FS_EmptySet
  <2> HIDE DEF m, n
  <2> QED  BY <1>3, <2>1, <2>2
<1> HIDE DEF a, b, m, n
<1> DEFINE s == a \o b
<1>6. /\ s \in Seq(S \cup T) /\ Len(s) = m + n
      /\ \A i \in 1 .. m : s[i] = a[i]
      /\ \A i \in m + 1 .. m + n : s[i] = b[i - m]
  <2>1. a \in Seq(S \cup T) /\ b \in Seq(S \cup T)
    BY <1>2
  <2>2. /\ s \in Seq(S \cup T) /\ Len(s) = m + n
        /\ \A i \in 1 .. m + n : s[i] = IF i <= m THEN a[i] ELSE b[i - m]
    BY <1>2, <2>1, ConcatProperties
  <2> HIDE DEF s
  <2> QED  BY <1>3, <2>2
<1> HIDE DEF s
<1>7. ASSUME NEW i \in 1 .. m + n, NEW j \in 1 .. m + n, i < j
      PROVE  Before(s[i], s[j])
  <2>1. CASE j <= m
    <3>1. i \in 1 .. m /\ j \in 1 .. m
      BY <1>3, <1>7, <2>1
    <3> QED  BY <1>2, <1>6, <1>7, <3>1
  <2>2. CASE i <= m /\ m < j
    <3>1. i \in 1 .. m /\ j \in m + 1 .. m + n /\ j - m \in 1 .. n
      BY <1>3, <2>2
    <3>2. a[i] \in S /\ b[j - m] \in T
      BY <1>2, <3>1
    <3> QED  BY <1>6, <3>1, <3>2
  <2>3. CASE m < i
    <3>1. /\ i \in m + 1 .. m + n /\ j \in m + 1 .. m + n
          /\ i - m \in 1 .. n /\ j - m \in 1 .. n /\ i - m < j - m
      BY <1>3, <1>7, <2>3
    <3> QED  BY <1>2, <1>6, <3>1
  <2> QED  BY <1>3, <2>1, <2>2, <2>3
<1>8. s = InOrder(S \cup T)
  BY <1>5, <1>6, <1>7, OneOrder
<1> QED  BY <1>8 DEF s, a, b

(* Entries numbered otherwise, in the same order, come out in the same     *)
(* order: only the events count.                                           *)
LEMMA InOrderRenumbered ==
  ASSUME NEW S, IsFiniteSet(S), Comparable(S), Numbered(S),
         NEW T, Comparable(T), Numbered(T),
         NEW f \in [S -> T],
         \A y \in T : \E x \in S : f[x] = y,
         \A x \in S : f[x].event = x.event,
         \A x, y \in S : Before(x, y) => Before(f[x], f[y])
  PROVE  /\ IsFiniteSet(T)
         /\ Len(InOrder(T)) = Len(InOrder(S)) /\ Len(InOrder(S)) = Cardinality(S)
         /\ \A i \in 1 .. Len(InOrder(S)) : InOrder(T)[i].event = InOrder(S)[i].event
<1> DEFINE s == InOrder(S)
           n == Cardinality(S)
           t == [i \in 1 .. n |-> f[s[i]]]
<1>1. /\ s \in Seq(S) /\ Len(s) = n /\ n \in Nat
      /\ \A i, j \in 1 .. n : i < j => Before(s[i], s[j])
  BY InOrderIsSorted, FS_CardinalityType
<1>2. f \in Bijection(S, T)
  <2>1. \A x, y \in S : f[x] = f[y] => x = y
    <3> TAKE x \in S, y \in S
    <3>1. x # y => Before(x, y) \/ Before(y, x)
      BY BeforeIsStrictOrder
    <3>2. f[x] \in T /\ f[y] \in T
      OBVIOUS
    <3> QED  BY <3>1, <3>2, BeforeIsStrictOrder
  <2> QED  BY <2>1 DEF Bijection, Injection, Surjection, IsInjective
<1>3. IsFiniteSet(T) /\ Cardinality(T) = n
  <2>1. ExistsBijection(S, T)
    BY <1>2 DEF ExistsBijection
  <2> QED  BY <2>1, FS_Bijection
<1> HIDE DEF s, n
<1>4. \A i \in 1 .. n : s[i] \in S
  BY <1>1
<1>5. t \in Seq(T) /\ Len(t) = n /\ \A i \in 1 .. n : t[i] = f[s[i]]
  <2>1. t \in [1 .. n -> T]
    BY <1>4
  <2> QED  BY <1>1, <2>1
<1> HIDE DEF t
<1>6. \A i, j \in 1 .. n : i < j => Before(t[i], t[j])
  BY <1>1, <1>4, <1>5
<1>7. t = InOrder(T)
  BY <1>3, <1>5, <1>6, OneOrder
<1>8. \A i \in 1 .. n : t[i].event = s[i].event
  BY <1>4, <1>5
<1> QED  BY <1>1, <1>3, <1>5, <1>7, <1>8 DEF s, n

-----------------------------------------------------------------------------
(* A monitor value: its fields, the two that timers depend on typed.       *)
MonitorShape(m) ==
  /\ {"settled", "deadline"} \subseteq DOMAIN m
  /\ m.settled \in BOOLEAN
  /\ m.deadline \in Int \cup {None}

InstanceShape(i) ==
  /\ {"monitor", "last"} \subseteq DOMAIN i
  /\ i.last \in Int
  /\ MonitorShape(i.monitor)

IsSequence(s) == s \in Seq({s[n] : n \in DOMAIN s})

(* The value is that of an engine.                                         *)
EngineShape(g) ==
  /\ DOMAIN EmptyEngine \subseteq DOMAIN g
  /\ \A t \in g.deadlines \cup g.ttlTimers : t.when \in Int
  /\ \A id \in Id : /\ g.instances[id] # None => InstanceShape(g.instances[id])
                    /\ IsSequence(g.verdicts[id])

(* The armed obligation of an id, if it has one, is in the queue.          *)
Armed(g, id) == g.instances[id] # None /\ NextDeadline(g.instances[id].monitor) # None
DeadlineQueued(g, id) ==
  Armed(g, id) => [when |-> g.instances[id].monitor.deadline, id |-> id] \in g.deadlines

(* The last event of the id's instance decided it.                         *)
DecidedAtLast(g, id) ==
  /\ g.instances[id].monitor.settled
  /\ g.verdicts[id] # <<>>
  /\ g.verdicts[id][Len(g.verdicts[id])].at = g.instances[id].last
TtlQueued(g, id) ==
  TTL # None /\ g.instances[id] # None =>
    \/ DecidedAtLast(g, id)
    \/ [when |-> g.instances[id].last + TTL, id |-> id] \in g.ttlTimers

EngineSound(g) ==
  EngineShape(g) /\ \A id \in Id : DeadlineQueued(g, id) /\ TtlQueued(g, id)

(* Nothing is overdue at the moment now: the queued deadlines and TTL      *)
(* timers that count lie ahead, those the event of that moment made apart. *)
NothingDue(g, now) ==
  \A id \in Id :
    /\ Armed(g, id) => \/ now < g.instances[id].monitor.deadline
                       \/ PolicyOf(id).kind = "within" /\ PolicyOf(id).seconds = 0
    /\ TTL # None /\ g.instances[id] # None =>
         \/ DecidedAtLast(g, id)
         \/ g.instances[id].last = now
         \/ now < g.instances[id].last + TTL

-----------------------------------------------------------------------------
(* Moving a settled flag, a deadline or any other field keeps the shape.   *)
LEMMA MonitorFields ==
  ASSUME NEW m, MonitorShape(m)
  PROVE  /\ \A e : MonitorShape([m EXCEPT !.settled = TRUE, !.trigger = e])
         /\ \A e : MonitorShape([m EXCEPT !.settled = TRUE, !.evidence = e])
         /\ MonitorShape([m EXCEPT !.settled = TRUE])
         /\ \A d \in Int : \A e : MonitorShape([m EXCEPT !.deadline = d, !.trigger = e])
BY DEF MonitorShape

(* The same fields, one by one.                                            *)
LEMMA MonitorValues ==
  ASSUME NEW m, MonitorShape(m)
  PROVE  /\ \A e : LET n == [m EXCEPT !.settled = TRUE, !.trigger = e]
                   IN n.settled /\ n.deadline = m.deadline
         /\ \A e : LET n == [m EXCEPT !.settled = TRUE, !.evidence = e]
                   IN n.settled /\ n.deadline = m.deadline
         /\ [m EXCEPT !.settled = TRUE].settled
         /\ \A d \in Int : \A e : [m EXCEPT !.deadline = d, !.trigger = e].deadline = d
BY DEF MonitorShape

(* What a call of on_event gives: a monitor, settled when there is a       *)
(* verdict; only a within moves its deadline, to the event's time plus its *)
(* seconds.                                                                *)
Given(p, m, e, r) ==
  /\ MonitorShape(r.monitor)
  /\ r.status # None => r.monitor.settled
  /\ \/ r.monitor.deadline = m.deadline
     \/ p.kind = "within" /\ r.monitor.deadline = e.time + p.seconds

(* A call that reports nothing and leaves the deadline alone is as Given   *)
(* says.                                                                   *)
LEMMA QuietGives ==
  ASSUME NEW p, NEW m, NEW e, NEW n, MonitorShape(n), n.deadline = m.deadline
  PROVE  Given(p, m, e, Quiet(n))
BY DEF Given, Quiet

(* So is one that settles the monitor.                                     *)
LEMMA SettleGives ==
  ASSUME NEW p, NEW m, NEW e, NEW n, NEW status, MonitorShape(n), n.deadline = m.deadline
  PROVE  Given(p, m, e, Settle(n, e, status))
<1> DEFINE k == [n EXCEPT !.settled = TRUE, !.trigger = e]
<1>1. MonitorShape(k)
  BY MonitorFields
<1>2. k.settled /\ k.deadline = n.deadline
  BY MonitorValues
<1>3. Settle(n, e, status) = [monitor |-> k, status |-> status]
  BY DEF Settle
<1> HIDE DEF k
<1> QED  BY <1>1, <1>2, <1>3 DEF Given

(* on_event of the bounded response: it alone arms a deadline.             *)
LEMMA WithinGives ==
  ASSUME NEW p, p.kind = "within", p.seconds \in Nat,
         NEW m, MonitorShape(m), NEW e, e.time \in Int
  PROVE  Given(p, m, e, WithinOnEvent(p, m, e))
<1> DEFINE armed == [m EXCEPT !.deadline = e.time + p.seconds, !.trigger = e]
           answered == [m EXCEPT !.settled = TRUE, !.evidence = e]
<1>1. MonitorShape(armed) /\ armed.deadline = e.time + p.seconds
  <2>1. e.time + p.seconds \in Int
    OBVIOUS
  <2>2. MonitorShape(armed)
    BY <2>1, MonitorFields
  <2>3. armed.deadline = e.time + p.seconds
    BY <2>1, MonitorValues
  <2> QED  BY <2>2, <2>3
<1>2. MonitorShape(answered) /\ answered.settled /\ answered.deadline = m.deadline
  BY MonitorFields, MonitorValues
<1>3. Given(p, m, e, Quiet(armed))
  <2> HIDE DEF armed
  <2> QED  BY <1>1 DEF Given, Quiet
<1>4. \A status : Given(p, m, e, [monitor |-> answered, status |-> status])
  <2> HIDE DEF answered
  <2> QED  BY <1>2 DEF Given
<1>5. Given(p, m, e, Quiet(m))
  BY QuietGives
<1> QED  BY <1>3, <1>4, <1>5 DEF WithinOnEvent

(* on_event of before.                                                     *)
LEMMA BeforeGives ==
  ASSUME NEW p, NEW m, MonitorShape(m), NEW e
  PROVE  Given(p, m, e, BeforeOnEvent(p, m, e))
<1>1. MonitorShape(NotePrior(p, m, e)) /\ NotePrior(p, m, e).deadline = m.deadline
  BY DEF NotePrior, MonitorShape
<1> QED  BY <1>1, QuietGives, SettleGives DEF BeforeOnEvent

(* on_event of the scoped never.                                           *)
LEMMA ScopedGives ==
  ASSUME NEW p, NEW m, MonitorShape(m), NEW e
  PROVE  Given(p, m, e, ScopedNeverOnEvent(p, m, e))
<1>1. MonitorShape(MoveScope(p, m, e)) /\ MoveScope(p, m, e).deadline = m.deadline
  BY DEF MoveScope, MonitorShape
<1> QED  BY <1>1, QuietGives, SettleGives DEF ScopedNeverOnEvent

(* on_event of previously.                                                 *)
LEMMA PreviouslyGives ==
  ASSUME NEW p, NEW m, MonitorShape(m), NEW e
  PROVE  Given(p, m, e, PreviouslyOnEvent(p, m, e))
<1> DEFINE n == [m EXCEPT !.flag = e.status \in p.prior, !.evidence = e]
<1>1. MonitorShape(n) /\ n.deadline = m.deadline
  BY DEF MonitorShape
<1>2. Given(p, m, e, Quiet(n)) /\ \A s : Given(p, m, e, Settle(m, e, s))
  <2> HIDE DEF n
  <2> QED  BY <1>1, QuietGives, SettleGives
<1> QED  BY <1>2 DEF PreviouslyOnEvent

(* on_event of since.                                                      *)
LEMMA SinceGives ==
  ASSUME NEW p, NEW m, MonitorShape(m), NEW e
  PROVE  Given(p, m, e, SinceOnEvent(p, m, e))
<1> DEFINE psi == e.status \in p.psi
           newS == psi \/ (e.status \in p.phi /\ m.flag)
           n == [m EXCEPT !.flag = newS, !.started = @ \/ newS,
                          !.evidence = IF psi THEN e ELSE @]
<1>2. MonitorShape(n) /\ n.deadline = m.deadline
  BY DEF MonitorShape
<1>3. Given(p, m, e, Quiet(n)) /\ Given(p, m, e, Settle(n, e, "violated"))
  <2> HIDE DEF n
  <2> QED  BY <1>2, QuietGives, SettleGives
<1> QED  BY <1>3 DEF SinceOnEvent

(* The guarded call of on_event, of every kind and also when a predicate   *)
(* raises.                                                                 *)
LEMMA ApplyGives ==
  ASSUME NEW p \in Policies, NEW m, MonitorShape(m), NEW e, e.time \in Int
  PROVE  Given(p, m, e, Apply(p, m, e))
<1>1. p.kind \in Kinds /\ (p.kind = "within" => p.seconds \in Nat)
  BY EngineAssumption
<1>2. Given(p, m, e, Quiet(m)) /\ \A s : Given(p, m, e, Settle(m, e, s))
  BY QuietGives, SettleGives
<1>3. Given(p, m, e, OnEvent(p, m, e))
  <2>1. CASE m.settled
    BY <1>2, <2>1 DEF OnEvent
  <2>2. CASE ~m.settled /\ p.kind = "never"
    BY <1>2, <2>2 DEF OnEvent, NeverOnEvent
  <2>3. CASE ~m.settled /\ p.kind = "once"
    BY <1>2, <2>3 DEF OnEvent, OnceOnEvent
  <2>4. CASE ~m.settled /\ p.kind = "historically"
    BY <1>2, <2>4 DEF OnEvent, HistoricallyOnEvent
  <2>5. CASE ~m.settled /\ p.kind = "within"
    BY <1>1, <2>5, WithinGives DEF OnEvent
  <2>6. CASE ~m.settled /\ p.kind = "before"
    BY <2>6, BeforeGives DEF OnEvent
  <2>7. CASE ~m.settled /\ p.kind = "scoped_never"
    BY <2>7, ScopedGives DEF OnEvent
  <2>8. CASE ~m.settled /\ p.kind = "previously"
    BY <2>8, PreviouslyGives DEF OnEvent
  <2>9. CASE ~m.settled /\ p.kind = "since"
    BY <2>9, SinceGives DEF OnEvent
  <2> QED  BY <1>1, <2>1, <2>2, <2>3, <2>4, <2>5, <2>6, <2>7, <2>8, <2>9 DEF Kinds
<1> QED  BY <1>2, <1>3 DEF Apply

-----------------------------------------------------------------------------
(* A value appended to a sequence comes last.                              *)
LEMMA Appending ==
  ASSUME NEW s, IsSequence(s), NEW v
  PROVE  /\ IsSequence(s \o <<v>>)
         /\ s \o <<v>> # <<>>
         /\ (s \o <<v>>)[Len(s \o <<v>>)] = v
<1> DEFINE S == {s[n] : n \in DOMAIN s} \cup {v}
<1>1. s \in Seq(S) /\ <<v>> \in Seq(S)
  BY DEF IsSequence
<1>2. /\ s \o <<v>> \in Seq(S)
      /\ Len(s \o <<v>>) = Len(s) + 1
      /\ (s \o <<v>>)[Len(s) + 1] = v
  BY <1>1
<1> DEFINE t == s \o <<v>>
<1>3. t \in Seq({t[n] : n \in DOMAIN t})
  <2> HIDE DEF t
  <2> QED  BY <1>2 DEF t
<1> QED  BY <1>2, <1>3 DEF IsSequence

OneMore(s, t) == \E v : t = s \o <<v>>

(* Nothing to append leaves a sequence as it is.                           *)
LEMMA AppendingNothing ==
  ASSUME NEW s, IsSequence(s)
  PROVE  s \o <<>> = s
BY DEF IsSequence

(* With every armed deadline in the queue, the overdue timers of an id are *)
(* those from its deadline to now, and the earliest is the deadline.       *)
LEMMA OverdueFacts ==
  ASSUME NEW g, EngineSound(g), NEW now \in Int, NEW id \in Id
  PROVE  LET d == g.instances[id].monitor.deadline
             late == Armed(g, id) /\ d <= now
         IN /\ ~late => Overdue(g, id, now) = {}
            /\ late => /\ Overdue(g, id, now) # {}
                       /\ Earliest(Overdue(g, id, now)) = d
                       /\ OnTimeout(g.instances[id].monitor, d) =
                            [monitor |-> [g.instances[id].monitor EXCEPT !.settled = TRUE],
                             status |-> "violated"]
<1> DEFINE m == g.instances[id].monitor
           d == m.deadline
           O == Overdue(g, id, now)
<1>1. CASE g.instances[id] = None
  BY <1>1 DEF Overdue, Armed
<1>2. CASE g.instances[id] # None
  <2>1. MonitorShape(m)
    BY <1>2 DEF EngineSound, EngineShape, InstanceShape
  <2>2. \A t : t \in Due(g.deadlines, id, now) => t \in Int /\ t <= now
    BY DEF Due, EngineSound, EngineShape
  <2>3. \A t \in Int : OnTimeout(m, t).status # None <=> ~m.settled /\ d # None /\ d <= t
    BY <2>1, EngineAssumption DEF OnTimeout, Quiet, MonitorShape
  <2>4. \A t : t \in O <=> t \in Due(g.deadlines, id, now) /\ ~m.settled /\ d # None /\ d <= t
    BY <1>2, <2>2, <2>3 DEF Overdue
  <2>5. Armed(g, id) <=> ~m.settled /\ d # None
    BY <1>2, <2>1 DEF Armed, NextDeadline, MonitorShape
  <2>6. ASSUME ~(Armed(g, id) /\ d <= now)
        PROVE  O = {}
    <3>1. \A t \in O : d \in Int /\ t \in Int /\ t <= now /\ d <= t
      BY <2>1, <2>2, <2>4 DEF MonitorShape
    <3> QED  BY <2>4, <2>5, <2>6, <3>1
  <2>7. ASSUME Armed(g, id), d <= now
        PROVE  /\ O # {} /\ Earliest(O) = d
               /\ OnTimeout(m, d) = [monitor |-> [m EXCEPT !.settled = TRUE],
                                     status |-> "violated"]
    <3>1. d \in Int
      BY <2>1, <2>5, <2>7 DEF MonitorShape
    <3>2. d \in Due(g.deadlines, id, now)
      <4> DEFINE t == [when |-> d, id |-> id]
      <4>1. t \in g.deadlines
        BY <2>7 DEF EngineSound, DeadlineQueued
      <4>2. t.id = id /\ t.when = d
        OBVIOUS
      <4> HIDE DEF t, d
      <4>3. t \in {u \in g.deadlines : u.id = id /\ u.when <= now}
        BY <2>7, <4>1, <4>2
      <4> QED  BY <4>2, <4>3 DEF Due
    <3>3. d \in O
      BY <2>4, <2>5, <2>7, <3>1, <3>2
    <3>4. \A t \in O : t \in Int /\ d <= t
      BY <2>2, <2>4
    <3>5. \A x, y \in Int : x <= y /\ y <= x => x = y
      OBVIOUS
    <3>6. Earliest(O) = d
      BY <3>1, <3>3, <3>4, <3>5 DEF Earliest
    <3> QED  BY <2>5, <2>7, <3>1, <3>3, <3>6 DEF OnTimeout
  <2> QED  BY <2>6, <2>7
<1> QED  BY <1>1, <1>2

(* The fields _fire_due_deadlines leaves alone.                            *)
LEMMA FireFields ==
  ASSUME NEW g, EngineShape(g), NEW now
  PROVE  LET f == FireDueDeadlines(g, now)
         IN /\ DOMAIN f = DOMAIN g
            /\ f.deadlines = NotDue(g.deadlines, now)
            /\ f.ttlTimers = g.ttlTimers /\ f.invalid = g.invalid
            /\ \A id \in Id :
                 LET w == Earliest(Overdue(g, id, now))
                     r == OnTimeout(g.instances[id].monitor, w)
                 IN /\ f.instances[id] = IF Overdue(g, id, now) = {} THEN g.instances[id]
                                         ELSE [g.instances[id] EXCEPT !.monitor = r.monitor]
                    /\ f.verdicts[id] = IF Overdue(g, id, now) = {} THEN g.verdicts[id]
                                        ELSE g.verdicts[id] \o Report(id, r, w)
BY DEF FireDueDeadlines, EngineShape, EmptyEngine

(* The instances of h are those of g: some may be gone, none is new.       *)
OnlyFewer(g, h) ==
  \A id \in Id : h.instances[id] # None =>
    g.instances[id] # None /\ h.instances[id].last = g.instances[id].last

(* What firing does to an id: an armed obligation that now has reached is  *)
(* settled, with a verdict; the others and all the rest stay.              *)
LEMMA FireOne ==
  ASSUME NEW g, EngineSound(g), NEW now \in Int, NEW id \in Id
  PROVE  LET f == FireDueDeadlines(g, now)
             i == g.instances[id]
             late == Armed(g, id) /\ i.monitor.deadline <= now
         IN /\ ~late => f.instances[id] = i /\ f.verdicts[id] = g.verdicts[id]
            /\ late => /\ f.instances[id] = [i EXCEPT !.monitor = [i.monitor EXCEPT !.settled = TRUE]]
                       /\ OneMore(g.verdicts[id], f.verdicts[id])
<1> DEFINE i == g.instances[id]
           O == Overdue(g, id, now)
           w == Earliest(O)
           r == OnTimeout(i.monitor, w)
           f == FireDueDeadlines(g, now)
<1>1. /\ f.instances[id] = IF O = {} THEN i ELSE [i EXCEPT !.monitor = r.monitor]
      /\ f.verdicts[id] = IF O = {} THEN g.verdicts[id] ELSE g.verdicts[id] \o Report(id, r, w)
  BY FireFields DEF EngineSound
<1>2. CASE ~(Armed(g, id) /\ i.monitor.deadline <= now)
  BY <1>1, <1>2, OverdueFacts
<1>3. CASE Armed(g, id) /\ i.monitor.deadline <= now
  <2>1. /\ O # {} /\ w = i.monitor.deadline
        /\ r = [monitor |-> [i.monitor EXCEPT !.settled = TRUE], status |-> "violated"]
    BY <1>3, OverdueFacts
  <2>2. r.monitor = [i.monitor EXCEPT !.settled = TRUE] /\ r.status = "violated"
    BY <2>1
  <2>3. \E v : Report(id, r, w) = <<v>>
    BY <2>2, EngineAssumption DEF Report
  <2>4. f.instances[id] = [i EXCEPT !.monitor = [i.monitor EXCEPT !.settled = TRUE]]
    <3> HIDE DEF r, w, O, f, i
    <3> QED  BY <1>1, <2>1, <2>2
  <2>5. OneMore(g.verdicts[id], f.verdicts[id])
    <3> HIDE DEF r, w, O, f, i
    <3> QED  BY <1>1, <2>1, <2>3 DEF OneMore
  <2> QED  BY <1>3, <2>4, <2>5
<1> QED  BY <1>2, <1>3

(* _fire_due_deadlines: afterwards no armed obligation is overdue.         *)
LEMMA FireKeeps ==
  ASSUME NEW g, EngineSound(g), NEW now \in Int
  PROVE  LET f == FireDueDeadlines(g, now)
         IN /\ EngineSound(f)
            /\ OnlyFewer(g, f)
            /\ f.invalid = g.invalid
            /\ \A id \in Id : Armed(f, id) => now < f.instances[id].monitor.deadline
<1> DEFINE f == FireDueDeadlines(g, now)
<1>1. /\ DOMAIN f = DOMAIN g
      /\ f.deadlines = NotDue(g.deadlines, now)
      /\ f.ttlTimers = g.ttlTimers /\ f.invalid = g.invalid
  BY FireFields DEF EngineSound
<1>2. ASSUME NEW id \in Id
      PROVE  /\ f.instances[id] # None =>
                  /\ InstanceShape(f.instances[id])
                  /\ g.instances[id] # None /\ f.instances[id].last = g.instances[id].last
             /\ IsSequence(f.verdicts[id])
             /\ Armed(f, id) => now < f.instances[id].monitor.deadline
             /\ DeadlineQueued(f, id) /\ TtlQueued(f, id)
  <2> DEFINE i == g.instances[id]
             m == i.monitor
  <2>1. /\ i # None => InstanceShape(i)
        /\ IsSequence(g.verdicts[id])
        /\ DeadlineQueued(g, id) /\ TtlQueued(g, id)
    BY DEF EngineSound, EngineShape
  <2>2. CASE ~(Armed(g, id) /\ m.deadline <= now)
    <3>1. f.instances[id] = i /\ f.verdicts[id] = g.verdicts[id]
      BY <2>2, FireOne
    <3>2. Armed(f, id) <=> Armed(g, id)
      BY <3>1 DEF Armed
    <3>3. Armed(g, id) => now < m.deadline
      <4>1. Armed(g, id) => m.deadline \in Int
        BY <2>1 DEF Armed, NextDeadline, InstanceShape, MonitorShape
      <4> QED  BY <2>2, <4>1
    <3>4. DeadlineQueued(f, id)
      <4> SUFFICES ASSUME Armed(f, id)
                   PROVE  [when |-> m.deadline, id |-> id] \in f.deadlines
        BY <3>1 DEF DeadlineQueued
      <4> DEFINE t == [when |-> m.deadline, id |-> id]
      <4>1. t \in g.deadlines
        BY <2>1, <3>2 DEF DeadlineQueued
      <4>2. now < t.when
        BY <3>2, <3>3
      <4> HIDE DEF t
      <4>3. t \in f.deadlines
        BY <1>1, <4>1, <4>2, EngineSound(g) DEF NotDue, EngineSound, EngineShape
      <4> QED  BY <4>3 DEF t
    <3>5. TtlQueued(f, id)
      <4> HIDE DEF f
      <4> QED  BY <1>1, <2>1, <3>1 DEF TtlQueued, DecidedAtLast
    <3> HIDE DEF f
    <3> QED  BY <2>1, <3>1, <3>2, <3>3, <3>4, <3>5
  <2>3. CASE Armed(g, id) /\ m.deadline <= now
    <3> DEFINE k == [m EXCEPT !.settled = TRUE]
    <3>1. i # None /\ InstanceShape(i) /\ MonitorShape(m)
      BY <2>1, <2>3 DEF Armed, InstanceShape
    <3>2. f.instances[id] = [i EXCEPT !.monitor = k] /\ OneMore(g.verdicts[id], f.verdicts[id])
      BY <2>3, FireOne
    <3>3. MonitorShape(k) /\ k.settled
      BY <3>1, MonitorFields, MonitorValues
    <3>4. ~m.settled
      BY <2>3, <3>1 DEF Armed, NextDeadline, MonitorShape
    <3> HIDE DEF k, f
    <3>5. InstanceShape(f.instances[id]) /\ f.instances[id].monitor = k /\ f.instances[id].last = i.last
      BY <3>1, <3>2, <3>3 DEF InstanceShape
    <3>6. ~Armed(f, id)
      BY <3>3, <3>5 DEF Armed, NextDeadline
    <3>7. IsSequence(f.verdicts[id])
      BY <2>1, <3>2, Appending DEF OneMore
    <3>8. TtlQueued(f, id)
      <4>1. [when |-> i.last + TTL, id |-> id] \in g.ttlTimers \/ TTL = None
        BY <2>1, <3>1, <3>4 DEF TtlQueued, DecidedAtLast
      <4> QED  BY <1>1, <3>5, <4>1 DEF TtlQueued
    <3> QED  BY <3>1, <3>5, <3>6, <3>7, <3>8 DEF DeadlineQueued
  <2> QED  BY <2>2, <2>3
<1>3. \A t \in f.deadlines \cup f.ttlTimers : t.when \in Int
  BY <1>1 DEF NotDue, EngineSound, EngineShape
<1> HIDE DEF f
<1>4. EngineShape(f)
  BY <1>1, <1>2, <1>3 DEF EngineSound, EngineShape
<1> QED  BY <1>1, <1>2, <1>4 DEF EngineSound, OnlyFewer, f

-----------------------------------------------------------------------------
(* Every instance of h is one of g, with the same verdicts.                *)
SameOrGone(g, h) ==
  \A id \in Id : h.instances[id] # None =>
    h.instances[id] = g.instances[id] /\ h.verdicts[id] = g.verdicts[id]

(* Dropping instances harms no other, as long as the timers of those that  *)
(* stay are kept.                                                          *)
LEMMA FewerKeeps ==
  ASSUME NEW g, EngineSound(g), NEW h, SameOrGone(g, h),
         DOMAIN h = DOMAIN g, h.deadlines = g.deadlines,
         \A t \in h.ttlTimers : t.when \in Int,
         \A id \in Id : IsSequence(h.verdicts[id]),
         \A id \in Id : TTL # None /\ h.instances[id] # None =>
           \/ DecidedAtLast(g, id)
           \/ [when |-> g.instances[id].last + TTL, id |-> id] \in h.ttlTimers
  PROVE  /\ EngineSound(h)
         /\ OnlyFewer(g, h)
         /\ \A id \in Id : Armed(h, id) => Armed(g, id) /\ h.instances[id] = g.instances[id]
<1>1. ASSUME NEW id \in Id, h.instances[id] # None
      PROVE  /\ h.instances[id] = g.instances[id] /\ h.verdicts[id] = g.verdicts[id]
             /\ InstanceShape(h.instances[id])
             /\ Armed(h, id) <=> Armed(g, id)
             /\ DeadlineQueued(h, id) /\ TtlQueued(h, id)
  <2>1. h.instances[id] = g.instances[id] /\ h.verdicts[id] = g.verdicts[id]
    BY <1>1 DEF SameOrGone
  <2>2. InstanceShape(h.instances[id]) /\ DeadlineQueued(g, id)
    BY <1>1, <2>1 DEF EngineSound, EngineShape
  <2>3. Armed(h, id) <=> Armed(g, id)
    BY <2>1 DEF Armed
  <2>4. DeadlineQueued(h, id)
    BY <2>1, <2>2, <2>3 DEF DeadlineQueued
  <2>5. TtlQueued(h, id)
    BY <1>1, <2>1 DEF TtlQueued, DecidedAtLast
  <2> QED  BY <2>1, <2>2, <2>3, <2>4, <2>5
<1>2. \A id \in Id : h.instances[id] = None =>
        ~Armed(h, id) /\ DeadlineQueued(h, id) /\ TtlQueued(h, id)
  BY DEF Armed, DeadlineQueued, TtlQueued
<1>3. EngineShape(h)
  BY <1>1 DEF EngineSound, EngineShape
<1> QED  BY <1>1, <1>2, <1>3 DEF EngineSound, OnlyFewer

(* _reclaim_quiescent: afterwards an instance has either just been decided *)
(* by its last event or is younger than its TTL.                           *)
LEMMA ReclaimKeeps ==
  ASSUME NEW g, EngineSound(g), NEW now \in Int
  PROVE  LET h == ReclaimQuiescent(g, now)
         IN /\ EngineSound(h)
            /\ OnlyFewer(g, h)
            /\ h.invalid = g.invalid
            /\ \A id \in Id : Armed(h, id) => Armed(g, id) /\ h.instances[id] = g.instances[id]
            /\ \A id \in Id : TTL # None /\ h.instances[id] # None =>
                 DecidedAtLast(h, id) \/ now < h.instances[id].last + TTL
<1> DEFINE h == ReclaimQuiescent(g, now)
<1>1. CASE TTL = None
  <2>1. h = g
    BY <1>1 DEF ReclaimQuiescent
  <2> QED  BY <1>1, <2>1 DEF OnlyFewer
<1>2. CASE TTL # None
  <2>0. TTL \in Int
    BY <1>2, EngineAssumption
  <2>1. /\ DOMAIN h = DOMAIN g /\ h.deadlines = g.deadlines /\ h.invalid = g.invalid
        /\ h.verdicts = g.verdicts
        /\ h.ttlTimers = NotDue(g.ttlTimers, now)
        /\ \A id \in Id : h.instances[id] =
             IF id \in Quiescent(g, now) THEN None ELSE g.instances[id]
    BY <1>2 DEF ReclaimQuiescent, EngineSound, EngineShape, EmptyEngine
  <2> HIDE DEF h
  <2>2. SameOrGone(g, h)
    BY <2>1 DEF SameOrGone
  <2>3. ASSUME NEW id \in Id, h.instances[id] # None
        PROVE  \/ DecidedAtLast(g, id)
               \/ /\ [when |-> g.instances[id].last + TTL, id |-> id] \in h.ttlTimers
                  /\ now < g.instances[id].last + TTL
    <3> DEFINE i == g.instances[id]
               t == [when |-> i.last + TTL, id |-> id]
    <3>1. i # None /\ id \notin Quiescent(g, now)
      BY <2>1, <2>3
    <3>2. i.last \in Int
      BY <3>1 DEF EngineSound, EngineShape, InstanceShape
    <3>3. CASE t \in g.ttlTimers
      <4>1. ASSUME t.when <= now
            PROVE  FALSE
        <5>1. t \in {u \in g.ttlTimers : u.id = id /\ u.when <= now}
          BY <3>3, <4>1
        <5>2. Due(g.ttlTimers, id, now) # {}
          BY <5>1 DEF Due
        <5>3. now - i.last >= TTL
          BY <2>0, <3>2, <4>1
        <5> QED  BY <1>2, <3>1, <5>2, <5>3 DEF Quiescent
      <4>2. now < t.when
        BY <2>0, <3>2, <4>1
      <4>3. t \in h.ttlTimers
        <5> HIDE DEF t
        <5>1. t.when > now
          BY <4>2, <3>3 DEF EngineSound, EngineShape
        <5> QED  BY <2>1, <3>3, <5>1 DEF NotDue
      <4> QED  BY <4>2, <4>3
    <3> QED  BY <1>2, <3>1, <3>3 DEF EngineSound, TtlQueued
  <2>4. /\ \A t \in h.ttlTimers : t.when \in Int
        /\ \A id \in Id : IsSequence(h.verdicts[id])
    BY <2>1 DEF NotDue, EngineSound, EngineShape
  <2>5. /\ EngineSound(h) /\ OnlyFewer(g, h)
        /\ \A id \in Id : Armed(h, id) => Armed(g, id) /\ h.instances[id] = g.instances[id]
    BY <2>1, <2>2, <2>3, <2>4, FewerKeeps
  <2>6. \A id \in Id : h.instances[id] # None =>
          DecidedAtLast(h, id) \/ now < h.instances[id].last + TTL
    BY <2>1, <2>2, <2>3 DEF SameOrGone, DecidedAtLast
  <2> QED  BY <2>1, <2>5, <2>6 DEF h
<1> QED  BY <1>1, <1>2

(* _retire_entity drops instances and their timers go stale.               *)
LEMMA RetireKeeps ==
  ASSUME NEW g, EngineSound(g), NEW e
  PROVE  LET h == RetireEntity(g, e)
         IN EngineSound(h) /\ SameOrGone(g, h) /\ OnlyFewer(g, h) /\ h.invalid = g.invalid
<1> DEFINE h == RetireEntity(g, e)
           gone(id) == Carries(e, id) /\ g.instances[id] # None
           r(id) == OnTerminal(PolicyOf(id), g.instances[id].monitor)
<1>1. /\ DOMAIN h = DOMAIN g /\ h.deadlines = g.deadlines /\ h.ttlTimers = g.ttlTimers
      /\ h.invalid = g.invalid
      /\ \A id \in Id :
           /\ h.instances[id] = IF gone(id) THEN None ELSE g.instances[id]
           /\ h.verdicts[id] = IF gone(id) THEN g.verdicts[id] \o Report(id, r(id), e.time)
                               ELSE g.verdicts[id]
  BY DEF RetireEntity, EngineSound, EngineShape, EmptyEngine
<1> HIDE DEF h
<1>2. SameOrGone(g, h)
  BY <1>1 DEF SameOrGone
<1>3. ASSUME NEW id \in Id
      PROVE  IsSequence(h.verdicts[id])
  <2>1. IsSequence(g.verdicts[id])
    BY DEF EngineSound, EngineShape
  <2> DEFINE q == r(id)
  <2>2. Report(id, q, e.time) = <<>> \/ \E v : Report(id, q, e.time) = <<v>>
    <3> HIDE DEF q
    <3> QED  BY DEF Report
  <2>3. IsSequence(g.verdicts[id] \o Report(id, q, e.time))
    <3> DEFINE s == Report(id, q, e.time)
    <3> HIDE DEF s
    <3> QED  BY <2>1, <2>2, Appending, AppendingNothing DEF s
  <2> QED  BY <1>1, <2>1, <2>3
<1>4. \A t \in h.ttlTimers : t.when \in Int
  BY <1>1 DEF EngineSound, EngineShape
<1>5. \A id \in Id : TTL # None /\ h.instances[id] # None =>
        \/ DecidedAtLast(g, id)
        \/ [when |-> g.instances[id].last + TTL, id |-> id] \in h.ttlTimers
  BY <1>1, <1>2 DEF EngineSound, TtlQueued, SameOrGone
<1> QED  BY <1>1, <1>2, <1>3, <1>4, <1>5, FewerKeeps DEF h

-----------------------------------------------------------------------------
(* The fields _handle_event's dispatch loop touches, and how.              *)
LEMMA DispatchFields ==
  ASSUME NEW g, EngineShape(g), NEW e
  PROVE  LET d == Dispatch(g, e)
         IN /\ DOMAIN d = DOMAIN g /\ d.invalid = g.invalid
            /\ g.deadlines \subseteq d.deadlines /\ g.ttlTimers \subseteq d.ttlTimers
            /\ \A t \in d.deadlines : t \in g.deadlines \/
                 \E id \in Id : Concerns(e, id) /\ t \in Dispatched(g, e, id).deadline
            /\ \A t \in d.ttlTimers : t \in g.ttlTimers \/
                 \E id \in Id : Concerns(e, id) /\ t \in Dispatched(g, e, id).ttl
            /\ \A id \in Id :
                 /\ ~Concerns(e, id) => d.instances[id] = g.instances[id]
                                        /\ d.verdicts[id] = g.verdicts[id]
                 /\ Concerns(e, id) =>
                      LET q == Dispatched(g, e, id)
                      IN /\ d.instances[id] = q.instance
                         /\ d.verdicts[id] = g.verdicts[id] \o q.report
                         /\ q.deadline \subseteq d.deadlines
                         /\ q.ttl \subseteq d.ttlTimers
<1> DEFINE ids == {id \in Id : Concerns(e, id)}
           q == [id \in ids |-> Dispatched(g, e, id)]
           D == UNION {q[id].deadline : id \in ids}
           T == UNION {q[id].ttl : id \in ids}
           N == [p \in Policies |->
                  g.errors[p] + Cardinality({id \in ids : PolicyOf(id) = p /\ q[id].raised})]
<1>1. Dispatch(g, e) = [g EXCEPT
        !.instances = [id \in Id |-> IF id \in ids THEN q[id].instance ELSE g.instances[id]],
        !.verdicts  = [id \in Id |-> IF id \in ids THEN g.verdicts[id] \o q[id].report
                                     ELSE g.verdicts[id]],
        !.errors    = N,
        !.deadlines = g.deadlines \cup D,
        !.ttlTimers = g.ttlTimers \cup T]
  BY DEF Dispatch, EngineShape, EmptyEngine
<1>2. \A id \in ids : q[id] = Dispatched(g, e, id)
  OBVIOUS
<1>3. \A t : t \in D <=> \E id \in ids : t \in Dispatched(g, e, id).deadline
  BY <1>2
<1>4. \A t : t \in T <=> \E id \in ids : t \in Dispatched(g, e, id).ttl
  BY <1>2
<1>5. \A id : id \in ids <=> id \in Id /\ Concerns(e, id)
  OBVIOUS
<1> HIDE DEF q, N, D, T, ids
<1> DEFINE d == Dispatch(g, e)
<1>6. /\ DOMAIN d = DOMAIN g /\ d.invalid = g.invalid
      /\ d.deadlines = g.deadlines \cup D /\ d.ttlTimers = g.ttlTimers \cup T
      /\ \A id \in Id :
           /\ d.instances[id] = IF id \in ids THEN q[id].instance ELSE g.instances[id]
           /\ d.verdicts[id] = IF id \in ids THEN g.verdicts[id] \o q[id].report
                               ELSE g.verdicts[id]
  BY <1>1 DEF EngineShape, EmptyEngine
<1> HIDE DEF d
<1>7. \A t \in d.deadlines : t \in g.deadlines \/
        \E id \in Id : Concerns(e, id) /\ t \in Dispatched(g, e, id).deadline
  BY <1>3, <1>5, <1>6
<1>8. \A t \in d.ttlTimers : t \in g.ttlTimers \/
        \E id \in Id : Concerns(e, id) /\ t \in Dispatched(g, e, id).ttl
  BY <1>4, <1>5, <1>6
<1>9. ASSUME NEW id \in Id, Concerns(e, id)
      PROVE  /\ d.instances[id] = Dispatched(g, e, id).instance
             /\ d.verdicts[id] = g.verdicts[id] \o Dispatched(g, e, id).report
             /\ Dispatched(g, e, id).deadline \subseteq d.deadlines
             /\ Dispatched(g, e, id).ttl \subseteq d.ttlTimers
  BY <1>2, <1>3, <1>4, <1>5, <1>6, <1>9
<1>10. \A id \in Id : ~Concerns(e, id) =>
         d.instances[id] = g.instances[id] /\ d.verdicts[id] = g.verdicts[id]
  BY <1>5, <1>6
<1> QED  BY <1>6, <1>7, <1>8, <1>9, <1>10 DEF d

(* A settled monitor is left alone.                                        *)
LEMMA SettledStays ==
  ASSUME NEW p, NEW m, NEW e, m.settled
  PROVE  Apply(p, m, e).monitor = m
BY DEF Apply, OnEvent, Raises, Quiet

(* What dispatch gives an id the event concerns.                           *)
LEMMA DispatchOne ==
  ASSUME NEW g, EngineSound(g), NEW e, e.time \in Int, NEW id \in Id,
         Armed(g, id) => e.time < g.instances[id].monitor.deadline
  PROVE  LET q == Dispatched(g, e, id)
             m == q.instance.monitor
         IN /\ InstanceShape(q.instance) /\ q.instance.last = e.time
            /\ \A t \in q.deadline \cup q.ttl : t.when \in Int
            /\ q.report = <<>> \/ \E v : v.at = e.time /\ q.report = <<v>>
            /\ q.report # <<>> => m.settled
            /\ q.report = <<>> =>
                 /\ TTL # None => [when |-> e.time + TTL, id |-> id] \in q.ttl
                 /\ NextDeadline(m) # None => [when |-> m.deadline, id |-> id] \in q.deadline
            /\ NextDeadline(m) # None =>
                 \/ e.time < m.deadline
                 \/ PolicyOf(id).kind = "within" /\ PolicyOf(id).seconds = 0
<1> DEFINE p == PolicyOf(id)
           i == IF g.instances[id] = None THEN NewInstance ELSE g.instances[id]
           r == Apply(p, i.monitor, e)
           q == Dispatched(g, e, id)
<1>1. p \in Policies
  BY DEF PolicyOf, Id
<1>2. MonitorShape(i.monitor)
  <2>1. MonitorShape(Fresh)
    BY DEF MonitorShape, Fresh
  <2> QED  BY <2>1 DEF NewInstance, EngineSound, EngineShape, InstanceShape
<1>3. Given(p, i.monitor, e, r)
  BY <1>1, <1>2, ApplyGives
<1>4. i.monitor.settled => r.monitor = i.monitor
  BY SettledStays
<1>5. NextDeadline(i.monitor) # None => e.time < i.monitor.deadline
  BY DEF NewInstance, Fresh, NextDeadline, Armed
<1>6. /\ q.instance = [monitor |-> r.monitor, last |-> e.time]
      /\ q.report = Report(id, r, e.time)
      /\ q.deadline = IF r.status # None \/ NextDeadline(r.monitor) = None THEN {}
                      ELSE {[when |-> NextDeadline(r.monitor), id |-> id]}
      /\ q.ttl = IF r.status # None \/ TTL = None THEN {}
                 ELSE {[when |-> e.time + TTL, id |-> id]}
  BY DEF Dispatched
<1> HIDE DEF q, r, i
<1>7. MonitorShape(r.monitor) /\ (r.status # None => r.monitor.settled)
  BY <1>3 DEF Given
<1>8. InstanceShape(q.instance) /\ q.instance.last = e.time /\ q.instance.monitor = r.monitor
  BY <1>6, <1>7 DEF InstanceShape
<1>9. /\ r.status = None => q.report = <<>>
      /\ r.status # None => q.report # <<>> /\ \E v : v.at = e.time /\ q.report = <<v>>
  BY <1>6 DEF Report
<1>10. NextDeadline(r.monitor) # None =>
         /\ ~r.monitor.settled /\ r.monitor.deadline \in Int
         /\ NextDeadline(r.monitor) = r.monitor.deadline
  BY <1>7 DEF NextDeadline, MonitorShape
<1>11. NextDeadline(r.monitor) # None =>
         \/ e.time < r.monitor.deadline
         \/ p.kind = "within" /\ p.seconds = 0
  <2> SUFFICES ASSUME NextDeadline(r.monitor) # None
               PROVE  \/ e.time < r.monitor.deadline
                      \/ p.kind = "within" /\ p.seconds = 0
    OBVIOUS
  <2>1. CASE r.monitor.deadline = i.monitor.deadline
    BY <1>4, <1>5, <1>10, <2>1 DEF NextDeadline
  <2>2. CASE p.kind = "within" /\ r.monitor.deadline = e.time + p.seconds
    <3>1. p.seconds \in Nat
      BY <1>1, <2>2, EngineAssumption
    <3> HIDE DEF p
    <3> QED  BY <2>2, <3>1
  <2> QED  BY <1>3, <2>1, <2>2 DEF Given
<1>12. \A t \in q.deadline \cup q.ttl : t.when \in Int
  BY <1>6, <1>10, EngineAssumption
<1>13. q.report = <<>> =>
         /\ TTL # None => [when |-> e.time + TTL, id |-> id] \in q.ttl
         /\ NextDeadline(r.monitor) # None =>
              [when |-> r.monitor.deadline, id |-> id] \in q.deadline
  BY <1>6, <1>9, <1>10
<1> QED  BY <1>7, <1>8, <1>9, <1>11, <1>12, <1>13 DEF q

(* The whole dispatch, to an engine with nothing overdue.                  *)
Prompt(g, now) ==
  /\ \A id \in Id : Armed(g, id) => now < g.instances[id].monitor.deadline
  /\ \A id \in Id : TTL # None /\ g.instances[id] # None =>
       DecidedAtLast(g, id) \/ now < g.instances[id].last + TTL

(* The instances after the event e: those it concerns, and old ones.       *)
Touched(g, h, e) ==
  \A id \in Id : h.instances[id] # None =>
    IF Concerns(e, id) THEN h.instances[id].last = e.time
    ELSE g.instances[id] # None /\ h.instances[id].last = g.instances[id].last

(* _dispatch: what it creates or changes has its timers when it returns.   *)
LEMMA DispatchKeeps ==
  ASSUME NEW g, EngineSound(g), NEW e, e.time \in Int, Prompt(g, e.time)
  PROVE  LET d == Dispatch(g, e)
         IN /\ EngineSound(d)
            /\ NothingDue(d, e.time)
            /\ Touched(g, d, e)
            /\ d.invalid = g.invalid
<1> DEFINE d == Dispatch(g, e)
<1>1. /\ DOMAIN d = DOMAIN g /\ d.invalid = g.invalid
      /\ g.deadlines \subseteq d.deadlines /\ g.ttlTimers \subseteq d.ttlTimers
      /\ \A t \in d.deadlines : t \in g.deadlines \/
           \E id \in Id : Concerns(e, id) /\ t \in Dispatched(g, e, id).deadline
      /\ \A t \in d.ttlTimers : t \in g.ttlTimers \/
           \E id \in Id : Concerns(e, id) /\ t \in Dispatched(g, e, id).ttl
  BY DispatchFields DEF EngineSound
<1>2. \A id \in Id : ~Concerns(e, id) => d.instances[id] = g.instances[id]
                                         /\ d.verdicts[id] = g.verdicts[id]
  BY DispatchFields DEF EngineSound
<1>3. \A id \in Id : Concerns(e, id) =>
        /\ d.instances[id] = Dispatched(g, e, id).instance
        /\ d.verdicts[id] = g.verdicts[id] \o Dispatched(g, e, id).report
        /\ Dispatched(g, e, id).deadline \subseteq d.deadlines
        /\ Dispatched(g, e, id).ttl \subseteq d.ttlTimers
  BY DispatchFields DEF EngineSound
<1> HIDE DEF d
<1>4. ASSUME NEW id \in Id, Concerns(e, id)
      PROVE  /\ InstanceShape(d.instances[id]) /\ d.instances[id].last = e.time
             /\ \A t \in Dispatched(g, e, id).deadline \cup Dispatched(g, e, id).ttl : t.when \in Int
             /\ IsSequence(d.verdicts[id])
             /\ DeadlineQueued(d, id) /\ TtlQueued(d, id)
             /\ Armed(d, id) => \/ e.time < d.instances[id].monitor.deadline
                                \/ PolicyOf(id).kind = "within" /\ PolicyOf(id).seconds = 0
  <2> DEFINE q == Dispatched(g, e, id)
             m == q.instance.monitor
  <2>1. Armed(g, id) => e.time < g.instances[id].monitor.deadline
    BY DEF Prompt
  <2>2. /\ InstanceShape(q.instance) /\ q.instance.last = e.time
        /\ \A t \in q.deadline \cup q.ttl : t.when \in Int
    BY <2>1, DispatchOne
  <2>3. q.report = <<>> \/ \E v : v.at = e.time /\ q.report = <<v>>
    BY <2>1, DispatchOne
  <2>4. /\ q.report # <<>> => m.settled
        /\ q.report = <<>> =>
             /\ TTL # None => [when |-> e.time + TTL, id |-> id] \in q.ttl
             /\ NextDeadline(m) # None => [when |-> m.deadline, id |-> id] \in q.deadline
    BY <2>1, DispatchOne
  <2>5. NextDeadline(m) # None =>
          \/ e.time < m.deadline
          \/ PolicyOf(id).kind = "within" /\ PolicyOf(id).seconds = 0
    BY <2>1, DispatchOne
  <2>6. IsSequence(g.verdicts[id])
    BY DEF EngineSound, EngineShape
  <2>7. /\ d.instances[id] = q.instance /\ d.verdicts[id] = g.verdicts[id] \o q.report
        /\ q.deadline \subseteq d.deadlines /\ q.ttl \subseteq d.ttlTimers
    BY <1>3, <1>4
  <2> DEFINE rest == /\ IsSequence(d.verdicts[id])
                     /\ DeadlineQueued(d, id) /\ TtlQueued(d, id)
  <2> HIDE DEF q
  <2>8. CASE q.report = <<>>
    <3>1. IsSequence(d.verdicts[id])
      BY <2>6, <2>7, <2>8, AppendingNothing
    <3>2. DeadlineQueued(d, id)
      BY <2>4, <2>7, <2>8 DEF DeadlineQueued, Armed
    <3>3. TtlQueued(d, id)
      BY <2>2, <2>4, <2>7, <2>8 DEF TtlQueued
    <3>4. rest
      BY <3>1, <3>2, <3>3
    <3>5. Armed(d, id) => NextDeadline(m) # None
      BY <2>7 DEF Armed
    <3> HIDE DEF rest
    <3> QED  BY <2>2, <2>5, <2>7, <3>4, <3>5 DEF q, rest
  <2>9. CASE q.report # <<>>
    <3>1. PICK v : v.at = e.time /\ q.report = <<v>>
      BY <2>3, <2>9
    <3>2. /\ IsSequence(d.verdicts[id]) /\ d.verdicts[id] # <<>>
          /\ d.verdicts[id][Len(d.verdicts[id])] = v
      BY <2>6, <2>7, <3>1, Appending
    <3>3. m.settled
      BY <2>4, <2>9
    <3>4. ~Armed(d, id)
      BY <2>7, <3>3 DEF Armed, NextDeadline
    <3>5. DecidedAtLast(d, id)
      BY <2>2, <2>7, <3>1, <3>2, <3>3 DEF DecidedAtLast
    <3>6. rest
      BY <3>2, <3>4, <3>5 DEF DeadlineQueued, TtlQueued
    <3> HIDE DEF rest
    <3> QED  BY <2>2, <2>7, <3>4, <3>6 DEF q, rest
  <2> QED  BY <2>8, <2>9
<1>5. ASSUME NEW id \in Id, ~Concerns(e, id)
      PROVE  /\ d.instances[id] = g.instances[id]
             /\ d.instances[id] # None => InstanceShape(d.instances[id])
             /\ IsSequence(d.verdicts[id])
             /\ DeadlineQueued(d, id) /\ TtlQueued(d, id)
             /\ Armed(d, id) => e.time < d.instances[id].monitor.deadline
             /\ TTL # None /\ d.instances[id] # None =>
                  DecidedAtLast(d, id) \/ e.time < d.instances[id].last + TTL
  <2>1. d.instances[id] = g.instances[id] /\ d.verdicts[id] = g.verdicts[id]
    BY <1>2, <1>5
  <2>2. /\ d.instances[id] # None => InstanceShape(d.instances[id])
        /\ IsSequence(d.verdicts[id])
    BY <2>1 DEF EngineSound, EngineShape
  <2>3. DeadlineQueued(g, id) /\ TtlQueued(g, id)
    BY DEF EngineSound
  <2>4. DeadlineQueued(d, id)
    BY <1>1, <2>1, <2>3 DEF DeadlineQueued, Armed
  <2>5. DecidedAtLast(d, id) <=> DecidedAtLast(g, id)
    BY <2>1 DEF DecidedAtLast
  <2>6. TtlQueued(d, id)
    BY <1>1, <2>1, <2>3, <2>5 DEF TtlQueued
  <2>7. Armed(d, id) => e.time < d.instances[id].monitor.deadline
    BY <2>1 DEF Armed, Prompt
  <2>8. TTL # None /\ d.instances[id] # None =>
          DecidedAtLast(d, id) \/ e.time < d.instances[id].last + TTL
    BY <2>1, <2>5 DEF Prompt
  <2> QED  BY <2>1, <2>2, <2>4, <2>6, <2>7, <2>8
<1>6. \A t \in d.deadlines \cup d.ttlTimers : t.when \in Int
  BY <1>1, <1>4 DEF EngineSound, EngineShape
<1>7. EngineSound(d)
  BY <1>1, <1>4, <1>5, <1>6 DEF EngineSound, EngineShape
<1>8. NothingDue(d, e.time)
  <2> SUFFICES ASSUME NEW id \in Id
      PROVE  /\ Armed(d, id) => \/ e.time < d.instances[id].monitor.deadline
                                \/ PolicyOf(id).kind = "within" /\ PolicyOf(id).seconds = 0
             /\ TTL # None /\ d.instances[id] # None =>
                  \/ DecidedAtLast(d, id)
                  \/ d.instances[id].last = e.time
                  \/ e.time < d.instances[id].last + TTL
    BY DEF NothingDue
  <2>1. CASE Concerns(e, id)
    BY <1>4, <2>1
  <2>2. CASE ~Concerns(e, id)
    BY <1>5, <2>2
  <2> QED  BY <2>1, <2>2
<1>9. Touched(g, d, e)
  BY <1>4, <1>5 DEF Touched
<1> QED  BY <1>1, <1>7, <1>8, <1>9 DEF d

-----------------------------------------------------------------------------
(* _handle_event as a whole.  Whatever one event does, an engine that was  *)
(* sound stays sound and nothing is overdue at the time of the event; an   *)
(* instance it concerns was last active then, the others are old ones.     *)
THEOREM HandlingIsSound ==
  ASSUME NEW g, EngineSound(g), NEW e, e.time \in Int
  PROVE  LET h == HandleEvent(g, e)
         IN /\ EngineSound(h)
            /\ NothingDue(h, e.time)
            /\ Touched(g, h, e)
            /\ h.invalid = g.invalid
<1> DEFINE now == e.time
           f == FireDueDeadlines(g, now)
           c == ReclaimQuiescent(f, now)
           d == Dispatch(c, e)
           h == HandleEvent(g, e)
<1>1. /\ EngineSound(f) /\ OnlyFewer(g, f) /\ f.invalid = g.invalid
      /\ \A id \in Id : Armed(f, id) => now < f.instances[id].monitor.deadline
  BY FireKeeps
<1>2. h = IF e.type \in TerminalTypes THEN RetireEntity(d, e) ELSE d
  BY BufferAssumption DEF HandleEvent, UsableTime
<1> HIDE DEF f
<1>3. /\ EngineSound(c) /\ OnlyFewer(f, c) /\ c.invalid = f.invalid
      /\ \A id \in Id : Armed(c, id) => Armed(f, id) /\ c.instances[id] = f.instances[id]
      /\ \A id \in Id : TTL # None /\ c.instances[id] # None =>
           DecidedAtLast(c, id) \/ now < c.instances[id].last + TTL
  BY <1>1, ReclaimKeeps
<1> HIDE DEF c
<1>4. Prompt(c, now)
  <2>1. \A id \in Id : Armed(c, id) => now < c.instances[id].monitor.deadline
    BY <1>1, <1>3
  <2> QED  BY <1>3, <2>1 DEF Prompt
<1>5. /\ EngineSound(d) /\ NothingDue(d, now) /\ Touched(c, d, e) /\ d.invalid = c.invalid
  BY <1>3, <1>4, DispatchKeeps
<1> HIDE DEF d, h
<1>6. Touched(g, d, e)
  BY <1>1, <1>3, <1>5 DEF Touched, OnlyFewer
<1>7. CASE e.type \notin TerminalTypes
  BY <1>1, <1>2, <1>3, <1>5, <1>6, <1>7 DEF h
<1>8. CASE e.type \in TerminalTypes
  <2>1. h = RetireEntity(d, e)
    BY <1>2, <1>8
  <2>2. EngineSound(h) /\ SameOrGone(d, h) /\ OnlyFewer(d, h) /\ h.invalid = d.invalid
    BY <1>5, <2>1, RetireKeeps
  <2>3. Touched(g, h, e)
    BY <1>6, <2>2 DEF Touched, OnlyFewer
  <2>4. \A id \in Id : h.instances[id] # None =>
          /\ h.instances[id] = d.instances[id]
          /\ Armed(h, id) <=> Armed(d, id)
          /\ DecidedAtLast(h, id) <=> DecidedAtLast(d, id)
    BY <2>2 DEF SameOrGone, Armed, DecidedAtLast
  <2>5. \A id \in Id : h.instances[id] = None => ~Armed(h, id)
    BY DEF Armed
  <2>6. NothingDue(h, now)
    BY <1>5, <2>4, <2>5 DEF NothingDue
  <2> QED  BY <1>1, <1>3, <1>5, <2>2, <2>3, <2>6 DEF h
<1> QED  BY <1>7, <1>8

(* What is reclaimed has been silent for its TTL.                          *)
LEMMA ReclaimedWasQuiet ==
  ASSUME NEW g, EngineSound(g), NEW now \in Int, NEW id \in Id,
         id \in Quiescent(FireDueDeadlines(g, now), now)
  PROVE  /\ g.instances[id] # None /\ g.instances[id].last \in Int
         /\ TTL \in Int /\ now - g.instances[id].last >= TTL
<1> DEFINE f == FireDueDeadlines(g, now)
<1>1. EngineSound(f) /\ OnlyFewer(g, f)
  BY FireKeeps
<1> HIDE DEF f
<1>2. id \in Quiescent(f, now)
  BY DEF f
<1>3. TTL # None /\ f.instances[id] # None /\ now - f.instances[id].last >= TTL
  BY <1>2 DEF Quiescent
<1>4. g.instances[id] # None /\ f.instances[id].last = g.instances[id].last
  BY <1>1, <1>3 DEF OnlyFewer
<1>5. g.instances[id].last \in Int
  BY <1>4 DEF EngineSound, EngineShape, InstanceShape
<1> QED  BY <1>3, <1>4, <1>5, EngineAssumption

(* emit_pending reports, it changes no instance and no timer.              *)
LEMMA EmitKeeps ==
  ASSUME NEW g, EngineSound(g), NEW now, NothingDue(g, now)
  PROVE  LET h == EmitPending(g)
         IN /\ EngineSound(h) /\ NothingDue(h, now)
            /\ h.invalid = g.invalid /\ h.instances = g.instances
<1> DEFINE h == EmitPending(g)
           v(id) == [verdict |-> "pending", at |-> g.instances[id].last,
                     because |-> DecidingEvents(PolicyOf(id), g.instances[id].monitor)]
<1>1. /\ DOMAIN h = DOMAIN g /\ h.instances = g.instances /\ h.invalid = g.invalid
      /\ h.deadlines = g.deadlines /\ h.ttlTimers = g.ttlTimers
      /\ \A id \in Id : h.verdicts[id] = IF id \notin Pending(g) THEN g.verdicts[id]
                                         ELSE Append(g.verdicts[id], v(id))
  BY DEF EmitPending, EngineSound, EngineShape, EmptyEngine
<1> HIDE DEF h, v
<1>2. ASSUME NEW id \in Id
      PROVE  /\ IsSequence(h.verdicts[id])
             /\ Armed(h, id) <=> Armed(g, id)
             /\ g.instances[id] # None /\ DecidedAtLast(g, id) => DecidedAtLast(h, id)
  <2>1. IsSequence(g.verdicts[id])
    BY DEF EngineSound, EngineShape
  <2>2. Append(g.verdicts[id], v(id)) = g.verdicts[id] \o <<v(id)>>
    BY <2>1 DEF IsSequence
  <2>3. IsSequence(h.verdicts[id])
    BY <1>1, <2>1, <2>2, Appending
  <2>4. Armed(h, id) <=> Armed(g, id)
    BY <1>1 DEF Armed
  <2>5. g.instances[id] # None /\ DecidedAtLast(g, id) => DecidedAtLast(h, id)
    BY <1>1 DEF DecidedAtLast, Pending
  <2> QED  BY <2>3, <2>4, <2>5
<1>3. EngineShape(h)
  BY <1>1, <1>2 DEF EngineSound, EngineShape
<1>4. \A id \in Id : DeadlineQueued(h, id) /\ TtlQueued(h, id)
  BY <1>1, <1>2 DEF EngineSound, DeadlineQueued, TtlQueued
<1>5. NothingDue(h, now)
  BY <1>1, <1>2 DEF NothingDue
<1> QED  BY <1>1, <1>3, <1>4, <1>5 DEF EngineSound, h

(* A new engine has nothing to wait for.                                   *)
LEMMA EmptyIsSound ==
  ASSUME NEW now
  PROVE  EngineSound(EmptyEngine) /\ NothingDue(EmptyEngine, now)
<1>1. \A id \in Id : EmptyEngine.instances[id] = None /\ EmptyEngine.verdicts[id] = <<>>
  BY DEF EmptyEngine
<1>2. IsSequence(<<>>)
  BY DEF IsSequence
<1>3. EngineShape(EmptyEngine)
  BY <1>1, <1>2 DEF EngineShape, EmptyEngine
<1> QED  BY <1>1, <1>3 DEF EngineSound, NothingDue, Armed, DeadlineQueued, TtlQueued

-----------------------------------------------------------------------------
(* The events the engine takes, and what a window of them holds.           *)
Timely == {e \in Event : UsableTime(e.time)}
Entries == [event : Timely, seq : Nat]
BufferType == [heap : SUBSET Entries, seq : Nat, maxSeen : Int, watermark : Int,
               late : Seq(Event), invalid : Seq(Event)]

(* A window whose entries are numbered below its next number.              *)
Window(b) ==
  /\ b \in BufferType
  /\ IsFiniteSet(b.heap)
  /\ Numbered(b.heap)
  /\ \A x \in b.heap : x.seq < b.seq

(* At the start the window is empty.                                       *)
LEMMA EmptyWindow == Window(EmptyBuffer)
BY BufferAssumption, FS_EmptySet, EmptySeq
   DEF Window, BufferType, EmptyBuffer, Numbered

(* The times the window accepts are numbers between the two infinities.    *)
LEMMA TimelyTimes ==
  \A e \in Timely : e.time \in Int /\ NegInf < e.time /\ e.time < PosInf /\ e.tie \in Int
BY EventAssumption, BufferAssumption DEF Timely

(* What InOrderIsSorted asks of a set of held entries.                        *)
LEMMA HeapFacts ==
  ASSUME NEW b, Window(b), NEW S, S \subseteq b.heap
  PROVE  IsFiniteSet(S) /\ Comparable(S) /\ Numbered(S) /\ S \subseteq Entries
<1>1. IsFiniteSet(S)
  BY FS_Subset DEF Window
<1>2. S \subseteq Entries
  BY DEF Window, BufferType
<1>3. Comparable(S)
  BY <1>2, TimelyTimes DEF Entries, Comparable
<1> QED  BY <1>1, <1>2, <1>3 DEF Window, Numbered

(* What heappop returns of the window is a sequence of events.             *)
LEMMA PoppedEvents ==
  ASSUME NEW b, Window(b), NEW S, S \subseteq b.heap
  PROVE  Events(InOrder(S)) \in Seq(Timely) /\ Len(Events(InOrder(S))) = Cardinality(S)
<1>1. InOrder(S) \in Seq(S) /\ Len(InOrder(S)) = Cardinality(S)
  BY HeapFacts, InOrderIsSorted
<1>2. S \subseteq Entries
  BY HeapFacts
<1>3. \A i \in DOMAIN InOrder(S) : InOrder(S)[i].event \in Timely
  BY <1>1, <1>2 DEF Entries
<1> DEFINE s == InOrder(S)
<1> HIDE DEF s
<1>4. Events(s) \in [1 .. Len(s) -> Timely] /\ Len(s) \in Nat
  BY <1>1, <1>3 DEF Events, s
<1> QED  BY <1>1, <1>4 DEF s

(* The events of two listings, one after the other.                        *)
LEMMA EventsOfBoth ==
  ASSUME NEW S, NEW T, NEW x \in Seq(S), NEW y \in Seq(T)
  PROVE  Events(x \o y) = Events(x) \o Events(y)
<1> DEFINE R == S \cup T
           E == {t.event : t \in R}
           z == x \o y
           u == Events(x)
           v == Events(y)
<1>1. x \in Seq(R) /\ y \in Seq(R)
  OBVIOUS
<1> HIDE DEF R
<1>2. /\ z \in Seq(R) /\ Len(z) = Len(x) + Len(y)
      /\ \A i \in 1 .. Len(x) + Len(y) : z[i] = IF i <= Len(x) THEN x[i] ELSE y[i - Len(x)]
  BY <1>1, ConcatProperties
<1> HIDE DEF z
<1>3. ASSUME NEW q \in Seq(R)
      PROVE  /\ Events(q) \in Seq(E) /\ Len(Events(q)) = Len(q)
             /\ \A i \in 1 .. Len(q) : Events(q)[i] = q[i].event
  <2>1. DOMAIN q = 1 .. Len(q) /\ Len(q) \in Nat /\ \A i \in 1 .. Len(q) : q[i] \in R
    BY <1>3
  <2>2. Events(q) = [i \in 1 .. Len(q) |-> q[i].event]
    BY <2>1 DEF Events
  <2>3. \A i \in 1 .. Len(q) : q[i].event \in E
    BY <2>1
  <2> HIDE DEF E
  <2>4. Events(q) \in [1 .. Len(q) -> E]
    BY <2>2, <2>3
  <2> QED  BY <2>1, <2>2, <2>4
<1>4. u \in Seq(E) /\ Len(u) = Len(x) /\ \A i \in 1 .. Len(x) : u[i] = x[i].event
  BY <1>1, <1>3
<1>5. v \in Seq(E) /\ Len(v) = Len(y) /\ \A i \in 1 .. Len(y) : v[i] = y[i].event
  BY <1>1, <1>3
<1>6. /\ Events(z) \in Seq(E) /\ Len(Events(z)) = Len(z)
      /\ \A i \in 1 .. Len(z) : Events(z)[i] = z[i].event
  BY <1>2, <1>3
<1> HIDE DEF u, v, E
<1> DEFINE w == u \o v
<1>7. /\ w \in Seq(E) /\ Len(w) = Len(u) + Len(v)
      /\ \A i \in 1 .. Len(u) + Len(v) : w[i] = IF i <= Len(u) THEN u[i] ELSE v[i - Len(u)]
  <2>1. u \in Seq(E) /\ v \in Seq(E)
    BY <1>4, <1>5
  <2> QED  BY ONLY <2>1, ConcatProperties
<1>8. Len(x) \in Nat /\ Len(y) \in Nat
  OBVIOUS
<1> HIDE DEF w
<1>9. Len(z) = Len(w) /\ \A i \in 1 .. Len(z) : Events(z)[i] = w[i]
  <2>1. Len(z) = Len(w) /\ Len(z) = Len(x) + Len(y)
    BY <1>2, <1>4, <1>5, <1>7
  <2> SUFFICES ASSUME NEW i \in 1 .. Len(x) + Len(y)
               PROVE  Events(z)[i] = w[i]
    BY <2>1
  <2>2. Events(z)[i] = z[i].event
    BY <1>6, <2>1
  <2>3. CASE i <= Len(x)
    <3>1. z[i] = x[i]
      BY <1>2, <2>3
    <3>2. w[i] = u[i]
      BY <1>4, <1>5, <1>7, <2>3
    <3>3. i \in 1 .. Len(x)
      BY <1>8, <2>3
    <3> QED  BY <1>4, <2>2, <3>1, <3>2, <3>3
  <2>4. CASE ~(i <= Len(x))
    <3>1. z[i] = y[i - Len(x)]
      BY <1>2, <2>4
    <3>2. w[i] = v[i - Len(x)]
      BY <1>4, <1>5, <1>7, <2>4
    <3>3. i - Len(x) \in 1 .. Len(y)
      BY <1>8, <2>4
    <3> QED  BY <1>5, <2>2, <3>1, <3>2, <3>3
  <2> QED  BY <2>3, <2>4
<1>10. Events(z) = w
  <2>1. Events(z) \in Seq(E) /\ w \in Seq(E) /\ Len(Events(z)) = Len(w)
    BY <1>6, <1>7, <1>9
  <2> DEFINE r == Events(z)
  <2> HIDE DEF r
  <2>2. \A i \in 1 .. Len(w) : r[i] = w[i]
    BY <1>9 DEF r
  <2>3. r \in Seq(E) /\ Len(r) = Len(w)
    BY <2>1 DEF r
  <2>4. r = w
    BY ONLY <2>1, <2>2, <2>3
  <2> QED  BY <2>4 DEF r
<1> QED  BY <1>10 DEF u, v, z, w

(* The window after a push, after a release and after the flush.           *)
LEMMA PushKeepsWindow ==
  ASSUME NEW b, Window(b), NEW e \in Event
  PROVE  /\ Window(Push(b, e))
         /\ ~UsableTime(e.time) => Push(b, e) = [b EXCEPT !.invalid = Append(@, e)]
         /\ UsableTime(e.time) /\ e.time < b.watermark =>
              Push(b, e) = [b EXCEPT !.late = Append(@, e)]
         /\ UsableTime(e.time) /\ ~(e.time < b.watermark) =>
              Push(b, e) = [b EXCEPT !.heap = @ \cup {Entry(e, b.seq)}, !.seq = @ + 1,
                                     !.maxSeen = Larger(@, e.time)]
<1> DEFINE c == Push(b, e)
<1>1. b \in BufferType
  BY DEF Window
<1>2. CASE ~UsableTime(e.time)
  <2>1. c = [b EXCEPT !.invalid = Append(@, e)]
    BY <1>2 DEF Push
  <2>2. Append(b.invalid, e) \in Seq(Event)
    BY <1>1 DEF BufferType
  <2>3. c \in BufferType /\ c.heap = b.heap /\ c.seq = b.seq
    BY <1>1, <2>1, <2>2 DEF BufferType
  <2> QED  BY <1>2, <2>1, <2>3 DEF Window
<1>3. CASE UsableTime(e.time) /\ e.time < b.watermark
  <2>1. c = [b EXCEPT !.late = Append(@, e)]
    BY <1>3 DEF Push
  <2>2. Append(b.late, e) \in Seq(Event)
    BY <1>1 DEF BufferType
  <2>3. c \in BufferType /\ c.heap = b.heap /\ c.seq = b.seq
    BY <1>1, <2>1, <2>2 DEF BufferType
  <2> QED  BY <1>3, <2>1, <2>3 DEF Window
<1>4. CASE UsableTime(e.time) /\ ~(e.time < b.watermark)
  <2> DEFINE x == Entry(e, b.seq)
  <2>1. c = [b EXCEPT !.heap = @ \cup {x}, !.seq = @ + 1, !.maxSeen = Larger(@, e.time)]
    BY <1>4 DEF Push
  <2>2. e \in Timely /\ e.time \in Int
    BY <1>4, TimelyTimes DEF Timely
  <2>3. x \in Entries /\ x.seq = b.seq
    BY <1>1, <2>2 DEF Entry, Entries, BufferType
  <2>4. Larger(b.maxSeen, e.time) \in Int
    BY <1>1, <2>2 DEF Larger, BufferType
  <2> HIDE DEF x
  <2>5. c = [heap |-> b.heap \cup {x}, seq |-> b.seq + 1, maxSeen |-> Larger(b.maxSeen, e.time),
             watermark |-> b.watermark, late |-> b.late, invalid |-> b.invalid]
    BY <1>1, <2>1 DEF BufferType
  <2>6. c \in BufferType /\ c.heap = b.heap \cup {x} /\ c.seq = b.seq + 1
    BY <1>1, <2>3, <2>4, <2>5 DEF BufferType
  <2>7. IsFiniteSet(c.heap)
    BY <2>6, FS_AddElement DEF Window
  <2>8. \A y \in b.heap : y.seq \in Nat /\ y.seq < b.seq
    BY <1>1 DEF Window, BufferType, Entries
  <2>9. Numbered(c.heap) /\ \A y \in c.heap : y.seq < c.seq
    <3>1. b.seq \in Nat
      BY <1>1 DEF BufferType
    <3>2. \A y \in b.heap : y.seq < b.seq + 1 /\ y.seq # b.seq
      BY <2>8, <3>1
    <3>3. Numbered(b.heap)
      BY DEF Window
    <3>4. Numbered(c.heap)
      BY <2>3, <2>6, <3>2, <3>3 DEF Numbered
    <3> QED  BY <2>3, <2>6, <3>1, <3>2, <3>4
  <2> QED  BY <1>4, <2>1, <2>6, <2>7, <2>9 DEF Window, x
<1> QED  BY <1>2, <1>3, <1>4

(* A window with fewer entries and another watermark.                      *)
Left(b, S, w) == [b EXCEPT !.heap = S, !.watermark = w]

(* A window that has handed over some of its entries is still one.         *)
LEMMA FewerEntries ==
  ASSUME NEW b, Window(b), NEW S, S \subseteq b.heap, NEW w \in Int
  PROVE  Window(Left(b, S, w)) /\ Left(b, S, w).heap = S /\ Left(b, S, w).watermark = w
<1> DEFINE c == Left(b, S, w)
<1>1. b \in BufferType
  BY DEF Window
<1>2. c \in BufferType /\ c.heap = S /\ c.seq = b.seq /\ c.watermark = w
  BY <1>1 DEF BufferType, Left
<1> HIDE DEF c
<1>3. Window(c)
  BY <1>2, HeapFacts DEF Window
<1> QED  BY <1>2, <1>3 DEF c

(* releasable() moves the watermark up to the grace below the newest event *)
(* seen and hands over what lies below it.                                 *)
LEMMA ReleaseGives ==
  ASSUME NEW b, Window(b)
  PROVE  LET w == Larger(b.watermark, b.maxSeen - Grace)
             S == {x \in b.heap : x.event.time < w}
         IN /\ w \in Int /\ S \subseteq b.heap
            /\ Releasable(b) = InOrder(S)
            /\ AfterReleasable(b) = [b EXCEPT !.heap = b.heap \ S, !.watermark = w]
            /\ Window(AfterReleasable(b))
<1> DEFINE w == Larger(b.watermark, b.maxSeen - Grace)
           S == {x \in b.heap : x.event.time < w}
           c == MoveWatermark(b)
<1>1. b \in BufferType
  BY DEF Window
<1>2. w \in Int
  BY <1>1, BufferAssumption DEF BufferType, Larger
<1>3. c = [b EXCEPT !.watermark = w]
  BY DEF MoveWatermark
<1> HIDE DEF w
<1>4. c.heap = b.heap /\ c.watermark = w
  BY <1>1, <1>3 DEF BufferType
<1>5. Ripe(c) = S
  BY <1>4 DEF Ripe
<1>6. Releasable(b) = InOrder(S)
  BY <1>5 DEF Releasable
<1>7. AfterReleasable(b) = [b EXCEPT !.heap = b.heap \ S, !.watermark = w]
  <2>1. AfterReleasable(b) = [c EXCEPT !.heap = b.heap \ S]
    BY <1>4, <1>5 DEF AfterReleasable, Drained
  <2> HIDE DEF S
  <2> QED  BY <1>1, <1>3, <2>1 DEF BufferType
<1>8. b.heap \ S \subseteq b.heap /\ S \subseteq b.heap
  OBVIOUS
<1>9. Window(AfterReleasable(b))
  <2> DEFINE R == b.heap \ S
  <2>1. AfterReleasable(b) = Left(b, R, w) /\ R \subseteq b.heap
    BY <1>7 DEF Left
  <2> HIDE DEF R
  <2> QED  BY <1>2, <2>1, FewerEntries
<1> QED  BY <1>2, <1>6, <1>7, <1>8, <1>9 DEF w

(* The flush empties it.                                                   *)
LEMMA FlushGives ==
  ASSUME NEW b, Window(b)
  PROVE  Window(AfterFlush(b)) /\ AfterFlush(b).heap = {}
<1>1. {} \subseteq b.heap /\ PosInf \in Int
  BY BufferAssumption
<1>2. AfterFlush(b) = Left(b, {}, PosInf)
  BY DEF AfterFlush, Left
<1> QED  BY <1>1, <1>2, FewerEntries

-----------------------------------------------------------------------------
(* The place of a position among others.                                   *)
Place(I, i) == Cardinality({j \in I : j <= i})
Ranks(I) == IsFiniteSet(I) /\ I \subseteq Nat

(* No two positions of a set have the same place, and every place up to    *)
(* their number is one's.                                                  *)
LEMMA PlaceFacts ==
  ASSUME NEW I, Ranks(I)
  PROVE  /\ Cardinality(I) \in Nat
         /\ \A i \in I : Place(I, i) \in 1 .. Cardinality(I)
         /\ \A i, j \in I : Place(I, i) = Place(I, j) => i = j
         /\ \A k \in 1 .. Cardinality(I) : \E i \in I : Place(I, i) = k
<1> DEFINE n == Cardinality(I)
           upto(i) == {j \in I : j <= i}
           f == [i \in I |-> Place(I, i)]
<1>1. n \in Nat /\ IsFiniteSet(I) /\ I \subseteq Nat
  BY FS_CardinalityType DEF Ranks
<1>2. \A i \in I : upto(i) \subseteq I /\ IsFiniteSet(upto(i)) /\ i \in upto(i)
  BY <1>1, FS_Subset
<1>3. ASSUME NEW i \in I  PROVE Place(I, i) \in 1 .. n
  <2>1. Cardinality(upto(i)) \in Nat /\ Cardinality(upto(i)) <= n
    BY <1>1, <1>2, FS_Subset, FS_CardinalityType
  <2>2. Cardinality(upto(i)) # 0
    BY <1>2, FS_EmptySet
  <2> QED  BY <1>1, <2>1, <2>2 DEF Place
<1>4. ASSUME NEW i \in I, NEW j \in I, i < j  PROVE Place(I, i) # Place(I, j)
  <2>1. upto(i) \subseteq upto(j) /\ j \notin upto(i) /\ j \in upto(j)
    <3>1. \A k \in I : (k <= i => k <= j) /\ ~(j <= i)
      BY <1>1, <1>4
    <3> QED  BY <1>2, <3>1
  <2> HIDE DEF upto
  <2>2. upto(i) # upto(j)
    BY <2>1
  <2>3. IsFiniteSet(upto(j)) /\ upto(i) \in SUBSET upto(j)
    BY <1>2, <2>1
  <2>4. Cardinality(upto(i)) # Cardinality(upto(j))
    BY <2>2, <2>3, FS_Subset
  <2> QED  BY <2>4 DEF Place, upto
<1>5. \A i, j \in I : Place(I, i) = Place(I, j) => i = j
  <2>1. \A i, j \in I : i = j \/ i < j \/ j < i
    BY <1>1
  <2> QED  BY <1>4, <2>1
<1>6. f \in Injection(I, 1 .. n)
  BY <1>3, <1>5 DEF Injection, IsInjective
<1>7. IsFiniteSet(1 .. n) /\ Cardinality(1 .. n) = n
  BY <1>1, FS_Interval
<1>8. f \in Surjection(I, 1 .. n)
  BY <1>1, <1>6, <1>7, FS_Injection
<1>9. \A k \in 1 .. n : \E i \in I : f[i] = k
  BY <1>8 DEF Surjection
<1> QED  BY <1>1, <1>3, <1>5, <1>9

(* Nth finds the position that has a place.                                *)
LEMMA NthFacts ==
  ASSUME NEW I, Ranks(I)
  PROVE  /\ \A k \in 1 .. Cardinality(I) : Nth(I, k) \in I /\ Place(I, Nth(I, k)) = k
         /\ \A i \in I : Nth(I, Place(I, i)) = i
<1>1. \A k \in 1 .. Cardinality(I) : \E i \in I : Place(I, i) = k
  BY PlaceFacts
<1>2. \A k : Nth(I, k) = CHOOSE i \in I : Place(I, i) = k
  BY DEF Nth, Place
<1>3. \A k \in 1 .. Cardinality(I) : Nth(I, k) \in I /\ Place(I, Nth(I, k)) = k
  BY <1>1, <1>2
<1>4. \A i \in I : Place(I, i) \in 1 .. Cardinality(I)
  BY PlaceFacts
<1>5. \A i, j \in I : Place(I, i) = Place(I, j) => i = j
  BY PlaceFacts
<1> QED  BY <1>3, <1>4, <1>5

(* What a sequence has at some positions is a sequence; two that agree     *)
(* there have the same.                                                    *)
LEMMA OnlyFacts ==
  ASSUME NEW I, Ranks(I), NEW s
  PROVE  /\ \A S : (\A i \in I : s[i] \in S) => Only(s, I) \in Seq(S)
         /\ Len(Only(s, I)) = Cardinality(I)
         /\ \A t : (\A i \in I : t[i] = s[i]) => Only(t, I) = Only(s, I)
<1> DEFINE n == Cardinality(I)
<1>1. n \in Nat /\ \A k \in 1 .. n : Nth(I, k) \in I
  BY PlaceFacts, NthFacts
<1>2. Only(s, I) = [k \in 1 .. n |-> s[Nth(I, k)]] /\ \A t : Only(t, I) = [k \in 1 .. n |-> t[Nth(I, k)]]
  BY DEF Only
<1> HIDE DEF n
<1>3. \A S : (\A i \in I : s[i] \in S) => Only(s, I) \in Seq(S)
  BY <1>1, <1>2
<1>4. \A t : (\A i \in I : t[i] = s[i]) => Only(t, I) = Only(s, I)
  BY <1>1, <1>2
<1>5. Len(Only(s, I)) = n
  BY <1>1, <1>2
<1> QED  BY <1>3, <1>4, <1>5 DEF n

(* t is as s at some positions, and x is a later one.                      *)
Beyond(I, x, s, t) == x \in Nat /\ \A i \in I : i < x /\ t[i] = s[i]

(* A position after all the others comes last.                             *)
LEMMA OnlyGrows ==
  ASSUME NEW I, Ranks(I), NEW x, NEW s, NEW t, Beyond(I, x, s, t)
  PROVE  /\ Ranks(I \cup {x})
         /\ Only(t, I \cup {x}) = Append(Only(s, I), t[x])
<1> DEFINE J == I \cup {x}
           n == Cardinality(I)
<1>1. x \notin I /\ I \subseteq Nat /\ IsFiniteSet(I) /\ x \in Nat /\ \A i \in I : i < x
  BY DEF Ranks, Beyond
<1>2. Ranks(J) /\ Cardinality(J) = n + 1 /\ n \in Nat
  BY <1>1, FS_AddElement, FS_CardinalityType DEF Ranks
<1>3. {j \in J : j <= x} = J
  <2>1. \A j \in J : j <= x
    BY <1>1
  <2> QED  BY <2>1
<1>4. \A i \in I : {j \in J : j <= i} = {j \in I : j <= i}
  BY <1>1
<1> HIDE DEF J
<1>5. Place(J, x) = n + 1 /\ \A i \in I : Place(J, i) = Place(I, i)
  BY <1>2, <1>3, <1>4 DEF Place
<1>6. x \in J /\ I \subseteq J
  BY DEF J
<1>7. Nth(J, n + 1) = x
  BY <1>2, <1>5, <1>6, NthFacts
<1>8. \A k \in 1 .. n : Nth(J, k) = Nth(I, k) /\ Nth(I, k) \in I
  <2>1. \A k \in 1 .. n : Nth(I, k) \in I /\ Place(I, Nth(I, k)) = k
    BY NthFacts
  <2>2. \A i \in J : Nth(J, Place(J, i)) = i
    BY <1>2, NthFacts
  <2> QED  BY <1>5, <1>6, <2>1, <2>2
<1>9. /\ Only(s, I) = [k \in 1 .. n |-> s[Nth(I, k)]]
      /\ Only(t, J) = [k \in 1 .. n + 1 |-> t[Nth(J, k)]]
  BY <1>2 DEF Only
<1>10. \A k \in 1 .. n : t[Nth(J, k)] = s[Nth(I, k)]
  BY <1>8 DEF Beyond
<1> HIDE DEF n
<1>11. Append(Only(s, I), t[x]) = [k \in 1 .. n + 1 |-> IF k \in 1 .. n THEN s[Nth(I, k)] ELSE t[x]]
  BY <1>2, <1>9
<1>12. \A k \in 1 .. n + 1 : k \in 1 .. n \/ k = n + 1
  BY <1>2
<1>13. Only(t, J) = Append(Only(s, I), t[x])
  BY <1>2, <1>7, <1>9, <1>10, <1>11, <1>12
<1> QED  BY <1>2, <1>13 DEF J

-----------------------------------------------------------------------------
(* What is proved of a monitor through one lifetime, for the policies and  *)
(* the usable events of this engine.  Only the operators are of use here:  *)
(* its variables and its bound stand for nothing.                          *)
Anything(p, n, e) == TRUE
Life == INSTANCE MonitorLifeProofs
          WITH Event <- Timely, MayHappen <- Anything,
               policy <- None, monitor <- None, trace <- None, clock <- None,
               ended <- None, verdicts <- None, handled <- None

(* Its assumption holds.                                                   *)
LEMMA LifeApplies == Life!LifeAssumption
<1>1. \A e \in Timely : e.time \in Int
  BY TimelyTimes
<1>2. None \notin Timely
  BY NoneAssumption DEF Timely
<1>3. Life!Kinds = Kinds
  BY DEF Life!Kinds, Kinds
<1> QED  BY <1>1, <1>2, <1>3, EngineAssumption DEF Life!LifeAssumption

(* The operators on monitors are those of the engine.                      *)
LEMMA SameMonitors ==
  /\ Life!Fresh = Fresh
  /\ \A m : Life!Quiet(m) = Quiet(m)
  /\ \A m : Life!NextDeadline(m) = NextDeadline(m)
  /\ \A m, t : Life!OnTimeout(m, t) = OnTimeout(m, t)
  /\ \A p, m : Life!OnTerminal(p, m) = OnTerminal(p, m)
  /\ \A p, m : Life!DecidingEvents(p, m) = DecidingEvents(p, m)
<1>1. Life!Fresh = Fresh
  BY DEF Life!Fresh, Fresh
<1>2. \A m : Life!Quiet(m) = Quiet(m)
  BY DEF Life!Quiet, Quiet
<1>3. \A m : Life!NextDeadline(m) = NextDeadline(m)
  BY DEF Life!NextDeadline, NextDeadline
<1>4. \A m, t : Life!OnTimeout(m, t) = OnTimeout(m, t)
  BY DEF Life!OnTimeout, OnTimeout, Life!Quiet, Quiet
<1>5. \A p, m : Life!OnTerminal(p, m) = OnTerminal(p, m)
  <2>1. \A p, m : Life!Final(p, m) = Final(p, m)
    BY DEF Life!Final, Final
  <2> QED  BY <1>2, <2>1 DEF Life!OnTerminal, OnTerminal
<1>6. \A p, m : Life!DecidingEvents(p, m) = DecidingEvents(p, m)
  BY DEF Life!DecidingEvents, DecidingEvents, Life!Kept, Kept
<1> QED  BY <1>1, <1>2, <1>3, <1>4, <1>5, <1>6

(* So is on_event, guarded.                                                *)
LEMMA SameApply ==
  ASSUME NEW p, NEW m, NEW e
  PROVE  Life!Raises(p, m, e) = Raises(p, m, e) /\ Life!Apply(p, m, e) = Apply(p, m, e)
<1>1. Life!MoveScope(p, m, e) = MoveScope(p, m, e) /\ Life!NotePrior(p, m, e) = NotePrior(p, m, e)
  BY DEF Life!MoveScope, MoveScope, Life!NotePrior, NotePrior
<1>2. Life!Quiet(m) = Quiet(m)
  BY SameMonitors
<1>3. Life!Raises(p, m, e) = Raises(p, m, e)
  BY <1>1 DEF Life!Raises, Raises
<1>4. Life!OnEvent(p, m, e) = OnEvent(p, m, e)
  <2>1. \A x, y, v : Life!Settle(x, y, v) = Settle(x, y, v)
    BY DEF Life!Settle, Settle
  <2>2. \A b : Life!Verdict(b) = Verdict(b)
    BY DEF Life!Verdict, Verdict
  <2>3. \A x : Life!Quiet(x) = Quiet(x)
    BY SameMonitors
  <2>4. /\ Life!NeverOnEvent(p, m, e) = NeverOnEvent(p, m, e)
        /\ Life!OnceOnEvent(p, m, e) = OnceOnEvent(p, m, e)
        /\ Life!HistoricallyOnEvent(p, m, e) = HistoricallyOnEvent(p, m, e)
    BY <2>1, <2>3 DEF Life!NeverOnEvent, NeverOnEvent, Life!OnceOnEvent, OnceOnEvent,
       Life!HistoricallyOnEvent, HistoricallyOnEvent
  <2>5. Life!WithinOnEvent(p, m, e) = WithinOnEvent(p, m, e)
    BY <2>2, <2>3 DEF Life!WithinOnEvent, WithinOnEvent
  <2>6. /\ Life!BeforeOnEvent(p, m, e) = BeforeOnEvent(p, m, e)
        /\ Life!ScopedNeverOnEvent(p, m, e) = ScopedNeverOnEvent(p, m, e)
    BY <1>1, <2>1, <2>2, <2>3 DEF Life!BeforeOnEvent, BeforeOnEvent,
       Life!ScopedNeverOnEvent, ScopedNeverOnEvent
  <2>7. Life!PreviouslyOnEvent(p, m, e) = PreviouslyOnEvent(p, m, e)
    BY <2>1, <2>2, <2>3 DEF Life!PreviouslyOnEvent, PreviouslyOnEvent
  <2>8. Life!SinceOnEvent(p, m, e) = SinceOnEvent(p, m, e)
    BY <2>1, <2>3 DEF Life!SinceOnEvent, SinceOnEvent
  <2> QED  BY <1>2, <2>4, <2>5, <2>6, <2>7, <2>8 DEF Life!OnEvent, OnEvent
<1> QED  BY <1>2, <1>3, <1>4 DEF Life!Apply, Apply

(* The meaning of a trace is the same definition.                          *)
LEMMA SameMeaning ==
  ASSUME NEW p, NEW s, NEW now, NEW b
  PROVE  Life!Meaning!Means(p, s, now, b) = Meaning!Means(p, s, now, b)
<1> USE DEF Meaning!Where, Meaning!First, Meaning!Pending, Meaning!Decided, Meaning!AtEnd,
            Life!Meaning!Where, Life!Meaning!First, Life!Meaning!Pending,
            Life!Meaning!Decided, Life!Meaning!AtEnd
<1>1. Life!Meaning!MeansNever(p, s, now, b) = Meaning!MeansNever(p, s, now, b)
  BY DEF Life!Meaning!MeansNever, Meaning!MeansNever
<1>2. Life!Meaning!MeansOnce(p, s, now, b) = Meaning!MeansOnce(p, s, now, b)
  BY DEF Life!Meaning!MeansOnce, Meaning!MeansOnce
<1>3. Life!Meaning!MeansHistorically(p, s, now, b) = Meaning!MeansHistorically(p, s, now, b)
  BY DEF Life!Meaning!MeansHistorically, Meaning!MeansHistorically
<1>4. Life!Meaning!MeansWithin(p, s, now, b) = Meaning!MeansWithin(p, s, now, b)
  BY DEF Life!Meaning!MeansWithin, Meaning!MeansWithin
<1>5. Life!Meaning!MeansBefore(p, s, now, b) = Meaning!MeansBefore(p, s, now, b)
  BY DEF Life!Meaning!MeansBefore, Meaning!MeansBefore
<1>6. Life!Meaning!MeansPreviously(p, s, now, b) = Meaning!MeansPreviously(p, s, now, b)
  BY DEF Life!Meaning!MeansPreviously, Meaning!MeansPreviously
<1>7. Life!Meaning!MeansSince(p, s, now, b) = Meaning!MeansSince(p, s, now, b)
  BY DEF Life!Meaning!MeansSince, Meaning!MeansSince
<1>8. Life!Meaning!MeansScopedNever(p, s, now, b) = Meaning!MeansScopedNever(p, s, now, b)
  BY DEF Life!Meaning!MeansScopedNever, Meaning!MeansScopedNever,
         Life!Meaning!OpenFrom, Meaning!OpenFrom
<1> QED  BY <1>1, <1>2, <1>3, <1>4, <1>5, <1>6, <1>7, <1>8
         DEF Life!Meaning!Means, Meaning!Means

-----------------------------------------------------------------------------
(* A verdict as a list: nothing while it is pending.                       *)
AsList(v) == IF v.verdict = "pending" THEN <<>> ELSE <<v>>

(* The monitor m of the policy p, which has delivered vs in its lifetime,  *)
(* is abreast of the trace tr at now.                                      *)
Abreast(p, m, tr, now, vs) == Life!Sound(p, m) /\ Life!Tells(p, m, tr, now, vs)

(* It has said what the trace means, and nothing as long as it is not      *)
(* settled.                                                                *)
LEMMA AbreastSays ==
  ASSUME NEW p \in Policies, NEW m, NEW tr \in Seq(Timely), NEW now, NEW vs,
         Abreast(p, m, tr, now, vs)
  PROVE  /\ vs = AsList(Meaning!Means(p, tr, now, FALSE))
         /\ m.settled => vs # <<>>
         /\ ~m.settled => vs = <<>>
<1>1. vs = AsList(Meaning!Means(p, tr, now, FALSE))
  BY SameMeaning DEF Abreast, Life!Tells, Life!Told, AsList
<1>2. m.settled => vs # <<>>
  BY DEF Abreast, Life!Tells
<1>3. ~m.settled => vs = <<>>
  BY LifeApplies, Life!ToldFacts DEF Abreast
<1> QED  BY <1>1, <1>2, <1>3

(* What is reported is what the monitor's lifetime counts as reported.     *)
LEMMA SameReport ==
  ASSUME NEW id, NEW r, NEW at
  PROVE  Life!Reported(PolicyOf(id), r, at) = Report(id, r, at)
BY SameMonitors DEF Life!Reported, Report

(* A new instance, the passing of time, an event and the end of the entity *)
(* in the engine's terms.                                                  *)
LEMMA BeginsAbreast ==
  ASSUME NEW p \in Policies, NEW now
  PROVE  Abreast(p, Fresh, <<>>, now, <<>>)
<1>1. Life!Sound(p, Life!Fresh) /\ Life!Tells(p, Life!Fresh, <<>>, now, <<>>)
  BY LifeApplies, Life!LifetimeBegins
<1> QED  BY <1>1, SameMonitors DEF Abreast

(* When time passes, it stays abreast if its deadline fires as soon as it  *)
(* is reached.                                                             *)
LEMMA FiringAbreast ==
  ASSUME NEW id \in Id, NEW m, NEW tr \in Seq(Timely), NEW now \in Int, NEW vs,
         Abreast(PolicyOf(id), m, tr, now, vs), NEW later \in Int, now <= later
  PROVE  LET d == NextDeadline(m)
             r == IF d # None /\ d <= later THEN OnTimeout(m, d) ELSE Quiet(m)
         IN Abreast(PolicyOf(id), r.monitor, tr, later, vs \o Report(id, r, m.deadline))
<1> DEFINE p == PolicyOf(id)
           f == Life!Fired(m, later)
           d == NextDeadline(m)
           r == IF d # None /\ d <= later THEN OnTimeout(m, d) ELSE Quiet(m)
<1>1. p \in Policies
  BY DEF Id, PolicyOf
<1>2. f = r
  BY SameMonitors DEF Life!Fired
<1>3. Life!Reported(p, f, m.deadline) = Report(id, f, m.deadline)
  BY SameReport
<1> HIDE DEF f, r, p
<1>4. Life!Sound(p, m) /\ Life!Tells(p, m, tr, now, vs)
  BY DEF Abreast, p
<1>5. Life!Sound(p, f.monitor) /\ Life!Tells(p, f.monitor, tr, later, vs \o Life!Reported(p, f, m.deadline))
  BY <1>1, <1>4, LifeApplies, Life!MomentPasses DEF f
<1> QED  BY <1>2, <1>3, <1>5 DEF Abreast, p, r

(* An event that leaves no mark leaves the monitor as it is; one that      *)
(* leaves a mark does not raise.                                           *)
LEMMA MarksFacts ==
  ASSUME NEW p \in Policies, Life!WellPosed(p), NEW m \in Life!MonitorType, NEW e
  PROVE  /\ Marks(p, e) => ~Raises(p, m, e)
         /\ ~Marks(p, e) => Raises(p, m, e) \/ Apply(p, m, e) = Quiet(m)
<1> USE DEF Life!MonitorType
<1>1. CASE p.kind # "scoped_never"
  <2>1. Marks(p, e) => ~Raises(p, m, e)
    BY <1>1 DEF Marks, Raises
  <2>2. ~Marks(p, e) /\ ~Raises(p, m, e) => m.settled
    BY <1>1 DEF Marks, Raises
  <2>3. ~Raises(p, m, e) /\ m.settled => Apply(p, m, e) = Quiet(m)
    BY DEF Apply, OnEvent
  <2> QED  BY <2>1, <2>2, <2>3
<1>2. CASE p.kind = "scoped_never"
  <2>1. p.open \cap p.close = {}
    BY <1>2 DEF Life!WellPosed
  <2>2. MoveScope(p, m, e).flag => e.status \notin p.close
    BY <2>1 DEF MoveScope
  <2>3. Marks(p, e) => ~Raises(p, m, e)
    BY <1>2, <2>2 DEF Marks, Raises
  <2>4. ASSUME ~Marks(p, e), ~Raises(p, m, e), ~m.settled
        PROVE  Apply(p, m, e) = Quiet(m)
    <3>1. ~MoveScope(p, m, e).flag /\ e.status \notin p.close
      BY <1>2, <2>4 DEF Marks, Raises
    <3>2. MoveScope(p, m, e) = m /\ ~m.flag
      BY <3>1 DEF MoveScope
    <3> QED  BY <1>2, <2>4, <3>2 DEF Apply, OnEvent, ScopedNeverOnEvent
  <2>5. ~Raises(p, m, e) /\ m.settled => Apply(p, m, e) = Quiet(m)
    BY DEF Apply, OnEvent
  <2> QED  BY <2>3, <2>4, <2>5
<1> QED  BY <1>1, <1>2

(* When an event of its id is applied, guarded.                            *)
LEMMA ApplyAbreast ==
  ASSUME NEW id \in Id, Life!WellPosed(PolicyOf(id)), NEW m, NEW tr \in Seq(Timely),
         NEW e \in Timely, NEW vs, Abreast(PolicyOf(id), m, tr, e.time, vs)
  PROVE  LET r == Apply(PolicyOf(id), m, e)
             t == IF Marks(PolicyOf(id), e) THEN Append(tr, e) ELSE tr
         IN /\ t \in Seq(Timely)
            /\ Abreast(PolicyOf(id), r.monitor, t, e.time, vs \o Report(id, r, e.time))
<1> DEFINE p == PolicyOf(id)
           r == Apply(p, m, e)
           t == IF Marks(p, e) THEN Append(tr, e) ELSE tr
           u == IF Raises(p, m, e) THEN tr ELSE Append(tr, e)
<1>1. p \in Policies
  BY DEF Id, PolicyOf
<1>2. t \in Seq(Timely)
  OBVIOUS
<1>3. Report(id, r, e.time) = Life!Reported(p, r, e.time)
  BY SameReport
<1> HIDE DEF p
<1>4. Life!Sound(p, m) /\ Life!Tells(p, m, tr, e.time, vs) /\ Life!WellPosed(p)
  BY DEF Abreast, p
<1>5. m \in Life!MonitorType
  BY <1>4 DEF Life!Sound
<1>6. /\ Life!Sound(p, r.monitor)
      /\ Life!Tells(p, r.monitor, u, e.time, vs \o Life!Reported(p, r, e.time))
  <2>1. r = Life!Apply(p, m, e) /\ (Raises(p, m, e) <=> Life!Raises(p, m, e))
    BY SameApply
  <2>2. LET q == Life!Apply(p, m, e)
            w == IF Life!Raises(p, m, e) THEN tr ELSE Append(tr, e)
        IN Life!Sound(p, q.monitor) /\ Life!Tells(p, q.monitor, w, e.time, vs \o Life!Reported(p, q, e.time))
    BY <1>1, <1>4, LifeApplies, Life!EventIsApplied
  <2> QED  BY <2>1, <2>2
<1>7. CASE t = u
  BY <1>2, <1>3, <1>6, <1>7 DEF Abreast, p
<1>8. CASE t # u
  <2>1. ~Marks(p, e) /\ ~Raises(p, m, e) /\ r = Quiet(m)
    BY <1>1, <1>4, <1>5, <1>8, MarksFacts
  <2>2. t = tr /\ r.monitor = m /\ Report(id, r, e.time) = <<>>
    BY <2>1 DEF Quiet, Report
  <2>3. vs \o <<>> = vs
    <3>1. vs = <<>> \/ \E v : vs = <<v>>
      BY <1>4 DEF Life!Tells, Life!Told
    <3> QED  BY <3>1
  <2> HIDE DEF r, t
  <2> QED  BY <1>2, <1>4, <2>2, <2>3 DEF Abreast, p, r, t
<1> QED  BY <1>7, <1>8

(* When its entity ends, the verdicts are those of a trace that is over.   *)
LEMMA EndAbreast ==
  ASSUME NEW id \in Id, NEW m, NEW tr \in Seq(Timely), NEW now \in Int, NEW vs,
         Abreast(PolicyOf(id), m, tr, now, vs)
  PROVE  vs \o Report(id, OnTerminal(PolicyOf(id), m), now)
           = AsList(Meaning!Means(PolicyOf(id), tr, now, TRUE))
<1> DEFINE p == PolicyOf(id)
           r == OnTerminal(p, m)
<1>1. p \in Policies
  BY DEF Id, PolicyOf
<1>2. Report(id, r, now) = Life!Reported(p, r, now)
  BY SameReport
<1>3. r = Life!OnTerminal(p, m)
  BY SameMonitors
<1> HIDE DEF p, r
<1>4. Life!Sound(p, m) /\ Life!Tells(p, m, tr, now, vs)
  BY DEF Abreast, p
<1>5. vs \o Life!Reported(p, Life!OnTerminal(p, m), now) = Life!Told(p, tr, now, TRUE)
  BY <1>1, <1>4, LifeApplies, Life!LifetimeEnds
<1>6. Life!Told(p, tr, now, TRUE) = AsList(Meaning!Means(p, tr, now, TRUE))
  BY SameMeaning DEF Life!Told, AsList
<1> QED  BY <1>2, <1>3, <1>5, <1>6 DEF p, r

-----------------------------------------------------------------------------
(* The lifetimes an id's history is cut into.  A history is well cut if    *)
(* nothing was reclaimed after the last event, nor right after an entity's *)
(* end.                                                                    *)
WellCut(s, id, cut) ==
  /\ s \in Seq(Timely)
  /\ cut \subseteq 1 .. Len(s)
  /\ \A b \in Ends(s, id) : b + 1 \notin cut

IsLatest(I, a) == a \in I /\ \A i \in I : i <= a

(* The verdict of the lifetime a .. b, left behind at now.                 *)
Said(s, id, a, b, now, ended) ==
  IF Seen(s, id, a, b) = {} THEN Meaning!Pending
  ELSE Meaning!Means(PolicyOf(id), Only(s, Applied(s, id, a, b)), now, ended)

(* The verdict of the lifetime a .. b of a history.                        *)
LifeOf(s, id, cut, a, b) == Said(s, id, a, b, ClockAt(s, cut, b), b \in Ends(s, id))

(* The verdicts of the lifetimes that started before c.                    *)
DecidedBelow(s, id, cut, c) ==
  {a \in Starts(s, id, cut) : a < c /\ Lives(s, id, cut)[a].verdict # "pending"}
Old(s, id, cut, c) == Only(Lives(s, id, cut), DecidedBelow(s, id, cut, c))

(* The least of a set of positions.                                        *)
LEMMA EarliestIs ==
  /\ \A I : I \subseteq Nat /\ I # {} => Earliest(I) \in I /\ \A j \in I : Earliest(I) <= j
  /\ \A I : I \subseteq Nat => \A i \in I : (\A j \in I : i <= j) => Earliest(I) = i
<1>1. \A I : I \subseteq Nat /\ I # {} => Earliest(I) \in I /\ \A j \in I : Earliest(I) <= j
  <2> SUFFICES ASSUME NEW I, I \subseteq Nat, I # {}
               PROVE  Earliest(I) \in I /\ \A j \in I : Earliest(I) <= j
    OBVIOUS
  <2>1. Earliest(I) = Life!Meaning!First(I)
    BY DEF Earliest, Life!Meaning!First
  <2> QED  BY <2>1, LifeApplies, Life!FirstExists
<1>2. ASSUME NEW I, I \subseteq Nat, NEW i \in I, \A j \in I : i <= j
      PROVE  Earliest(I) = i
  <2>1. Earliest(I) \in I /\ Earliest(I) <= i /\ i <= Earliest(I)
    BY <1>1, <1>2
  <2>2. \A x, y \in Nat : x <= y /\ y <= x => x = y
    OBVIOUS
  <2> QED  BY <1>2, <2>1, <2>2
<1> QED  BY <1>1, <1>2

(* Where the lifetimes of a history start.                                 *)
LEMMA StartsFacts ==
  ASSUME NEW s, NEW id, NEW cut, WellCut(s, id, cut)
  PROVE  LET n == Len(s)
             S == Starts(s, id, cut)
         IN /\ n \in Nat /\ DOMAIN s = 1 .. n
            /\ Ends(s, id) \subseteq 1 .. n
            /\ S \subseteq 1 .. n + 1 /\ 1 \in S
            /\ S \subseteq Nat /\ IsFiniteSet(S)
            /\ DOMAIN Lives(s, id, cut) = S
            /\ \A a \in S : Lives(s, id, cut)[a] = LifeOf(s, id, cut, a, LastOf(s, id, cut, a))
<1> DEFINE n == Len(s)
           S == Starts(s, id, cut)
<1>1. n \in Nat /\ DOMAIN s = 1 .. n
  BY DEF WellCut
<1>2. Ends(s, id) \subseteq 1 .. n
  BY <1>1 DEF Ends
<1>3. S \subseteq 1 .. n + 1 /\ 1 \in S
  <2>1. cut \subseteq 1 .. n + 1
    BY <1>1 DEF WellCut
  <2>2. \A i \in Ends(s, id) : i + 1 \in 1 .. n + 1
    BY <1>1, <1>2
  <2>3. 1 \in 1 .. n + 1
    BY <1>1
  <2> HIDE DEF n
  <2>4. \A x \in S : x = 1 \/ x \in cut \/ \E i \in Ends(s, id) : x = i + 1
    BY DEF Starts
  <2>5. 1 \in S
    BY DEF Starts
  <2> HIDE DEF S
  <2> QED  BY <2>1, <2>2, <2>3, <2>4, <2>5
<1>4. S \subseteq Nat /\ IsFiniteSet(S)
  <2>1. IsFiniteSet(1 .. n + 1)
    BY <1>1, FS_Interval
  <2>2. 1 .. n + 1 \subseteq Nat
    BY <1>1
  <2> HIDE DEF S, n
  <2>3. S \in SUBSET (1 .. n + 1)
    BY <1>3
  <2> QED  BY <2>1, <2>2, <2>3, FS_Subset
<1>5. DOMAIN Lives(s, id, cut) = S
  BY DEF Lives
<1>6. \A a \in S : Lives(s, id, cut)[a] = LifeOf(s, id, cut, a, LastOf(s, id, cut, a))
  BY DEF Lives, LifeOf, Said
<1> HIDE DEF n, S
<1> QED  BY <1>1, <1>2, <1>3, <1>4, <1>5, <1>6 DEF n, S

(* A lifetime ends where the next one starts, the last one at the end.     *)
LEMMA LastOfIs ==
  ASSUME NEW s, NEW id, NEW cut, WellCut(s, id, cut), NEW a \in Starts(s, id, cut)
  PROVE  /\ \A c \in Starts(s, id, cut) :
              a < c /\ (\A i \in Starts(s, id, cut) : i <= a \/ c <= i)
              => LastOf(s, id, cut, a) = c - 1
         /\ IsLatest(Starts(s, id, cut), a) => LastOf(s, id, cut, a) = Len(s)
<1> DEFINE S == Starts(s, id, cut)
           later == {i \in S : i > a}
<1>1. S \subseteq Nat
  BY StartsFacts
<1>2. LastOf(s, id, cut, a) = IF later = {} THEN Len(s) ELSE Earliest(later) - 1
  BY DEF LastOf
<1> HIDE DEF S
<1>3. a \in S
  BY DEF S
<1>4. ASSUME NEW c \in S, a < c, \A i \in S : i <= a \/ c <= i
      PROVE  LastOf(s, id, cut, a) = c - 1
  <2>1. a \in Nat /\ c \in Nat /\ \A i \in S : i \in Nat /\ (i > a => c <= i) /\ c > a
    BY <1>1, <1>3, <1>4
  <2>2. c \in later /\ later \subseteq Nat /\ \A i \in later : c <= i
    BY <1>4, <2>1
  <2>3. Earliest(later) = c
    BY <2>2, EarliestIs
  <2> QED  BY <1>2, <2>2, <2>3
<1>5. IsLatest(S, a) => later = {}
  <2>1. ASSUME IsLatest(S, a), NEW i \in S  PROVE ~(i > a)
    BY <1>1, <1>3, <2>1 DEF IsLatest
  <2> QED  BY <2>1
<1> QED  BY <1>2, <1>4, <1>5 DEF S

(* The verdicts up to the next lifetime: those before it and its own.      *)
LEMMA OldNext ==
  ASSUME NEW s, NEW id, NEW cut, WellCut(s, id, cut), NEW a \in Starts(s, id, cut), NEW c \in Int,
         a < c, \A i \in Starts(s, id, cut) : i <= a \/ c <= i
  PROVE  Old(s, id, cut, c) = Old(s, id, cut, a) \o AsList(Lives(s, id, cut)[a])
<1> DEFINE S == Starts(s, id, cut)
           L == Lives(s, id, cut)
           I == DecidedBelow(s, id, cut, a)
           J == DecidedBelow(s, id, cut, c)
<1>1. S \subseteq Nat /\ IsFiniteSet(S) /\ a \in S
  BY StartsFacts
<1>2. I = {x \in S : x < a /\ L[x].verdict # "pending"} /\ J = {x \in S : x < c /\ L[x].verdict # "pending"}
  BY DEF DecidedBelow
<1>3. Old(s, id, cut, a) = Only(L, I) /\ Old(s, id, cut, c) = Only(L, J)
  BY DEF Old
<1> HIDE DEF S, L, I, J
<1>4. \A x \in S : x < c <=> x < a \/ x = a
  <2>1. \A x \in S : x <= a \/ c <= x
    BY DEF S
  <2> QED  BY <1>1, <2>1
<1>5. Ranks(I)
  <2>1. I \subseteq S
    BY <1>2
  <2> QED  BY <1>1, <2>1, FS_Subset DEF Ranks
<1>6. \A i \in I : i < a
  BY <1>2
<1>7. Only(L, I) \in Seq({L[i] : i \in I})
  BY <1>5, OnlyFacts
<1>8. CASE L[a].verdict = "pending"
  <2>1. J = I
    BY <1>1, <1>2, <1>4, <1>8
  <2>2. Only(L, I) \o <<>> = Only(L, I)
    BY <1>7
  <2> QED  BY <1>3, <1>8, <2>1, <2>2 DEF AsList, L
<1>9. CASE L[a].verdict # "pending"
  <2>1. J = I \cup {a}
    BY <1>1, <1>2, <1>4, <1>9
  <2>2. Only(L, J) = Append(Only(L, I), L[a])
    <3>1. Beyond(I, a, L, L)
      BY <1>1, <1>6 DEF Beyond
    <3> QED  BY <1>5, <2>1, <3>1, OnlyGrows
  <2>3. Append(Only(L, I), L[a]) = Only(L, I) \o <<L[a]>>
    BY <1>7
  <2> QED  BY <1>3, <1>9, <2>2, <2>3 DEF AsList, L
<1> QED  BY <1>8, <1>9

(* The trace of the lifetime a .. b.                                       *)
Trail(s, id, a, b) == Only(s, Applied(s, id, a, b))

(* What a lifetime holds of a history.                                     *)
LEMMA TrailFacts ==
  ASSUME NEW s \in Seq(Timely), NEW id, NEW a \in Nat, 1 <= a, NEW b \in Int, b <= Len(s)
  PROVE  /\ Seen(s, id, a, b) \subseteq a .. b
         /\ Applied(s, id, a, b) \subseteq a .. b
         /\ Ranks(Applied(s, id, a, b))
         /\ Trail(s, id, a, b) \in Seq(Timely)
<1>1. Seen(s, id, a, b) \subseteq a .. b /\ Applied(s, id, a, b) \subseteq a .. b
  BY DEF Seen, Applied
<1> DEFINE I == Applied(s, id, a, b)
<1>2. IsFiniteSet(a .. b)
  BY FS_Interval
<1> HIDE DEF I
<1>3. IsFiniteSet(I)
  <2>1. I \in SUBSET (a .. b)
    BY <1>1 DEF I
  <2> QED  BY <1>2, <2>1, FS_Subset
<1>4. \A i \in a .. b : i \in Nat /\ i \in DOMAIN s
  OBVIOUS
<1>5. Ranks(I)
  BY <1>1, <1>3, <1>4 DEF Ranks, I
<1>6. \A i \in I : s[i] \in Timely
  BY <1>1, <1>4 DEF I
<1>7. Only(s, I) \in Seq(Timely)
  BY <1>5, <1>6, OnlyFacts
<1> QED  BY <1>1, <1>5, <1>7 DEF Trail, I

(* An event more at the end changes no lifetime that ended before.         *)
LEMMA TrailStays ==
  ASSUME NEW s \in Seq(Timely), NEW e \in Timely, NEW id, NEW a \in Nat, 1 <= a,
         NEW b \in Int, b <= Len(s)
  PROVE  LET t == Append(s, e)
         IN /\ Seen(t, id, a, b) = Seen(s, id, a, b)
            /\ Trail(t, id, a, b) = Trail(s, id, a, b)
            /\ \A now, ended : Said(t, id, a, b, now, ended) = Said(s, id, a, b, now, ended)
<1> DEFINE t == Append(s, e)
<1>1. \A i \in a .. b : t[i] = s[i]
  OBVIOUS
<1> HIDE DEF t
<1>2. Seen(t, id, a, b) = Seen(s, id, a, b)
  BY <1>1 DEF Seen
<1>3. Applied(t, id, a, b) = Applied(s, id, a, b)
  <2>1. \A i \in Seen(s, id, a, b) : t[i] = s[i]
    BY <1>1, TrailFacts
  <2> QED  BY <1>2, <2>1 DEF Applied
<1>4. Trail(t, id, a, b) = Trail(s, id, a, b)
  <2> DEFINE I == Applied(s, id, a, b)
  <2>1. Ranks(I) /\ I \subseteq a .. b
    BY TrailFacts
  <2> HIDE DEF I
  <2>2. Only(t, I) = Only(s, I)
    BY <1>1, <2>1, OnlyFacts
  <2> QED  BY <1>3, <2>2 DEF Trail, I
<1>5. \A now, ended : Said(t, id, a, b, now, ended) = Said(s, id, a, b, now, ended)
  BY <1>2, <1>4 DEF Said, Trail
<1> QED  BY <1>2, <1>4, <1>5 DEF t

(* It joins the lifetime it falls in.                                      *)
LEMMA TrailGrows ==
  ASSUME NEW s \in Seq(Timely), NEW e \in Timely, NEW id, NEW a \in Nat, 1 <= a, a <= Len(s) + 1
  PROVE  LET t == Append(s, e)
             n == Len(s)
         IN /\ Concerns(e, id) =>
                 /\ Seen(t, id, a, n + 1) = Seen(s, id, a, n) \cup {n + 1}
                 /\ IsLatest(Seen(t, id, a, n + 1), n + 1)
                 /\ Trail(t, id, a, n + 1) = IF Marks(PolicyOf(id), e)
                                             THEN Append(Trail(s, id, a, n), e)
                                             ELSE Trail(s, id, a, n)
            /\ ~Concerns(e, id) =>
                 /\ Seen(t, id, a, n + 1) = Seen(s, id, a, n)
                 /\ Trail(t, id, a, n + 1) = Trail(s, id, a, n)
<1> DEFINE t == Append(s, e)
           n == Len(s)
           old == Seen(s, id, a, n)
           new == Seen(t, id, a, n + 1)
           I == Applied(s, id, a, n)
           J == Applied(t, id, a, n + 1)
<1>1. /\ n \in Nat /\ n \in Int /\ n <= Len(s) /\ n + 1 \in Nat
      /\ t[n + 1] = e /\ \A i \in a .. n : t[i] = s[i]
  OBVIOUS
<1>2. \A i : i \in a .. n + 1 <=> i \in a .. n \/ i = n + 1
  OBVIOUS
<1>3. /\ Ranks(I) /\ I \subseteq a .. n /\ old \subseteq a .. n
  BY <1>1, TrailFacts
<1>4. \A i \in a .. n : i < n + 1 /\ i # n + 1 /\ i \in Nat
  OBVIOUS
<1> HIDE DEF t, n
<1>5. new = IF Concerns(e, id) THEN old \cup {n + 1} ELSE old
  BY <1>1, <1>2 DEF Seen
<1>6. I = {i \in old : Marks(PolicyOf(id), s[i])} /\ J = {i \in new : Marks(PolicyOf(id), t[i])}
  BY DEF Applied
<1>7. \A i \in old : t[i] = s[i]
  BY <1>1, <1>3
<1>8. J = IF Concerns(e, id) /\ Marks(PolicyOf(id), e) THEN I \cup {n + 1} ELSE I
  <2> HIDE DEF old, new, I, J
  <2>1. \A i \in old : i \in J <=> i \in I
    BY <1>5, <1>6, <1>7
  <2>2. \A i \in J : i \in old \/ (i = n + 1 /\ Concerns(e, id))
    BY <1>5, <1>6
  <2>3. n + 1 \notin old
    BY <1>3, <1>4
  <2>4. n + 1 \in J <=> Concerns(e, id) /\ Marks(PolicyOf(id), e)
    BY <1>1, <1>5, <1>6, <2>3
  <2>5. I \subseteq old
    BY <1>6
  <2> QED  BY <2>1, <2>2, <2>4, <2>5
<1> HIDE DEF old, new, I, J
<1>9. Only(t, I) = Only(s, I)
  BY <1>1, <1>3, OnlyFacts
<1>10. Only(t, I \cup {n + 1}) = Append(Only(s, I), e)
  <2>1. Beyond(I, n + 1, s, t)
    BY <1>1, <1>3, <1>4 DEF Beyond
  <2>2. Ranks(I)
    BY <1>3
  <2>3. Only(t, I \cup {n + 1}) = Append(Only(s, I), t[n + 1])
    BY <2>2, <2>1, OnlyGrows
  <2> QED  BY <1>1, <2>3
<1>11. Concerns(e, id) => IsLatest(new, n + 1)
  <2> SUFFICES ASSUME Concerns(e, id)  PROVE IsLatest(new, n + 1)
    OBVIOUS
  <2>1. n + 1 \in new /\ \A i \in new : i = n + 1 \/ (i \in Nat /\ i < n + 1)
    BY <1>3, <1>4, <1>5
  <2> QED  BY <1>1, <2>1 DEF IsLatest
<1> QED  BY <1>5, <1>8, <1>9, <1>10, <1>11 DEF Trail, new, old, I, J, n, t

(* One event later: the history t goes on from s with the event e, cut     *)
(* once more perhaps, and a is where the newest lifetime of s started.     *)
OneLater(s, t, e, id, cut, new, a) ==
  /\ WellCut(s, id, cut) /\ WellCut(t, id, new)
  /\ e \in Timely /\ t = Append(s, e)
  /\ IsLatest(Starts(s, id, cut), a)
  /\ Starts(s, id, cut) \subseteq Starts(t, id, new)
  /\ \A i \in Starts(t, id, new) : i \in Starts(s, id, cut) \/ a < i
  /\ \A b \in 1 .. Len(s) : b \in Ends(t, id) <=> b \in Ends(s, id)
  /\ \A c \in 1 .. a : c \in new <=> c \in cut

(* The lifetimes that were over then keep their verdicts.                  *)
LEMMA OldStays ==
  ASSUME NEW s, NEW t, NEW e, NEW id, NEW cut, NEW new, NEW a,
         OneLater(s, t, e, id, cut, new, a)
  PROVE  Old(t, id, new, a) = Old(s, id, cut, a)
<1> DEFINE n == Len(s)
           S == Starts(s, id, cut)
           T == Starts(t, id, new)
<1>1. WellCut(s, id, cut) /\ WellCut(t, id, new) /\ e \in Timely /\ t = Append(s, e)
      /\ IsLatest(S, a) /\ S \subseteq T
  BY DEF OneLater
<1>2. /\ n \in Nat /\ DOMAIN s = 1 .. n /\ S \subseteq 1 .. n + 1 /\ S \subseteq Nat /\ T \subseteq Nat
      /\ s \in Seq(Timely)
  BY <1>1, StartsFacts DEF WellCut
<1>3. a \in S /\ a \in Nat /\ a <= n + 1 /\ \A i \in S : i <= a /\ 1 <= i
  BY <1>1, <1>2 DEF IsLatest
<1>4. \A i \in T : i \in S \/ a < i
  BY DEF OneLater
<1>5. \A b \in 1 .. n : b \in Ends(t, id) <=> b \in Ends(s, id)
  BY DEF OneLater
<1>6. \A c \in 1 .. a : c \in new <=> c \in cut
  BY DEF OneLater
<1> HIDE DEF n, S, T
<1>7. ASSUME NEW x \in S, x < a
      PROVE  Lives(t, id, new)[x] = Lives(s, id, cut)[x]
  <2> DEFINE later == {i \in S : x < i}
             c == Earliest(later)
             b == c - 1
  <2>1. later \subseteq Nat /\ a \in later
    BY <1>2, <1>3, <1>7
  <2>2. c \in later /\ \A i \in later : c <= i
    BY <2>1, EarliestIs
  <2>3. c \in S /\ x < c /\ c <= a /\ x \in T /\ c \in T
    BY <1>1, <2>1, <2>2
  <2>4. \A i \in S : ~(x < i) \/ c <= i
    BY <2>2
  <2> HIDE DEF c
  <2>5. \A i \in S : i <= x \/ c <= i
    BY <1>2, <1>7, <2>4
  <2>6. \A i \in T : i <= x \/ c <= i
    BY <1>2, <1>3, <1>4, <2>3, <2>5
  <2>7. LastOf(s, id, cut, x) = b /\ LastOf(t, id, new, x) = b
    <3>1. WellCut(s, id, cut) /\ x \in Starts(s, id, cut) /\ c \in Starts(s, id, cut)
          /\ \A i \in Starts(s, id, cut) : i <= x \/ c <= i
      BY <1>1, <1>7, <2>3, <2>5 DEF S
    <3>2. WellCut(t, id, new) /\ x \in Starts(t, id, new) /\ c \in Starts(t, id, new)
          /\ \A i \in Starts(t, id, new) : i <= x \/ c <= i
      BY <1>1, <2>3, <2>6 DEF T
    <3>3. LastOf(s, id, cut, x) = c - 1
      BY <2>3, <3>1, LastOfIs
    <3>4. LastOf(t, id, new, x) = c - 1
      BY <2>3, <3>2, LastOfIs
    <3> QED  BY <3>3, <3>4
  <2>8. x \in Nat /\ c \in Nat /\ 1 <= x /\ b \in Int /\ b \in 1 .. n /\ b <= n /\ b + 1 = c /\ c \in 1 .. a
    BY <1>2, <1>3, <2>3
  <2>9. ClockAt(t, new, b) = ClockAt(s, cut, b)
    <3>1. c \in new <=> c \in cut
      BY <1>6, <2>8
    <3>2. c \in cut => c \in 1 .. n
      BY <1>1, <1>2 DEF WellCut, n
    <3>3. \A i \in 1 .. n : t[i] = s[i]
      BY <1>1, <1>2 DEF n
    <3> HIDE DEF b
    <3> QED  BY <2>8, <3>1, <3>2, <3>3 DEF ClockAt
  <2>10. (b \in Ends(t, id)) = (b \in Ends(s, id))
    BY <1>5, <2>8
  <2>11. LifeOf(t, id, new, x, b) = LifeOf(s, id, cut, x, b)
    <3>1. \A now, ended : Said(t, id, x, b, now, ended) = Said(s, id, x, b, now, ended)
      <4>1. b \in Int /\ b <= Len(s)
        BY <2>8 DEF n
      <4> HIDE DEF b
      <4> QED  BY <1>1, <1>2, <2>8, <4>1, TrailStays
    <3> HIDE DEF b
    <3> QED  BY <2>9, <2>10, <3>1 DEF LifeOf
  <2>12. Lives(t, id, new)[x] = LifeOf(t, id, new, x, LastOf(t, id, new, x))
    BY <1>1, <2>3, StartsFacts DEF T
  <2>13. Lives(s, id, cut)[x] = LifeOf(s, id, cut, x, LastOf(s, id, cut, x))
    BY <1>1, <1>7, StartsFacts DEF S
  <2> QED  BY <2>7, <2>11, <2>12, <2>13
<1> DEFINE I == DecidedBelow(s, id, cut, a)
           L == Lives(s, id, cut)
           M == Lives(t, id, new)
<1>8. DecidedBelow(t, id, new, a) = I
  <2>1. I = {x \in S : x < a /\ L[x].verdict # "pending"}
    BY DEF DecidedBelow, S
  <2>2. DecidedBelow(t, id, new, a) = {x \in T : x < a /\ M[x].verdict # "pending"}
    BY DEF DecidedBelow, T
  <2>3. \A x \in T : x < a => x \in S
    BY <1>2, <1>3, <1>4
  <2> HIDE DEF I, L, M
  <2>4. \A x \in S : x < a => M[x] = L[x]
    BY <1>7 DEF L, M
  <2> QED  BY <1>1, <2>1, <2>2, <2>3, <2>4
<1>9. \A x \in I : M[x] = L[x]
  BY <1>7 DEF DecidedBelow, S
<1>10. Ranks(I)
  <2>1. I \subseteq S
    BY DEF DecidedBelow, S
  <2>2. IsFiniteSet(S)
    BY <1>1, StartsFacts DEF S
  <2> HIDE DEF I
  <2> QED  BY <1>2, <2>1, <2>2, FS_Subset DEF Ranks
<1> HIDE DEF I, L, M
<1>11. Only(M, I) = Only(L, I)
  BY <1>9, <1>10, OnlyFacts
<1> QED  BY <1>8, <1>11 DEF Old, I, L, M

(* The verdicts of the lifetimes before one are a list.                    *)
LEMMA OldIsSequence ==
  ASSUME NEW s, NEW id, NEW cut, WellCut(s, id, cut), NEW a
  PROVE  IsSequence(Old(s, id, cut, a))
<1> DEFINE L == Lives(s, id, cut)
           I == DecidedBelow(s, id, cut, a)
           S == Starts(s, id, cut)
           q == Only(L, I)
<1>1. I \subseteq S
  BY DEF DecidedBelow
<1>2. S \subseteq Nat /\ IsFiniteSet(S)
  BY StartsFacts
<1> HIDE DEF I, L, S
<1>3. Ranks(I)
  BY <1>1, <1>2, FS_Subset DEF Ranks
<1>4. Only(L, I) \in Seq({L[i] : i \in I})
  BY <1>3, OnlyFacts
<1> HIDE DEF q
<1>5. q \in Seq({q[i] : i \in DOMAIN q})
  BY <1>4 DEF q
<1> QED  BY <1>5 DEF Old, q, I, L, IsSequence

(* What one event does to an id's lifetimes: a reclaim ends the newest one *)
(* before the event, a terminal event of the id's key ends it after.       *)
Over(e, id) == e.type \in TerminalTypes /\ Carries(e, id)
Cut(s, cut, reclaimed) == IF reclaimed THEN cut \cup {Len(s) + 1} ELSE cut
Begun(s, a, reclaimed) == IF reclaimed THEN Len(s) + 1 ELSE a
Final1(s, e, id, a, reclaimed) ==
  IF reclaimed THEN AsList(Said(s, id, a, Len(s), e.time, FALSE)) ELSE <<>>
Final2(t, e, id, a) ==
  IF Over(e, id) THEN AsList(Said(t, id, a, Len(t), e.time, TRUE)) ELSE <<>>

(* The history after the event, and where its lifetimes start.             *)
LEMMA OneLaterIs ==
  ASSUME NEW s, NEW e \in Timely, NEW id, NEW cut, WellCut(s, id, cut),
         NEW a, IsLatest(Starts(s, id, cut), a),
         NEW reclaimed \in BOOLEAN, reclaimed => a <= Len(s)
  PROVE  LET t == Append(s, e)
             n == Len(s)
             new == Cut(s, cut, reclaimed)
         IN /\ a \in 1 .. n + 1
            /\ OneLater(s, t, e, id, cut, new, a)
            /\ Ends(t, id) = IF Over(e, id) THEN Ends(s, id) \cup {n + 1} ELSE Ends(s, id)
            /\ Starts(t, id, new) = Starts(s, id, cut) \cup (IF reclaimed THEN {n + 1} ELSE {})
                                      \cup (IF Over(e, id) THEN {n + 2} ELSE {})
<1> DEFINE t == Append(s, e)
           n == Len(s)
           new == Cut(s, cut, reclaimed)
           S == Starts(s, id, cut)
           T == Starts(t, id, new)
           E == Ends(s, id)
           F == Ends(t, id)
<1>1. /\ s \in Seq(Timely) /\ n \in Nat /\ DOMAIN s = 1 .. n /\ E \subseteq 1 .. n /\ S \subseteq 1 .. n + 1
      /\ cut \subseteq 1 .. n /\ \A b \in E : b + 1 \notin cut
  BY StartsFacts DEF WellCut
<1>2. a \in S /\ a \in 1 .. n + 1 /\ \A i \in S : i <= a
  BY <1>1 DEF IsLatest
<1>3. t \in Seq(Timely) /\ Len(t) = n + 1 /\ DOMAIN t = 1 .. n + 1 /\ t[n + 1] = e
      /\ \A i \in 1 .. n : t[i] = s[i]
  BY <1>1
<1> HIDE DEF n, t
<1>4. F = IF Over(e, id) THEN E \cup {n + 1} ELSE E
  <2>1. \A i : i \in 1 .. n + 1 <=> i \in 1 .. n \/ i = n + 1
    BY <1>1
  <2>2. n + 1 \notin 1 .. n
    BY <1>1
  <2> QED  BY <1>1, <1>3, <2>1, <2>2 DEF Ends, Over
<1>5. new = IF reclaimed THEN cut \cup {n + 1} ELSE cut
  BY DEF Cut, n
<1>6. T = S \cup (IF reclaimed THEN {n + 1} ELSE {}) \cup (IF Over(e, id) THEN {n + 2} ELSE {})
  <2>1. S = {1} \cup cut \cup {i + 1 : i \in E} /\ T = {1} \cup new \cup {i + 1 : i \in F}
    BY DEF Starts
  <2>2. {i + 1 : i \in F} = {i + 1 : i \in E} \cup (IF Over(e, id) THEN {n + 2} ELSE {})
    <3> HIDE DEF E, F
    <3>1. n + 1 + 1 = n + 2
      BY <1>1
    <3> QED  BY <1>4, <3>1
  <2> HIDE DEF E, F, S, T, new
  <2> QED  BY <1>5, <2>1, <2>2
<1>7. \A b \in E : b + 1 \in S
  BY DEF Starts
<1> HIDE DEF E, F, new
<1>8. WellCut(t, id, new)
  <2>1. new \subseteq 1 .. Len(t)
    BY <1>1, <1>3, <1>5
  <2>2. ASSUME NEW b \in F  PROVE b + 1 \notin new
    <3>1. CASE b = n + 1
      <4>1. n + 2 \notin cut /\ n + 2 # n + 1 /\ b + 1 = n + 2
        BY <1>1, <3>1
      <4> QED  BY <1>5, <4>1
    <3>2. CASE b \in E
      <4>1. b + 1 \notin cut /\ b \in 1 .. n /\ b + 1 <= a
        BY <1>1, <1>2, <1>7, <3>2
      <4>2. b + 1 = n + 1 => ~reclaimed
        BY <1>1, <1>2, <4>1 DEF n
      <4> QED  BY <1>5, <4>1, <4>2
    <3> QED  BY <1>4, <2>2, <3>1, <3>2
  <2> QED  BY <1>3, <2>1, <2>2 DEF WellCut, F
<1> HIDE DEF S, T
<1>9. \A i \in T : i \in S \/ a < i
  <2>1. reclaimed => a < n + 1
    BY <1>1, <1>2 DEF n
  <2>2. a < n + 2
    BY <1>1, <1>2
  <2> QED  BY <1>6, <2>1, <2>2
<1>10. \A b \in 1 .. n : b \in F <=> b \in E
  BY <1>1, <1>4
<1>11. \A c \in 1 .. a : c \in new <=> c \in cut
  <2>1. \A c \in 1 .. a : c = n + 1 => ~reclaimed
    BY <1>1, <1>2 DEF n
  <2> QED  BY <1>5, <2>1
<1>12. OneLater(s, t, e, id, cut, new, a)
  <2>1. S \subseteq T
    BY <1>6
  <2> QED  BY <1>8, <1>9, <1>10, <1>11, <2>1 DEF OneLater, S, T, E, F, n, t
<1> QED  BY <1>2, <1>4, <1>6, <1>12 DEF S, T, E, F, n, t, new

(* The verdicts of the lifetimes that are over after it.                   *)
LEMMA HistoryGrows ==
  ASSUME NEW s, NEW e \in Timely, NEW id, NEW cut, WellCut(s, id, cut),
         NEW a, IsLatest(Starts(s, id, cut), a),
         NEW reclaimed \in BOOLEAN, reclaimed => a <= Len(s)
  PROVE  LET t == Append(s, e)
             n == Len(s)
             new == Cut(s, cut, reclaimed)
             b == Begun(s, a, reclaimed)
             c == IF Over(e, id) THEN n + 2 ELSE b
         IN /\ WellCut(t, id, new)
            /\ IsLatest(Starts(t, id, new), c)
            /\ IsSequence(Old(s, id, cut, a))
            /\ Old(t, id, new, c) = (Old(s, id, cut, a) \o Final1(s, e, id, a, reclaimed))
                                      \o Final2(t, e, id, b)
<1> DEFINE t == Append(s, e)
           n == Len(s)
           new == Cut(s, cut, reclaimed)
           S == Starts(s, id, cut)
           T == Starts(t, id, new)
           b == Begun(s, a, reclaimed)
           c == IF Over(e, id) THEN n + 2 ELSE b
<1>1. /\ a \in 1 .. n + 1
      /\ OneLater(s, t, e, id, cut, new, a)
      /\ Ends(t, id) = IF Over(e, id) THEN Ends(s, id) \cup {n + 1} ELSE Ends(s, id)
      /\ T = S \cup (IF reclaimed THEN {n + 1} ELSE {}) \cup (IF Over(e, id) THEN {n + 2} ELSE {})
  BY OneLaterIs
<1>2. /\ s \in Seq(Timely) /\ n \in Nat /\ S \subseteq 1 .. n + 1
      /\ S \subseteq Nat /\ IsFiniteSet(S) /\ Ends(s, id) \subseteq 1 .. n
  BY StartsFacts DEF WellCut
<1>3. /\ t \in Seq(Timely) /\ Len(t) = n + 1 /\ t[n + 1] = e
  BY <1>2
<1> HIDE DEF n, t, new
<1>4. a \in S /\ \A i \in S : i <= a
  BY DEF IsLatest
<1>5. WellCut(t, id, new)
  BY <1>1 DEF OneLater
<1>6. b = IF reclaimed THEN n + 1 ELSE a
  BY DEF Begun, n
<1>8. n \in Ends(s, id) => a = n + 1
  <2>1. n \in Ends(s, id) => n + 1 \in S
    BY DEF Starts
  <2> HIDE DEF S
  <2> QED  BY <1>1, <1>2, <1>4, <2>1
<1> HIDE DEF S, T, b, c
<1>9. b \in T /\ b \in 1 .. n + 1 /\ a <= b
  BY <1>1, <1>2, <1>4, <1>6
<1>10. \A i \in T : i <= a \/ (reclaimed /\ i = n + 1) \/ (Over(e, id) /\ i = n + 2)
  BY <1>1, <1>4
<1>11. IsLatest(T, c)
  <2>1. CASE Over(e, id)
    <3>1. c = n + 2 /\ n + 2 \in T
      BY <1>1, <2>1 DEF c
    <3>2. \A i \in T : i <= n + 2
      BY <1>1, <1>2, <1>10
    <3> QED  BY <3>1, <3>2 DEF IsLatest
  <2>2. CASE ~Over(e, id)
    <3>1. c = b
      BY <2>2 DEF c
    <3>2. \A i \in T : i <= b
      BY <1>1, <1>2, <1>6, <1>9, <1>10, <2>2
    <3> QED  BY <1>9, <3>1, <3>2 DEF IsLatest
  <2> QED  BY <2>1, <2>2
<1>12. IsSequence(Old(s, id, cut, a))
  BY OldIsSequence
<1>13. Old(t, id, new, a) = Old(s, id, cut, a)
  BY <1>1, OldStays
<1>14. Old(t, id, new, b) = Old(s, id, cut, a) \o Final1(s, e, id, a, reclaimed)
  <2>1. CASE reclaimed
    <3>1. a < n + 1 /\ a \in T /\ n + 1 \in T /\ n + 1 \in Int /\ b = n + 1
      BY <1>1, <1>2, <1>4, <1>6, <2>1 DEF n
    <3>2. \A i \in T : i <= a \/ n + 1 <= i
      BY <1>1, <1>2, <1>10
    <3>3. a \in Starts(t, id, new) /\ n + 1 \in Starts(t, id, new)
          /\ \A i \in Starts(t, id, new) : i <= a \/ n + 1 <= i
      BY <3>1, <3>2 DEF T
    <3>4. Old(t, id, new, n + 1) = Old(t, id, new, a) \o AsList(Lives(t, id, new)[a])
      BY <1>5, <3>1, <3>3, OldNext
    <3>5. LastOf(t, id, new, a) = n
      <4>1. LastOf(t, id, new, a) = (n + 1) - 1
        BY <1>5, <3>1, <3>3, LastOfIs
      <4> QED  BY <1>2, <4>1
    <3>6. Lives(t, id, new)[a] = LifeOf(t, id, new, a, n)
      BY <1>5, <3>3, <3>5, StartsFacts
    <3>7. ClockAt(t, new, n) = e.time
      BY <1>3, <2>1 DEF ClockAt, new, Cut, n
    <3>8. (n \in Ends(t, id)) = FALSE
      BY <1>1, <1>2, <1>8, <3>1
    <3>9. Said(t, id, a, n, e.time, FALSE) = Said(s, id, a, n, e.time, FALSE)
      <4>1. a \in Nat /\ 1 <= a /\ n \in Int /\ n <= Len(s)
        BY <1>1, <1>2 DEF n
      <4>2. s \in Seq(Timely)
        BY <1>2
      <4>3. \A now, ended : Said(Append(s, e), id, a, n, now, ended)
                             = Said(s, id, a, n, now, ended)
        BY <4>1, <4>2, TrailStays
      <4> QED  BY <4>3 DEF t
    <3>10. Lives(t, id, new)[a] = Said(s, id, a, n, e.time, FALSE)
      BY <3>6, <3>7, <3>8, <3>9 DEF LifeOf
    <3> QED  BY <1>13, <2>1, <3>1, <3>4, <3>10 DEF Final1, n
  <2>2. CASE ~reclaimed
    <3>1. Old(s, id, cut, a) \o <<>> = Old(s, id, cut, a)
      BY <1>12, AppendingNothing
    <3> QED  BY <1>6, <1>13, <2>2, <3>1 DEF Final1
  <2> QED  BY <2>1, <2>2
<1>15. Old(t, id, new, c) = Old(t, id, new, b) \o Final2(t, e, id, b)
  <2>1. CASE Over(e, id)
    <3>1. b < n + 2 /\ n + 2 \in Int /\ c = n + 2 /\ n + 2 \in T
      BY <1>1, <1>2, <1>9, <2>1 DEF c
    <3>2. \A i \in T : i <= b \/ n + 2 <= i
      BY <1>1, <1>2, <1>6, <1>9, <1>10
    <3>3. b \in Starts(t, id, new) /\ n + 2 \in Starts(t, id, new)
          /\ \A i \in Starts(t, id, new) : i <= b \/ n + 2 <= i
      BY <1>9, <3>1, <3>2 DEF T
    <3>4. Old(t, id, new, n + 2) = Old(t, id, new, b) \o AsList(Lives(t, id, new)[b])
      BY <1>5, <3>1, <3>3, OldNext
    <3>5. LastOf(t, id, new, b) = n + 1
      <4>1. LastOf(t, id, new, b) = (n + 2) - 1
        BY <1>5, <3>1, <3>3, LastOfIs
      <4> QED  BY <1>2, <4>1
    <3>6. Lives(t, id, new)[b] = LifeOf(t, id, new, b, n + 1)
      BY <1>5, <3>3, <3>5, StartsFacts
    <3>7. ClockAt(t, new, n + 1) = e.time
      <4>1. n + 1 + 1 \notin new
        BY <1>1, <1>2, <1>3, <1>5 DEF WellCut
      <4> QED  BY <1>3, <4>1 DEF ClockAt
    <3>8. (n + 1 \in Ends(t, id)) = TRUE
      BY <1>1, <2>1
    <3>9. Lives(t, id, new)[b] = Said(t, id, b, n + 1, e.time, TRUE)
      BY <3>6, <3>7, <3>8 DEF LifeOf
    <3> QED  BY <1>3, <2>1, <3>1, <3>4, <3>9 DEF Final2
  <2>2. CASE ~Over(e, id)
    <3>1. IsSequence(Old(t, id, new, b))
      BY <1>5, OldIsSequence
    <3>2. Old(t, id, new, b) \o <<>> = Old(t, id, new, b)
      BY <3>1, AppendingNothing
    <3> QED  BY <2>2, <3>2 DEF Final2, c
  <2> QED  BY <2>1, <2>2
<1> QED  BY <1>5, <1>11, <1>12, <1>14, <1>15 DEF T, b, c, n, t, new

-----------------------------------------------------------------------------
(* The instance i of an id, whose verdicts are vs, is abreast of the       *)
(* lifetime a .. b of the id's history at now: it is there if the lifetime *)
(* has events, it was last active at the latest of them, and the verdicts  *)
(* since those of the old lifetimes are the lifetime's.                    *)
Delivered(i, vs, id, tr, now, old) ==
  \E own : vs = old \o own /\ Abreast(PolicyOf(id), i.monitor, tr, now, own)
Instances == [monitor : Life!MonitorType, last : Int]
Tracked(i, vs, id, s, a, b, now, old) ==
  IF i = None THEN Seen(s, id, a, b) = {} /\ vs = old
  ELSE /\ i \in Instances
       /\ \E k : IsLatest(Seen(s, id, a, b), k) /\ i.last = s[k].time
       /\ Delivered(i, vs, id, Trail(s, id, a, b), now, old)

(* Lists of verdicts, joined.                                              *)
Few(y) == y = <<>> \/ \E v : y = <<v>>

(* Joining them is associative.                                            *)
LEMMA Joined ==
  ASSUME NEW x, IsSequence(x), NEW y, Few(y), NEW z, Few(z)
  PROVE  (x \o y) \o z = x \o (y \o z)
<1> DEFINE V == {x[n] : n \in DOMAIN x} \cup {y[n] : n \in DOMAIN y} \cup {z[n] : n \in DOMAIN z}
<1>1. x \in Seq(V)
  BY DEF IsSequence
<1>2. {y[n] : n \in DOMAIN y} \subseteq V /\ {z[n] : n \in DOMAIN z} \subseteq V
  OBVIOUS
<1> HIDE DEF V
<1>3. ASSUME NEW w, Few(w), {w[n] : n \in DOMAIN w} \subseteq V  PROVE w \in Seq(V)
  <2>1. CASE w = <<>>
    BY <2>1
  <2>2. ASSUME NEW v, w = <<v>>  PROVE w \in Seq(V)
    <3>1. v \in V
      BY <1>3, <2>2
    <3> QED  BY <2>2, <3>1
  <2> QED  BY <1>3, <2>1, <2>2 DEF Few
<1>4. y \in Seq(V) /\ z \in Seq(V)
  BY <1>2, <1>3
<1> QED  BY <1>1, <1>4

(* A verdict that may be pending, and a report, are such short lists.      *)
LEMMA FewFacts ==
  /\ \A v : Few(AsList(v))
  /\ \A id, r, at : Few(Report(id, r, at))
<1>1. \A v : Few(AsList(v))
  BY DEF Few, AsList
<1>2. \A id, r, at : Few(Report(id, r, at))
  BY DEF Few, Report
<1> QED  BY <1>1, <1>2

(* The policy of an id is one of the engine's.                             *)
LEMMA PolicyOfId == \A id \in Id : PolicyOf(id) \in Policies
BY DEF Id, PolicyOf

(* An instance is not None.                                                *)
LEMMA InstanceIsThere == \A i \in Instances : i # None
<1>1. Life!MonitorType \subseteq [settled : BOOLEAN, trigger : Event \cup {None},
                                 deadline : Int \cup {None}, flag : BOOLEAN,
                                 started : BOOLEAN, evidence : Event \cup {None}]
  BY DEF Life!MonitorType, Timely
<1>2. Instances \subseteq InstanceType
  BY <1>1 DEF Instances, InstanceType
<1> QED  BY <1>2, NoneAssumption

(* The clock moves on, and due deadlines fire.                             *)
LEMMA TimeTracked ==
  ASSUME NEW g, EngineSound(g), NEW id \in Id, NEW s \in Seq(Timely), NEW a \in Nat, 1 <= a,
         NEW now, NEW later \in Int, g.instances[id] # None => now \in Int /\ now <= later,
         NEW old, IsSequence(old),
         Tracked(g.instances[id], g.verdicts[id], id, s, a, Len(s), now, old)
  PROVE  LET f == FireDueDeadlines(g, later)
         IN Tracked(f.instances[id], f.verdicts[id], id, s, a, Len(s), later, old)
<1> DEFINE f == FireDueDeadlines(g, later)
           i == g.instances[id]
           m == i.monitor
           d == NextDeadline(m)
           r == IF d # None /\ d <= later THEN OnTimeout(m, d) ELSE Quiet(m)
           O == Overdue(g, id, later)
           w == Earliest(O)
           q == OnTimeout(m, w)
           tr == Trail(s, id, a, Len(s))
           p == PolicyOf(id)
<1>1. /\ f.instances[id] = IF O = {} THEN i ELSE [i EXCEPT !.monitor = q.monitor]
      /\ f.verdicts[id] = IF O = {} THEN g.verdicts[id] ELSE g.verdicts[id] \o Report(id, q, w)
  BY FireFields DEF EngineSound
<1>2. CASE i = None
  <2>1. O = {}
    BY <1>2 DEF Overdue
  <2> HIDE DEF f
  <2> QED  BY <1>1, <1>2, <2>1 DEF Tracked, f
<1>3. CASE i # None
  <2>1. InstanceShape(i) /\ MonitorShape(m)
    BY <1>3 DEF EngineSound, EngineShape, InstanceShape
  <2>2. /\ i \in Instances
        /\ \E k : IsLatest(Seen(s, id, a, Len(s)), k) /\ i.last = s[k].time
        /\ Delivered(i, g.verdicts[id], id, tr, now, old)
    BY <1>3 DEF Tracked
  <2>3. PICK own : g.verdicts[id] = old \o own /\ Abreast(p, m, tr, now, own)
    BY <2>2 DEF Delivered
  <2>4. tr \in Seq(Timely) /\ p \in Policies
    <3>1. Len(s) \in Int /\ Len(s) <= Len(s)
      OBVIOUS
    <3> QED  BY <3>1, TrailFacts, PolicyOfId
  <2>5. Few(own)
    <3> HIDE DEF tr, p, m
    <3>1. own = AsList(Meaning!Means(p, tr, now, FALSE))
      BY <2>3, <2>4, AbreastSays
    <3> QED  BY <3>1, FewFacts
  <2> HIDE DEF tr, p
  <2>6. Abreast(p, r.monitor, tr, later, own \o Report(id, r, m.deadline))
    BY <1>3, <2>3, <2>4, FiringAbreast DEF p
  <2>7. (old \o own) \o Report(id, r, m.deadline) = old \o (own \o Report(id, r, m.deadline))
    BY <2>5, FewFacts, Joined
  <2>8. /\ f.instances[id] = [i EXCEPT !.monitor = r.monitor]
        /\ f.verdicts[id] = g.verdicts[id] \o Report(id, r, m.deadline)
    <3>1. d # None => d = m.deadline /\ Armed(g, id) /\ d \in Int
      BY <1>3, <2>1 DEF NextDeadline, Armed, MonitorShape
    <3>2. Armed(g, id) => d # None
      BY DEF Armed
    <3>3. CASE d # None /\ d <= later
      <4>1. O # {} /\ w = m.deadline
        BY <3>1, <3>3, OverdueFacts
      <4>2. q = r
        BY <3>1, <3>3, <4>1
      <4> HIDE DEF f, q, r, i, O, w
      <4> QED  BY <1>1, <4>1, <4>2
    <3>4. CASE ~(d # None /\ d <= later)
      <4>1. O = {}
        BY <3>1, <3>2, <3>4, OverdueFacts
      <4>2. r = Quiet(m)
        BY <3>4
      <4>3. r.monitor = m /\ Report(id, r, m.deadline) = <<>>
        BY <4>2 DEF Quiet, Report
      <4>4. g.verdicts[id] \o <<>> = g.verdicts[id]
        BY AppendingNothing DEF EngineSound, EngineShape
      <4>5. [i EXCEPT !.monitor = m] = i
        BY <2>2 DEF Instances
      <4> HIDE DEF f, q, r, O, w
      <4> QED  BY <1>1, <4>1, <4>3, <4>4, <4>5
    <3> QED  BY <3>3, <3>4
  <2> HIDE DEF f, q, r, O, w, m, d
  <2>9. f.verdicts[id] = old \o (own \o Report(id, r, m.deadline))
    BY <2>3, <2>7, <2>8
  <2>10. r.monitor \in Life!MonitorType
    BY <2>6 DEF Abreast, Life!Sound
  <2>11. /\ f.instances[id] \in Instances /\ f.instances[id].monitor = r.monitor
         /\ f.instances[id].last = i.last
    BY <2>2, <2>8, <2>10 DEF Instances
  <2>12. Delivered(f.instances[id], f.verdicts[id], id, tr, later, old)
    BY <2>6, <2>9, <2>11 DEF Delivered, p
  <2>13. f.instances[id] # None
    BY <2>11, InstanceIsThere
  <2> QED  BY <2>2, <2>11, <2>12, <2>13 DEF Tracked, tr, f
<1> QED  BY <1>2, <1>3

(* An event is dispatched: it joins the lifetime of the ids it concerns.   *)
LEMMA DispatchTracked ==
  ASSUME NEW g, EngineSound(g), NEW id \in Id, Life!WellPosed(PolicyOf(id)),
         NEW s \in Seq(Timely), NEW e \in Timely, NEW a \in Nat, 1 <= a, a <= Len(s) + 1,
         NEW old, IsSequence(old),
         Tracked(g.instances[id], g.verdicts[id], id, s, a, Len(s), e.time, old)
  PROVE  LET d == Dispatch(g, e)
         IN Tracked(d.instances[id], d.verdicts[id], id, Append(s, e), a, Len(s) + 1, e.time, old)
<1> DEFINE d == Dispatch(g, e)
           i == g.instances[id]
           n == Len(s)
           t == Append(s, e)
           p == PolicyOf(id)
           tr == Trail(s, id, a, n)
<1>1. n \in Nat /\ n \in Int /\ n <= Len(s) /\ t[n + 1] = e /\ \A k \in 1 .. n : t[k] = s[k]
  OBVIOUS
<1>2. /\ Seen(s, id, a, n) \subseteq a .. n /\ Trail(s, id, a, n) \in Seq(Timely)
      /\ Ranks(Applied(s, id, a, n)) /\ Applied(s, id, a, n) \subseteq Seen(s, id, a, n)
  BY <1>1, TrailFacts DEF Applied
<1>3. /\ ~Concerns(e, id) => d.instances[id] = i /\ d.verdicts[id] = g.verdicts[id]
      /\ Concerns(e, id) => /\ d.instances[id] = Dispatched(g, e, id).instance
                            /\ d.verdicts[id] = g.verdicts[id] \o Dispatched(g, e, id).report
  BY DispatchFields DEF EngineSound
<1>4. p \in Policies
  BY PolicyOfId
<1> HIDE DEF d
<1>5. CASE ~Concerns(e, id)
  <2>1. Seen(t, id, a, n + 1) = Seen(s, id, a, n) /\ Trail(t, id, a, n + 1) = tr
    BY <1>5, TrailGrows
  <2>2. ASSUME NEW k, IsLatest(Seen(s, id, a, n), k)  PROVE t[k] = s[k]
    <3>1. k \in a .. n
      BY <1>2, <2>2 DEF IsLatest
    <3> QED  BY <1>1, <3>1
  <2>3. d.instances[id] = i /\ d.verdicts[id] = g.verdicts[id]
    BY <1>3, <1>5
  <2>4. Tracked(i, g.verdicts[id], id, s, a, n, e.time, old)
    OBVIOUS
  <2> HIDE DEF t, n, i, tr
  <2>5. Tracked(i, g.verdicts[id], id, t, a, n + 1, e.time, old)
    <3>1. CASE i = None
      BY <2>1, <2>4, <3>1 DEF Tracked
    <3>2. CASE i # None
      <4>1. PICK k : IsLatest(Seen(s, id, a, n), k) /\ i.last = s[k].time
        BY <2>4, <3>2 DEF Tracked
      <4>2. IsLatest(Seen(t, id, a, n + 1), k) /\ i.last = t[k].time
        BY <2>1, <2>2, <4>1
      <4>3. i \in Instances /\ Delivered(i, g.verdicts[id], id, Trail(t, id, a, n + 1), e.time, old)
        BY <2>1, <2>4, <3>2 DEF Tracked, tr
      <4> QED  BY <3>2, <4>2, <4>3 DEF Tracked
    <3> QED  BY <3>1, <3>2
  <2> QED  BY <2>3, <2>5 DEF t, n, i, d
<1>6. CASE Concerns(e, id)
  <2> DEFINE m == IF i = None THEN Fresh ELSE i.monitor
             r == Apply(p, m, e)
             new == IF Marks(p, e) THEN Append(tr, e) ELSE tr
  <2>1. PICK own : g.verdicts[id] = old \o own /\ Abreast(p, m, tr, e.time, own)
    <3>1. CASE i = None
      <4>1. g.verdicts[id] = old /\ Seen(s, id, a, n) = {}
        BY <3>1 DEF Tracked
      <4>2. tr = <<>>
        <5>1. Applied(s, id, a, n) = {}
          BY <1>2, <4>1
        <5>2. Cardinality({}) = 0
          BY FS_EmptySet
        <5> QED  BY <5>1, <5>2 DEF Trail, Only
      <4>3. old \o <<>> = old
        BY AppendingNothing
      <4>4. Abreast(p, Fresh, <<>>, e.time, <<>>)
        BY <1>4, BeginsAbreast
      <4> HIDE DEF tr, p
      <4> QED  BY <3>1, <4>1, <4>2, <4>3, <4>4
    <3>2. CASE i # None
      BY <3>2 DEF Tracked, Delivered
    <3> QED  BY <3>1, <3>2
  <2>2. /\ Dispatched(g, e, id).instance = [monitor |-> r.monitor, last |-> e.time]
        /\ Dispatched(g, e, id).report = Report(id, r, e.time)
    <3>1. (IF i = None THEN NewInstance ELSE i).monitor = m
      BY DEF NewInstance
    <3> QED  BY <3>1 DEF Dispatched
  <2> HIDE DEF m, tr
  <2>3. Few(own)
    <3>1. own = AsList(Meaning!Means(p, tr, e.time, FALSE))
      <4> HIDE DEF p
      <4>1. tr \in Seq(Timely)
        BY <1>2 DEF tr
      <4> QED  BY <1>4, <2>1, <4>1, AbreastSays
    <3> QED  BY <3>1, FewFacts
  <2>4. Abreast(p, r.monitor, new, e.time, own \o Report(id, r, e.time))
    BY <1>2, <2>1, ApplyAbreast DEF tr
  <2> HIDE DEF r, new, p
  <2>5. (old \o own) \o Report(id, r, e.time) = old \o (own \o Report(id, r, e.time))
    BY <2>3, FewFacts, Joined
  <2>6. /\ d.instances[id] = [monitor |-> r.monitor, last |-> e.time]
        /\ d.verdicts[id] = old \o (own \o Report(id, r, e.time))
    BY <1>3, <1>6, <2>1, <2>2, <2>5
  <2>7. r.monitor \in Life!MonitorType /\ e.time \in Int
    BY <2>4, TimelyTimes DEF Abreast, Life!Sound
  <2>8. d.instances[id] \in Instances /\ d.instances[id] # None
    <3>1. d.instances[id] \in Instances
      BY <2>6, <2>7 DEF Instances
    <3> QED  BY <3>1, InstanceIsThere
  <2>9. /\ IsLatest(Seen(t, id, a, n + 1), n + 1)
        /\ Trail(t, id, a, n + 1) = new
    BY <1>6, TrailGrows DEF new, tr, p
  <2>10. Delivered(d.instances[id], d.verdicts[id], id, new, e.time, old)
    <3>1. d.instances[id].monitor = r.monitor
      BY <2>6
    <3> QED  BY <2>4, <2>6, <3>1 DEF Delivered, p
  <2>11. d.instances[id].last = t[n + 1].time
    BY <1>1, <2>6
  <2> HIDE DEF t, n, new
  <2>12. Tracked(d.instances[id], d.verdicts[id], id, t, a, n + 1, e.time, old)
    BY <2>8, <2>9, <2>10, <2>11 DEF Tracked
  <2> QED  BY <2>12 DEF t, n, d
<1> QED  BY <1>5, <1>6

(* A reclaimed instance leaves its lifetime's verdicts to the old ones.    *)
LEMMA ReclaimTracked ==
  ASSUME NEW f, EngineSound(f), NEW id \in Id, NEW s \in Seq(Timely), NEW e \in Timely,
         NEW a \in Nat, 1 <= a, NEW old, IsSequence(old),
         Tracked(f.instances[id], f.verdicts[id], id, s, a, Len(s), e.time, old)
  PROVE  LET h == ReclaimQuiescent(f, e.time)
             reclaimed == id \in Quiescent(f, e.time)
         IN /\ reclaimed => a <= Len(s)
            /\ Tracked(h.instances[id], h.verdicts[id], id, s, Begun(s, a, reclaimed), Len(s),
                       e.time, old \o Final1(s, e, id, a, reclaimed))
<1> DEFINE h == ReclaimQuiescent(f, e.time)
           i == f.instances[id]
           n == Len(s)
           reclaimed == id \in Quiescent(f, e.time)
           tr == Trail(s, id, a, n)
           p == PolicyOf(id)
<1>1. n \in Nat /\ n \in Int /\ n <= Len(s) /\ p \in Policies
  BY PolicyOfId
<1>2. /\ Seen(s, id, a, n) \subseteq a .. n /\ tr \in Seq(Timely)
  BY <1>1, TrailFacts
<1>3. /\ h.instances[id] = IF reclaimed THEN None ELSE i
      /\ h.verdicts[id] = f.verdicts[id]
  <2>1. CASE TTL = None
    <3>1. h = f /\ ~reclaimed
      BY <2>1 DEF ReclaimQuiescent, Quiescent
    <3> HIDE DEF h, reclaimed
    <3> QED  BY <3>1
  <2>2. CASE TTL # None
    BY <2>2 DEF ReclaimQuiescent, EngineSound, EngineShape, EmptyEngine
  <2> QED  BY <2>1, <2>2
<1>4. reclaimed => i # None
  BY DEF Quiescent
<1> HIDE DEF h, reclaimed
<1>5. CASE ~reclaimed
  <2>1. Begun(s, a, reclaimed) = a /\ Final1(s, e, id, a, reclaimed) = <<>>
    BY <1>5 DEF Begun, Final1
  <2>2. old \o <<>> = old
    BY AppendingNothing
  <2>3. h.instances[id] = i /\ h.verdicts[id] = f.verdicts[id]
    BY <1>3, <1>5
  <2> HIDE DEF i
  <2>4. Tracked(i, f.verdicts[id], id, s, a, n, e.time, old)
    BY DEF i
  <2> QED  BY <1>5, <2>1, <2>2, <2>3, <2>4 DEF h, reclaimed
<1>6. CASE reclaimed
  <2>1. i # None
    BY <1>4, <1>6
  <2>2. PICK k : IsLatest(Seen(s, id, a, n), k)
    BY <2>1 DEF Tracked
  <2>3. Delivered(i, f.verdicts[id], id, tr, e.time, old)
    BY <2>1 DEF Tracked
  <2>4. PICK own : f.verdicts[id] = old \o own /\ Abreast(p, i.monitor, tr, e.time, own)
    BY <2>3 DEF Delivered
  <2>5. k \in a .. n /\ Seen(s, id, a, n) # {}
    BY <1>2, <2>2 DEF IsLatest
  <2>6. a <= n
    BY <1>1, <2>5
  <2> HIDE DEF tr, p
  <2>7. own = AsList(Meaning!Means(p, tr, e.time, FALSE))
    BY <1>1, <1>2, <2>4, AbreastSays
  <2>8. own = Final1(s, e, id, a, reclaimed)
    BY <1>6, <2>5, <2>7 DEF Final1, Said, tr, p, Trail, n
  <2>9. Begun(s, a, reclaimed) = n + 1
    BY <1>6 DEF Begun
  <2>10. Seen(s, id, n + 1, n) = {}
    <3>1. n + 1 .. n = {}
      BY <1>1
    <3> HIDE DEF n
    <3> QED  BY <3>1 DEF Seen
  <2>11. h.instances[id] = None /\ h.verdicts[id] = old \o Final1(s, e, id, a, reclaimed)
    BY <1>3, <1>6, <2>4, <2>8
  <2>12. Tracked(h.instances[id], h.verdicts[id], id, s, Begun(s, a, reclaimed), n, e.time,
                 old \o Final1(s, e, id, a, reclaimed))
    BY <2>9, <2>10, <2>11 DEF Tracked
  <2> QED  BY <2>6, <2>12 DEF h, reclaimed
<1> QED  BY <1>5, <1>6

(* So does one whose entity ends, with what its end decides.               *)
LEMMA RetireTracked ==
  ASSUME NEW d, EngineSound(d), NEW id \in Id, NEW t \in Seq(Timely), NEW e \in Timely,
         NEW b \in Nat, 1 <= b, NEW old, IsSequence(old),
         Tracked(d.instances[id], d.verdicts[id], id, t, b, Len(t), e.time, old)
  PROVE  LET h == IF e.type \in TerminalTypes THEN RetireEntity(d, e) ELSE d
             c == IF Over(e, id) THEN Len(t) + 1 ELSE b
         IN Tracked(h.instances[id], h.verdicts[id], id, t, c, Len(t), e.time,
                    old \o Final2(t, e, id, b))
<1> DEFINE h == IF e.type \in TerminalTypes THEN RetireEntity(d, e) ELSE d
           c == IF Over(e, id) THEN Len(t) + 1 ELSE b
           i == d.instances[id]
           n == Len(t)
           gone == Over(e, id) /\ i # None
           p == PolicyOf(id)
           r == OnTerminal(p, i.monitor)
           tr == Trail(t, id, b, n)
<1>1. n \in Nat /\ n \in Int /\ n <= Len(t) /\ p \in Policies /\ e.time \in Int
  BY PolicyOfId, TimelyTimes
<1>2. /\ Seen(t, id, b, n) \subseteq b .. n /\ tr \in Seq(Timely)
  BY <1>1, TrailFacts
<1>3. /\ h.instances[id] = IF gone THEN None ELSE i
      /\ h.verdicts[id] = IF gone THEN d.verdicts[id] \o Report(id, r, e.time) ELSE d.verdicts[id]
  <2>1. CASE e.type \notin TerminalTypes
    <3>1. h = d /\ ~gone
      BY <2>1 DEF Over
    <3> HIDE DEF h, gone
    <3> QED  BY <3>1
  <2>2. CASE e.type \in TerminalTypes
    <3>1. h = RetireEntity(d, e) /\ (gone <=> Carries(e, id) /\ i # None)
      BY <2>2 DEF Over
    <3> HIDE DEF h, gone
    <3> QED  BY <3>1 DEF RetireEntity, EngineSound, EngineShape, EmptyEngine
  <2> QED  BY <2>1, <2>2
<1> HIDE DEF h, c
<1>5. CASE ~Over(e, id)
  <2>1. c = b /\ Final2(t, e, id, b) = <<>>
    BY <1>5 DEF c, Final2
  <2>2. old \o <<>> = old
    BY AppendingNothing
  <2>3. h.instances[id] = i /\ h.verdicts[id] = d.verdicts[id]
    BY <1>3, <1>5
  <2>4. Tracked(i, d.verdicts[id], id, t, b, n, e.time, old)
    OBVIOUS
  <2> HIDE DEF i
  <2> QED  BY <2>1, <2>2, <2>3, <2>4 DEF h, c
<1>6. CASE Over(e, id)
  <2>1. c = n + 1
    BY <1>6 DEF c
  <2>2. Seen(t, id, n + 1, n) = {}
    <3>1. n + 1 .. n = {}
      BY <1>1
    <3> HIDE DEF n
    <3> QED  BY <3>1 DEF Seen
  <2>3. h.verdicts[id] = old \o Final2(t, e, id, b)
    <3>1. CASE i = None
      <4>1. Seen(t, id, b, n) = {} /\ d.verdicts[id] = old
        BY <3>1 DEF Tracked
      <4>2. Final2(t, e, id, b) = <<>>
        BY <1>6, <4>1 DEF Final2, Said, AsList, Meaning!Pending
      <4>3. old \o <<>> = old
        BY AppendingNothing
      <4>4. h.verdicts[id] = d.verdicts[id]
        BY <1>3, <3>1
      <4> QED  BY <4>1, <4>2, <4>3, <4>4
    <3>2. CASE i # None
      <4>1. Delivered(i, d.verdicts[id], id, tr, e.time, old)
        BY <3>2 DEF Tracked
      <4>2. PICK own : d.verdicts[id] = old \o own /\ Abreast(p, i.monitor, tr, e.time, own)
        BY <4>1 DEF Delivered
      <4>3. PICK k : IsLatest(Seen(t, id, b, n), k)
        BY <3>2 DEF Tracked
      <4>4. Seen(t, id, b, n) # {}
        BY <4>3 DEF IsLatest
      <4>5. h.verdicts[id] = (old \o own) \o Report(id, r, e.time)
        BY <1>3, <1>6, <3>2, <4>2
      <4> HIDE DEF tr
      <4>6. Few(own)
        <5> HIDE DEF p
        <5>1. own = AsList(Meaning!Means(p, tr, e.time, FALSE))
          BY <1>1, <1>2, <4>2, AbreastSays
        <5> QED  BY <5>1, FewFacts
      <4>7. own \o Report(id, r, e.time) = AsList(Meaning!Means(p, tr, e.time, TRUE))
        BY <1>1, <1>2, <4>2, EndAbreast
      <4> HIDE DEF r, p
      <4>8. (old \o own) \o Report(id, r, e.time) = old \o (own \o Report(id, r, e.time))
        BY <4>6, FewFacts, Joined
      <4>9. Final2(t, e, id, b) = AsList(Meaning!Means(p, tr, e.time, TRUE))
        BY <1>6, <4>4 DEF Final2, Said, Trail, tr, p, n
      <4> QED  BY <4>5, <4>7, <4>8, <4>9
    <3> QED  BY <3>1, <3>2
  <2>4. h.instances[id] = None
    BY <1>3, <1>6
  <2>5. Tracked(h.instances[id], h.verdicts[id], id, t, c, n, e.time, old \o Final2(t, e, id, b))
    BY <2>1, <2>2, <2>3, <2>4 DEF Tracked
  <2> QED  BY <2>5 DEF h, c
<1> QED  BY <1>5, <1>6

(* A verdict or none, appended.                                            *)
LEMMA FewMore ==
  ASSUME NEW x, IsSequence(x), NEW y, Few(y)
  PROVE  IsSequence(x \o y)
BY Appending, AppendingNothing DEF Few

(* The engine's book on an id: its instance is abreast of the newest       *)
(* lifetime of the id's history, and it has the verdicts of the others.    *)
Book(g, id, s, cut) ==
  /\ WellCut(s, id, cut)
  /\ \E a : /\ IsLatest(Starts(s, id, cut), a)
            /\ Tracked(g.instances[id], g.verdicts[id], id, s, a, Len(s), s[Len(s)].time,
                       Old(s, id, cut, a))

(* Before any event, every id has a book.                                  *)
LEMMA EmptyIsBooked ==
  ASSUME NEW id \in Id
  PROVE  Book(EmptyEngine, id, <<>>, {})
<1> DEFINE s == <<>>
<1>1. s \in Seq(Timely) /\ Len(s) = 0 /\ DOMAIN s = {}
  BY EmptySeq
<1>2. Ends(s, id) = {}
  BY <1>1 DEF Ends
<1>3. WellCut(s, id, {})
  BY <1>1 DEF WellCut
<1>4. Starts(s, id, {}) = {1}
  BY <1>2 DEF Starts
<1>5. IsLatest(Starts(s, id, {}), 1)
  BY <1>4 DEF IsLatest
<1>6. Seen(s, id, 1, 0) = {}
  BY DEF Seen
<1>7. Old(s, id, {}, 1) = <<>>
  <2>1. DecidedBelow(s, id, {}, 1) = {}
    BY <1>4 DEF DecidedBelow
  <2>2. \A L : Only(L, {}) = <<>>
    <3>1. 1 .. 0 = {} /\ Cardinality({}) = 0
      BY FS_EmptySet
    <3> QED  BY <3>1 DEF Only
  <2> QED  BY <2>1, <2>2 DEF Old
<1>8. EmptyEngine.instances[id] = None /\ EmptyEngine.verdicts[id] = <<>>
  BY DEF EmptyEngine
<1> HIDE DEF s
<1>9. Tracked(EmptyEngine.instances[id], EmptyEngine.verdicts[id], id, s, 1, 0, s[Len(s)].time,
              Old(s, id, {}, 1))
  BY <1>6, <1>7, <1>8 DEF Tracked
<1>10. Book(EmptyEngine, id, s, {})
  BY <1>1, <1>3, <1>5, <1>9 DEF Book
<1> QED  BY <1>10 DEF s

(* Handling an event that is not older than the others keeps the book.     *)
LEMMA HandleTracked ==
  ASSUME NEW g, EngineSound(g), NEW id \in Id, Life!WellPosed(PolicyOf(id)),
         NEW s, NEW cut, Book(g, id, s, cut),
         NEW e \in Timely, \A k \in DOMAIN s : s[k].time <= e.time
  PROVE  LET reclaimed == id \in Quiescent(FireDueDeadlines(g, e.time), e.time)
         IN Book(HandleEvent(g, e), id, Append(s, e), Cut(s, cut, reclaimed))
<1> DEFINE f == FireDueDeadlines(g, e.time)
           r == ReclaimQuiescent(f, e.time)
           d == Dispatch(r, e)
           h == HandleEvent(g, e)
           n == Len(s)
           t == Append(s, e)
           reclaimed == id \in Quiescent(f, e.time)
           new == Cut(s, cut, reclaimed)
<1>1. e.time \in Int /\ UsableTime(e.time)
  BY TimelyTimes DEF Timely
<1>2. EngineSound(f) /\ \A x \in Id : Armed(f, x) => e.time < f.instances[x].monitor.deadline
  BY <1>1, FireKeeps
<1>3. h = IF e.type \in TerminalTypes THEN RetireEntity(d, e) ELSE d
  BY <1>1 DEF HandleEvent
<1> HIDE DEF f
<1>4. /\ EngineSound(r)
      /\ \A x \in Id : Armed(r, x) => Armed(f, x) /\ r.instances[x] = f.instances[x]
      /\ \A x \in Id : TTL # None /\ r.instances[x] # None =>
           DecidedAtLast(r, x) \/ e.time < r.instances[x].last + TTL
  BY <1>1, <1>2, ReclaimKeeps
<1> HIDE DEF r
<1>5. EngineSound(d)
  <2>1. \A x \in Id : Armed(r, x) => e.time < r.instances[x].monitor.deadline
    BY <1>2, <1>4
  <2>2. Prompt(r, e.time)
    BY <1>4, <2>1 DEF Prompt
  <2> QED  BY <1>1, <1>4, <2>2, DispatchKeeps
<1> HIDE DEF d, h
<1>6. WellCut(s, id, cut)
  BY DEF Book
<1>7. PICK a : /\ IsLatest(Starts(s, id, cut), a)
               /\ Tracked(g.instances[id], g.verdicts[id], id, s, a, Len(s), s[Len(s)].time,
                          Old(s, id, cut, a))
  BY DEF Book
<1> DEFINE old == Old(s, id, cut, a)
           b == Begun(s, a, reclaimed)
           old1 == old \o Final1(s, e, id, a, reclaimed)
           c == IF Over(e, id) THEN n + 2 ELSE b
<1>8. s \in Seq(Timely) /\ n \in Nat /\ DOMAIN s = 1 .. n /\ IsSequence(old)
  <2>1. IsSequence(old)
    BY <1>6, OldIsSequence
  <2> QED  BY <1>6, <2>1 DEF WellCut
<1>9. a \in 1 .. n + 1 /\ a \in Nat /\ 1 <= a /\ a <= n + 1
  <2>1. a \in 1 .. n + 1
    BY <1>6, <1>7, StartsFacts DEF IsLatest
  <2> QED  BY <1>8, <2>1
<1> HIDE DEF old
<1>10. Tracked(f.instances[id], f.verdicts[id], id, s, a, n, e.time, old)
  <2> DEFINE now == s[n].time
  <2>1. ASSUME g.instances[id] # None  PROVE now \in Int /\ now <= e.time
    <3>1. PICK k : IsLatest(Seen(s, id, a, n), k)
      BY <1>7, <2>1 DEF Tracked
    <3>2. k \in a .. n
      BY <3>1 DEF IsLatest, Seen
    <3>3. n \in 1 .. n
      BY <1>8, <1>9, <3>2
    <3>4. s[n] \in Timely /\ s[n].time <= e.time
      BY <1>8, <3>3
    <3> QED  BY <3>4, TimelyTimes
  <2>2. Tracked(g.instances[id], g.verdicts[id], id, s, a, n, now, old)
    BY <1>7 DEF old
  <2> HIDE DEF now
  <2> QED  BY <1>1, <1>8, <1>9, <2>1, <2>2, TimeTracked DEF f, n
<1>11. /\ reclaimed => a <= n
       /\ Tracked(r.instances[id], r.verdicts[id], id, s, b, n, e.time, old1)
  BY <1>2, <1>8, <1>9, <1>10, ReclaimTracked DEF r
<1>12. reclaimed \in BOOLEAN
  OBVIOUS
<1>13. /\ WellCut(t, id, new)
       /\ IsLatest(Starts(t, id, new), c)
       /\ Old(t, id, new, c) = old1 \o Final2(t, e, id, b)
  <2>1. reclaimed => a <= Len(s)
    BY <1>11
  <2>2. IsLatest(Starts(s, id, cut), a)
    BY <1>7
  <2> HIDE DEF reclaimed
  <2> QED  BY <1>6, <1>12, <2>1, <2>2, HistoryGrows DEF old
<1>14. IsSequence(old1)
  <2>1. Few(Final1(s, e, id, a, reclaimed))
    BY FewFacts DEF Final1, Few
  <2> QED  BY <1>8, <2>1, FewMore
<1>15. b \in Nat /\ 1 <= b /\ b <= n + 1
  BY <1>8, <1>9 DEF Begun
<1> HIDE DEF old1, b, reclaimed, n
<1>16. Tracked(d.instances[id], d.verdicts[id], id, t, b, n + 1, e.time, old1)
  BY <1>4, <1>8, <1>11, <1>14, <1>15, DispatchTracked DEF d, n
<1>17. t \in Seq(Timely) /\ Len(t) = n + 1 /\ t[n + 1] = e /\ n + 1 + 1 = n + 2
  BY <1>8 DEF n
<1> HIDE DEF t
<1>18. Tracked(h.instances[id], h.verdicts[id], id, t, c, n + 1, e.time, old1 \o Final2(t, e, id, b))
  <2>1. Tracked(d.instances[id], d.verdicts[id], id, t, b, Len(t), e.time, old1)
    BY <1>16, <1>17
  <2>2. LET w == IF e.type \in TerminalTypes THEN RetireEntity(d, e) ELSE d
            x == IF Over(e, id) THEN Len(t) + 1 ELSE b
        IN Tracked(w.instances[id], w.verdicts[id], id, t, x, Len(t), e.time,
                   old1 \o Final2(t, e, id, b))
    BY <1>5, <1>14, <1>15, <1>17, <2>1, RetireTracked
  <2> QED  BY <1>3, <1>17, <2>2
<1> HIDE DEF c
<1>19. Book(h, id, t, new)
  BY <1>13, <1>17, <1>18 DEF Book
<1> QED  BY <1>19 DEF h, t, new, reclaimed, f

(* Latest finds the latest.                                                *)
LEMMA LatestIs ==
  ASSUME NEW I, I \subseteq Nat, NEW a, IsLatest(I, a)
  PROVE  Latest(I) = a
<1>1. a \in I /\ \A j \in I : j <= a
  BY DEF IsLatest
<1>2. Latest(I) \in I /\ \A j \in I : j <= Latest(I)
  BY <1>1 DEF Latest
<1>3. \A x, y \in Nat : x <= y /\ y <= x => x = y
  OBVIOUS
<1> QED  BY <1>1, <1>2, <1>3

(* The verdict of the newest lifetime.                                     *)
LEMMA NewestLife ==
  ASSUME NEW s, NEW id, NEW cut, WellCut(s, id, cut), NEW a, IsLatest(Starts(s, id, cut), a)
  PROVE  LET n == Len(s)
         IN /\ a \in Nat /\ 1 <= a
            /\ a <= n => Lives(s, id, cut)[a] = Said(s, id, a, n, s[n].time, FALSE)
            /\ Seen(s, id, a, n) = {} => Lives(s, id, cut)[a] = Meaning!Pending
            /\ Promised(s, id, cut) = Old(s, id, cut, a) \o AsList(Lives(s, id, cut)[a])
            /\ StillPending(s, id, cut) =
                 IF Lives(s, id, cut)[a].verdict = "pending" THEN Seen(s, id, a, n) ELSE {}
<1> DEFINE n == Len(s)
           S == Starts(s, id, cut)
           L == Lives(s, id, cut)
<1>1. /\ n \in Nat /\ S \subseteq 1 .. n + 1 /\ S \subseteq Nat /\ DOMAIN L = S
      /\ Ends(s, id) \subseteq 1 .. n /\ cut \subseteq 1 .. n
  BY StartsFacts DEF WellCut
<1>2. a \in S /\ \A i \in S : i <= a
  BY DEF IsLatest
<1>3. a \in Nat /\ 1 <= a /\ a <= n + 1
  <2>1. a \in 1 .. n + 1
    BY <1>1, <1>2
  <2> QED  BY <1>1, <2>1
<1>4. LastOf(s, id, cut, a) = n
  BY <1>2, LastOfIs
<1>5. L[a] = LifeOf(s, id, cut, a, n)
  BY <1>2, <1>4, StartsFacts
<1>6. n + 1 \notin cut
  BY <1>1
<1>7. ClockAt(s, cut, n) = s[n].time
  BY <1>6 DEF ClockAt
<1>8. n \in Ends(s, id) => n + 1 \in S
  BY DEF Starts
<1>9. a <= n => (n \in Ends(s, id)) = FALSE
  <2> HIDE DEF S
  <2> QED  BY <1>1, <1>2, <1>3, <1>8
<1>10. L[a] = Said(s, id, a, n, s[n].time, n \in Ends(s, id))
  BY <1>5, <1>7 DEF LifeOf
<1>11. Seen(s, id, a, n) = {} => L[a] = Meaning!Pending
  BY <1>10 DEF Said
<1> HIDE DEF S, L, n
<1>12. Promised(s, id, cut) = Old(s, id, cut, n + 2)
  <2>1. \A i \in S : i < n + 2
    BY <1>1
  <2>2. {i \in DOMAIN L : L[i].verdict # "pending"} = {i \in S : i < n + 2 /\ L[i].verdict # "pending"}
    BY <1>1, <2>1
  <2> QED  BY <2>2 DEF Promised, Old, DecidedBelow, S, L
<1>13. Old(s, id, cut, n + 2) = Old(s, id, cut, a) \o AsList(L[a])
  <2>1. a < n + 2 /\ n + 2 \in Int
    BY <1>1, <1>3
  <2>2. a \in Starts(s, id, cut) /\ \A i \in Starts(s, id, cut) : i <= a \/ n + 2 <= i
    BY <1>2 DEF S
  <2> QED  BY <2>1, <2>2, OldNext DEF L
<1>14. StillPending(s, id, cut) = IF L[a].verdict = "pending" THEN Seen(s, id, a, n) ELSE {}
  <2>1. IsLatest(S, a)
    BY <1>2 DEF IsLatest
  <2>2. Latest(DOMAIN L) = a
    BY <1>1, <2>1, LatestIs
  <2> QED  BY <2>2 DEF StillPending, L, n
<1> QED  BY <1>3, <1>9, <1>10, <1>11, <1>12, <1>13, <1>14 DEF L, n

(* What a book on an id amounts to: the verdicts are those promised, and   *)
(* the instance is undecided exactly if its lifetime is.                   *)
LEMMA BookSays ==
  ASSUME NEW g, NEW id \in Id, NEW s, NEW cut, Book(g, id, s, cut)
  PROVE  LET i == g.instances[id]
             pending == StillPending(s, id, cut)
         IN /\ g.verdicts[id] = Promised(s, id, cut)
            /\ IsSequence(g.verdicts[id])
            /\ id \in Pending(g) => pending # {} /\ s[Latest(pending)].time = i.last
            /\ id \notin Pending(g) => pending = {}
<1> DEFINE i == g.instances[id]
           n == Len(s)
           p == PolicyOf(id)
           pending == StillPending(s, id, cut)
<1>1. WellCut(s, id, cut) /\ s \in Seq(Timely) /\ n \in Nat /\ n \in Int /\ n <= Len(s) /\ p \in Policies
  BY PolicyOfId DEF Book, WellCut
<1>2. PICK a : /\ IsLatest(Starts(s, id, cut), a)
               /\ Tracked(g.instances[id], g.verdicts[id], id, s, a, Len(s), s[Len(s)].time,
                          Old(s, id, cut, a))
  BY DEF Book
<1> DEFINE old == Old(s, id, cut, a)
           v == Lives(s, id, cut)[a]
           tr == Trail(s, id, a, n)
<1>3. /\ a \in Nat /\ 1 <= a
      /\ a <= n => v = Said(s, id, a, n, s[n].time, FALSE)
      /\ Seen(s, id, a, n) = {} => v = Meaning!Pending
      /\ Promised(s, id, cut) = old \o AsList(v)
      /\ pending = IF v.verdict = "pending" THEN Seen(s, id, a, n) ELSE {}
  BY <1>1, <1>2, NewestLife
<1>4. IsSequence(old)
  BY <1>1, OldIsSequence
<1>5. Seen(s, id, a, n) \subseteq a .. n /\ tr \in Seq(Timely)
  BY <1>1, <1>3, TrailFacts
<1>6. Tracked(i, g.verdicts[id], id, s, a, n, s[n].time, old)
  BY <1>2
<1>7. IsSequence(Promised(s, id, cut))
  <2>1. Few(AsList(v))
    BY FewFacts
  <2> QED  BY <1>3, <1>4, <2>1, FewMore
<1>8. id \in Pending(g) <=> i # None /\ ~i.monitor.settled
  BY DEF Pending
<1> HIDE DEF old, v, pending, i, tr, n, p
<1>9. CASE i = None
  <2>1. Seen(s, id, a, n) = {} /\ g.verdicts[id] = old
    BY <1>6, <1>9 DEF Tracked
  <2>2. AsList(v) = <<>>
    BY <1>3, <2>1 DEF AsList, Meaning!Pending
  <2>3. old \o <<>> = old
    BY <1>4, AppendingNothing
  <2>4. pending = {}
    BY <1>3, <2>1
  <2> QED  BY <1>3, <1>7, <1>8, <1>9, <2>1, <2>2, <2>3, <2>4 DEF pending
<1>10. CASE i # None
  <2>1. PICK k : IsLatest(Seen(s, id, a, n), k) /\ i.last = s[k].time
    BY <1>6, <1>10 DEF Tracked
  <2>2. Delivered(i, g.verdicts[id], id, tr, s[n].time, old)
    BY <1>6, <1>10 DEF Tracked, tr
  <2>3. PICK own : g.verdicts[id] = old \o own /\ Abreast(p, i.monitor, tr, s[n].time, own)
    BY <2>2 DEF Delivered, p
  <2>4. /\ own = AsList(Meaning!Means(p, tr, s[n].time, FALSE))
        /\ i.monitor.settled => own # <<>>
        /\ ~i.monitor.settled => own = <<>>
    BY <1>1, <1>5, <2>3, AbreastSays
  <2>5. Seen(s, id, a, n) # {} /\ a <= n
    <3>1. k \in a .. n /\ k \in Seen(s, id, a, n)
      BY <1>5, <2>1 DEF IsLatest
    <3> QED  BY <1>1, <1>3, <3>1
  <2>6. v = Meaning!Means(p, tr, s[n].time, FALSE)
    BY <1>3, <2>5 DEF Said, tr, p, Trail
  <2>7. own = AsList(v) /\ (own = <<>> <=> v.verdict = "pending")
    BY <2>4, <2>6 DEF AsList
  <2>8. Latest(Seen(s, id, a, n)) = k
    <3>1. Seen(s, id, a, n) \subseteq Nat
      BY <1>1, <1>3, <1>5
    <3> QED  BY <2>1, <3>1, LatestIs
  <2>9. id \in Pending(g) => pending # {} /\ s[Latest(pending)].time = i.last
    BY <1>3, <1>8, <2>1, <2>4, <2>5, <2>7, <2>8
  <2>10. id \notin Pending(g) => pending = {}
    BY <1>3, <1>8, <1>10, <2>4, <2>7
  <2> QED  BY <1>3, <1>7, <2>3, <2>7, <2>9, <2>10 DEF pending, i
<1> QED  BY <1>9, <1>10
=============================================================================
