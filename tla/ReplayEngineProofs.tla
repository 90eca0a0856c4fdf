------------------------- MODULE ReplayEngineProofs -------------------------
(***************************************************************************)
(* The replay loop for every stream, grace, TTL, set of policies and keys: *)
(* what is handled is what was admitted, in canonical order; no deadline   *)
(* is forgotten; no instance outstays its TTL undecided; with a source in  *)
(* event-time order none is reclaimed early, and the verdicts of every id  *)
(* are those the operators define over its trace, lifetime by lifetime.    *)
(*                                                                         *)
(* With a window, the proofs follow each admitted event from its arrival   *)
(* to its place among those handled (Streamed); without one, the events    *)
(* are handled as they come (Passed).  What happens to timers is left to   *)
(* EngineProofs, what happens to one monitor to MonitorLifeProofs.  The    *)
(* last part (Booked) carries the book that EngineProofs keeps on an id    *)
(* through the steps of the loop.                                          *)
(***************************************************************************)
EXTENDS ReplayEngine, EngineProofs

-----------------------------------------------------------------------------
Shapes ==
  /\ buffered \in BOOLEAN
  /\ phase \in {"pulling", "flushed", "reported", "returned"}
  /\ arrived \in Seq(Event)
  /\ handled \in Seq(Timely)
  /\ batch \in Seq(Event) /\ (buffered => batch \in Seq(Timely))
  /\ Window(buffer)

-----------------------------------------------------------------------------
(* At the start everything is empty.                                       *)
LEMMA InitShapes == Init => Shapes
<1> SUFFICES ASSUME Init  PROVE Shapes
  OBVIOUS
<1> QED  BY EmptyWindow, EmptySeq DEF Init, Shapes

(* Pull pushes one event and takes what is ripe.                           *)
LEMMA PullShapes ==
  ASSUME Shapes, NEW e \in Event, Pull(e)
  PROVE  Shapes'
<1>1. arrived' \in Seq(Event)
  BY DEF Shapes, Pull
<1>2. CASE buffered
  <2> DEFINE b == Push(buffer, e)
  <2>1. Window(b)
    BY PushKeepsWindow DEF Shapes
  <2>2. buffer' = AfterReleasable(b) /\ batch' = Events(Releasable(b))
    BY <1>2 DEF Pull
  <2> HIDE DEF b
  <2>3. Window(buffer')
    BY <2>1, <2>2, ReleaseGives
  <2>4. batch' \in Seq(Timely)
    <3> DEFINE S == {x \in b.heap : x.event.time < Larger(b.watermark, b.maxSeen - Grace)}
    <3>1. Releasable(b) = InOrder(S) /\ S \subseteq b.heap
      BY <2>1, ReleaseGives
    <3> HIDE DEF S
    <3> QED  BY <2>1, <2>2, <3>1, PoppedEvents
  <2>5. batch' \in Seq(Event)
    BY <2>4 DEF Timely
  <2> QED  BY <1>1, <2>3, <2>4, <2>5 DEF Pull, Shapes
<1>3. CASE ~buffered
  <2>1. batch' = <<e>> /\ buffer' = buffer /\ buffered' = buffered /\ phase' = phase
        /\ handled' = handled
    BY <1>3 DEF Pull
  <2>2. batch' \in Seq(Event)
    BY <2>1
  <2> QED  BY <1>1, <1>3, <2>1, <2>2 DEF Shapes
<1> QED  BY <1>2, <1>3

(* One turn of the loop handles the first event of the batch.              *)
LEMMA HandleShapes ==
  ASSUME Shapes, HandleNext
  PROVE  /\ Shapes'
         /\ Head(batch) \in Event /\ (buffered => Head(batch) \in Timely)
         /\ handled' = IF UsableTime(Head(batch).time) THEN Append(handled, Head(batch)) ELSE handled
<1>1. batch # <<>> /\ batch' = Tail(batch)
  BY DEF HandleNext
<1>2. Head(batch) \in Event /\ Tail(batch) \in Seq(Event)
  BY <1>1 DEF Shapes
<1>3. buffered => Head(batch) \in Timely /\ Tail(batch) \in Seq(Timely)
  BY <1>1 DEF Shapes
<1>4. handled' = IF UsableTime(Head(batch).time) THEN Append(handled, Head(batch)) ELSE handled
  BY DEF HandleNext
<1>5. handled' \in Seq(Timely)
  BY <1>2, <1>4 DEF Shapes, Timely
<1> QED  BY <1>1, <1>2, <1>3, <1>4, <1>5 DEF HandleNext, Shapes

(* The flush hands over what is left.                                      *)
LEMMA EndShapes ==
  ASSUME Shapes, EndOfSource
  PROVE  Shapes'
<1>1. CASE buffered
  <2>1. Window(buffer')
    BY <1>1, FlushGives DEF Shapes, EndOfSource
  <2>2. batch' \in Seq(Timely)
    BY <1>1, PoppedEvents DEF Shapes, EndOfSource, Flush
  <2>3. batch' \in Seq(Event)
    BY <2>2 DEF Timely
  <2> QED  BY <1>1, <2>1, <2>2, <2>3 DEF Shapes, EndOfSource
<1>2. CASE ~buffered
  BY <1>2 DEF Shapes, EndOfSource
<1> QED  BY <1>1, <1>2

(* Every step keeps the variables in shape.                                *)
LEMMA StepShapes == Shapes /\ [Next]_vars => Shapes'
<1> SUFFICES ASSUME Shapes, [Next]_vars  PROVE Shapes'
  OBVIOUS
<1>1. ASSUME NEW e \in Event, Pull(e)  PROVE Shapes'
  BY <1>1, PullShapes
<1>2. CASE HandleNext
  BY <1>2, HandleShapes
<1>3. CASE EndOfSource
  BY <1>3, EndShapes
<1>4. ASSUME NEW p \in BOOLEAN, Return(p)  PROVE Shapes'
  BY <1>4 DEF Return, Shapes
<1>5. CASE UNCHANGED vars
  BY <1>5 DEF vars, Shapes
<1> QED  BY <1>1, <1>2, <1>3, <1>4, <1>5 DEF Next

-----------------------------------------------------------------------------
(* The engine of the loop is sound, and at the last handled event nothing  *)
(* is overdue.                                                             *)
Timers == EngineSound(eng) /\ NothingDue(eng, Now)

(* Every step keeps the timers, since one event handled does               *)
(* (HandlingIsSound).                                                      *)
LEMMA StepTimers == Shapes /\ Timers /\ [Next]_vars => Timers'
<1> SUFFICES ASSUME Shapes, Timers, [Next]_vars  PROVE Timers'
  OBVIOUS
<1>1. CASE UNCHANGED <<eng, handled>>
  BY <1>1 DEF Timers, Now
<1>2. CASE HandleNext
  <2> DEFINE e == Head(batch)
  <2>1. eng' = HandleEvent(eng, e)
    BY <1>2 DEF HandleNext
  <2>2. handled' = IF UsableTime(e.time) THEN Append(handled, e) ELSE handled
    BY <1>2, HandleShapes
  <2>3. e \in Event
    BY <1>2, HandleShapes
  <2> HIDE DEF e
  <2>4. CASE UsableTime(e.time)
    <3>1. e.time \in Int /\ e \in Timely
      BY <2>3, <2>4, TimelyTimes DEF Timely
    <3>2. Now' = e.time
      BY <2>2, <2>4, <3>1 DEF Now, Shapes
    <3> QED  BY <2>1, <3>1, <3>2, HandlingIsSound DEF Timers
  <2>5. CASE ~UsableTime(e.time)
    <3>1. eng' = [eng EXCEPT !.invalid = Append(@, e)] /\ Now' = Now
      BY <2>1, <2>2, <2>5 DEF HandleEvent, Now
    <3>2. /\ DOMAIN eng' = DOMAIN eng /\ eng'.instances = eng.instances
          /\ eng'.verdicts = eng.verdicts
          /\ eng'.deadlines = eng.deadlines /\ eng'.ttlTimers = eng.ttlTimers
      BY <3>1 DEF Timers, EngineSound, EngineShape, EmptyEngine
    <3> QED  BY <3>1, <3>2
             DEF Timers, EngineSound, EngineShape, NothingDue, Armed, DeadlineQueued,
                 TtlQueued, DecidedAtLast
  <2> QED  BY <2>4, <2>5
<1>3. ASSUME NEW p \in BOOLEAN, Return(p)  PROVE Timers'
  <2>1. handled' = handled /\ (eng' = eng \/ eng' = EmitPending(eng))
    BY <1>3 DEF Return
  <2>2. Now' = Now
    BY <2>1 DEF Now
  <2>3. CASE eng' = EmitPending(eng)
    BY <2>2, <2>3, EmitKeeps DEF Timers
  <2> QED  BY <2>1, <2>2, <2>3 DEF Timers
<1> QED  BY <1>1, <1>2, <1>3 DEF Next, vars, Pull, EndOfSource

(* The shape and the timers hold in every state of a run.                  *)
LEMMA TimersInvariant == Spec => [](Shapes /\ Timers)
<1>1. Init => Shapes /\ Timers
  BY InitShapes, EmptyIsSound DEF Init, Timers
<1>2. Shapes /\ Timers /\ [Next]_vars => (Shapes /\ Timers)'
  BY StepShapes, StepTimers
<1> QED  BY <1>1, <1>2, PTL DEF Spec

(* Every armed obligation has its deadline in the timer queue, and none is *)
(* overdue once an event has been handled: whatever else happened to the   *)
(* entity, its deadline fires at the first event that reaches it.  (A      *)
(* deadline of zero seconds is armed at its own moment.)                   *)
NothingForgotten ==
  \A id \in Id :
    Armed(eng, id) =>
      LET d == eng.instances[id].monitor.deadline
      IN /\ [when |-> d, id |-> id] \in eng.deadlines
         /\ d > Now \/ PolicyOf(id).seconds = 0

(* Of every run over a pull source, with and without a window              *)
(* (engine/loop.py, _fire_due_deadlines and _reschedule): no obligation    *)
(* that is armed lacks its deadline in the heap, none is overdue.          *)
THEOREM NoObligationIsForgotten == Spec => []NothingForgotten
<1>1. Timers => NothingForgotten
  <2> SUFFICES ASSUME Timers, NEW id \in Id, Armed(eng, id)
               PROVE  LET d == eng.instances[id].monitor.deadline
                      IN /\ [when |-> d, id |-> id] \in eng.deadlines
                         /\ d > Now \/ PolicyOf(id).seconds = 0
    BY DEF NothingForgotten
  <2>1. [when |-> eng.instances[id].monitor.deadline, id |-> id] \in eng.deadlines
    BY DEF Timers, EngineSound, DeadlineQueued
  <2>2. Now < eng.instances[id].monitor.deadline \/ PolicyOf(id).seconds = 0
    BY DEF Timers, NothingDue
  <2> QED  BY <2>1, <2>2
<1> QED  BY <1>1, TimersInvariant, PTL

(* Reclamation is no lazier than documented, for every TTL.                *)
THEOREM NoInstanceOutstays == Spec => []LingererIsDecided
<1>1. Shapes /\ Timers => LingererIsDecided
  <2> SUFFICES ASSUME Shapes, Timers, TTL # None, handled # <<>>, NEW id \in Id,
                      eng.instances[id] # None, eng.instances[id].last < Now,
                      Now - eng.instances[id].last >= TTL
               PROVE  DecidedAtLast(eng, id)
    BY DEF LingererIsDecided, DecidedAtLast
  <2>1. Now \in Int
    BY TimelyTimes DEF Shapes, Now
  <2>2. eng.instances[id].last \in Int /\ TTL \in Int
    BY EngineAssumption DEF Timers, EngineSound, EngineShape, InstanceShape
  <2>3. \/ DecidedAtLast(eng, id)
        \/ eng.instances[id].last = Now
        \/ Now < eng.instances[id].last + TTL
    BY DEF Timers, NothingDue
  <2> QED  BY <2>1, <2>2, <2>3
<1> QED  BY <1>1, TimersInvariant, PTL

-----------------------------------------------------------------------------
(* The arrivals a, and the buffer's view of them.  Adm: the admitted ones, *)
(* by index.  The window numbers the admitted events in arrival order; of  *)
(* the entries h it holds some (In), the others are out.                   *)
Adm(a) ==
  {i \in DOMAIN a : /\ UsableTime(a[i].time)
                    /\ \A j \in 1 .. i - 1 : UsableTime(a[j].time) =>
                         a[j].time <= a[i].time + Grace}
No(a, i) == Cardinality({j \in Adm(a) : j < i})
Numbers(a, I) == {Entry(a[i], No(a, i)) : i \in I}
Came(a, I) == {Entry(a[i], i) : i \in I}
In(a, h) == {i \in Adm(a) : Entry(a[i], No(a, i)) \in h}
Out(a, h) == Adm(a) \ In(a, h)

(* The positions of admitted events are numbered in their order.           *)
LEMMA AdmFacts ==
  ASSUME NEW a \in Seq(Event)
  PROVE  /\ Adm(a) \subseteq 1 .. Len(a) /\ IsFiniteSet(Adm(a))
         /\ Cardinality(Adm(a)) \in Nat
         /\ \A i \in Adm(a) : a[i] \in Timely /\ i \in Int /\ No(a, i) \in Nat
                              /\ No(a, i) < Cardinality(Adm(a))
         /\ \A i, j \in Adm(a) : i < j => No(a, i) < No(a, j)
<1>1. Adm(a) \subseteq 1 .. Len(a) /\ Len(a) \in Nat
  BY DEF Adm
<1>2. IsFiniteSet(Adm(a)) /\ Cardinality(Adm(a)) \in Nat
  <2>1. IsFiniteSet(1 .. Len(a))
    BY <1>1, UpTo
  <2> QED  BY <1>1, <2>1, FS_Subset, FS_CardinalityType
<1>3. \A i \in Adm(a) : a[i] \in Timely /\ i \in Int
  BY <1>1 DEF Adm, Timely
<1> DEFINE P(i) == {j \in Adm(a) : j < i}
<1>4. \A i : IsFiniteSet(P(i)) /\ Cardinality(P(i)) \in Nat
  <2> TAKE i
  <2>1. P(i) \in SUBSET Adm(a)
    OBVIOUS
  <2> QED  BY <1>2, <2>1, FS_Subset, FS_CardinalityType
<1>5. \A i \in Adm(a) : No(a, i) < Cardinality(Adm(a))
  <2> TAKE i \in Adm(a)
  <2>1. P(i) \in SUBSET Adm(a) /\ i \notin P(i)
    BY <1>3
  <2>2. Cardinality(P(i)) <= Cardinality(Adm(a)) /\ (Cardinality(Adm(a)) = Cardinality(P(i)) => FALSE)
    BY <1>2, <2>1, FS_Subset
  <2> HIDE DEF P
  <2>3. Cardinality(P(i)) < Cardinality(Adm(a))
    BY <1>2, <1>4, <2>2
  <2> QED  BY <2>3 DEF No, P
<1>6. \A i, j \in Adm(a) : i < j => No(a, i) < No(a, j)
  <2> SUFFICES ASSUME NEW i \in Adm(a), NEW j \in Adm(a), i < j
               PROVE  No(a, i) < No(a, j)
    OBVIOUS
  <2>1. P(i) \in SUBSET P(j) /\ i \in P(j) /\ i \notin P(i)
    BY <1>3
  <2>2. Cardinality(P(i)) <= Cardinality(P(j)) /\ (Cardinality(P(j)) = Cardinality(P(i)) => FALSE)
    BY <1>4, <2>1, FS_Subset
  <2> HIDE DEF P
  <2>3. Cardinality(P(i)) < Cardinality(P(j))
    BY <1>4, <2>2
  <2> QED  BY <2>3 DEF No, P
<1>7. \A i \in Adm(a) : No(a, i) \in Nat
  BY <1>4 DEF No
<1> QED  BY <1>1, <1>2, <1>3, <1>5, <1>6, <1>7

(* One more arrival fits when no earlier one is newer by more than the     *)
(* grace; the numbers of the others do not change.                         *)
Fits(a, e) ==
  /\ UsableTime(e.time)
  /\ \A j \in DOMAIN a : UsableTime(a[j].time) => a[j].time <= e.time + Grace

(* One more arrival is one more position at most, with the next number.    *)
LEMMA AdmGrows ==
  ASSUME NEW a \in Seq(Event), NEW e \in Event, NEW c, c = Append(a, e)
  PROVE  /\ c \in Seq(Event) /\ Len(c) = Len(a) + 1 /\ c[Len(a) + 1] = e
         /\ \A i \in 1 .. Len(a) : c[i] = a[i]
         /\ Adm(c) = Adm(a) \cup (IF Fits(a, e) THEN {Len(a) + 1} ELSE {})
         /\ \A i \in Adm(a) : No(c, i) = No(a, i)
         /\ Fits(a, e) => No(c, Len(a) + 1) = Cardinality(Adm(a))
<1> DEFINE n == Len(a)
<1>1. n \in Nat /\ DOMAIN a = 1 .. n
  OBVIOUS
<1>2. /\ c \in Seq(Event) /\ Len(c) = n + 1 /\ c[n + 1] = e
      /\ \A i \in 1 .. n : c[i] = a[i]
  OBVIOUS
<1>3. DOMAIN c = 1 .. n + 1
  BY <1>2
<1> HIDE DEF n
<1>4. \A i \in 1 .. n : i \in Adm(c) <=> i \in Adm(a)
  <2> TAKE i \in 1 .. n
  <2>1. \A j \in 1 .. i - 1 : j \in 1 .. n
    BY <1>1
  <2>2. i \in DOMAIN a /\ i \in DOMAIN c
    BY <1>1, <1>3
  <2> QED  BY <1>2, <2>1, <2>2 DEF Adm
<1>5. n + 1 \in Adm(c) <=> Fits(a, e)
  <2>1. 1 .. (n + 1) - 1 = 1 .. n /\ n + 1 \in DOMAIN c
    BY <1>1, <1>3
  <2> QED  BY <1>1, <1>2, <2>1 DEF Adm, Fits
<1>6. Adm(a) \subseteq 1 .. n /\ Adm(c) \subseteq 1 .. n + 1
  BY <1>1, <1>3 DEF Adm
<1>7. \A i \in 1 .. n + 1 : i \in 1 .. n \/ i = n + 1
  BY <1>1
<1>8. Adm(c) = Adm(a) \cup (IF Fits(a, e) THEN {n + 1} ELSE {})
  <2>1. \A i : i \in Adm(c) <=> i \in Adm(a) \/ (Fits(a, e) /\ i = n + 1)
    BY <1>4, <1>5, <1>6, <1>7
  <2> QED  BY <2>1
<1>9. ASSUME NEW i \in 1 .. n + 1
      PROVE  {j \in Adm(c) : j < i} = {j \in Adm(a) : j < i}
  <2>1. ~(n + 1 < i)
    BY <1>1
  <2> QED  BY <1>8, <2>1
<1>10. \A i \in Adm(a) : No(c, i) = No(a, i)
  <2> TAKE i \in Adm(a)
  <2>1. i \in 1 .. n + 1
    BY <1>1, <1>6
  <2> QED  BY <1>9, <2>1 DEF No
<1>11. No(c, n + 1) = Cardinality(Adm(a))
  <2>1. n + 1 \in 1 .. n + 1
    BY <1>1
  <2>2. {j \in Adm(a) : j < n + 1} = Adm(a)
    BY <1>1, <1>6
  <2> QED  BY <1>9, <2>1, <2>2 DEF No
<1> QED  BY <1>2, <1>8, <1>10, <1>11 DEF n

(* Entries made of the arrivals I, with either numbering.                  *)
LEMMA EntriesOf ==
  ASSUME NEW a \in Seq(Event), NEW I, I \subseteq Adm(a)
  PROVE  /\ IsFiniteSet(Came(a, I)) /\ Comparable(Came(a, I)) /\ Numbered(Came(a, I))
         /\ Comparable(Numbers(a, I)) /\ Numbered(Numbers(a, I))
         /\ \A i \in I : Entry(a[i], i).event = a[i] /\ Entry(a[i], i).seq = i
<1>1. \A i \in I : a[i] \in Timely /\ i \in Int /\ No(a, i) \in Int
  BY AdmFacts
<1>2. \A i \in I : /\ Entry(a[i], i).event = a[i] /\ Entry(a[i], i).seq = i
                   /\ Entry(a[i], No(a, i)).event = a[i]
                   /\ Entry(a[i], No(a, i)).seq = No(a, i)
  BY DEF Entry
<1>3. \A i, j \in I : No(a, i) = No(a, j) => i = j
  <2> TAKE i \in I, j \in I
  <2>1. i < j \/ j < i \/ i = j
    BY <1>1
  <2>2. (i < j => No(a, i) < No(a, j)) /\ (j < i => No(a, j) < No(a, i))
    BY AdmFacts
  <2> QED  BY <1>1, <2>1, <2>2
<1>4. Comparable(Came(a, I)) /\ Numbered(Came(a, I))
  BY <1>1, <1>2, TimelyTimes DEF Came, Comparable, Numbered
<1>5. Comparable(Numbers(a, I)) /\ Numbered(Numbers(a, I))
  BY <1>1, <1>2, <1>3, TimelyTimes DEF Numbers, Comparable, Numbered
<1>6. IsFiniteSet(Came(a, I))
  <2>1. IsFiniteSet(I)
    BY AdmFacts, FS_Subset
  <2> DEFINE f == [i \in I |-> Entry(a[i], i)]
  <2>2. f \in [I -> Came(a, I)] /\ \A y \in Came(a, I) : \E i \in I : f[i] = y
    BY DEF Came
  <2> HIDE DEF f
  <2> QED  BY <2>1, <2>2, FiniteImage
<1> QED  BY <1>2, <1>4, <1>5, <1>6

(* Which numbering is used makes no difference to the events popped.       *)
LEMMA SameEvents ==
  ASSUME NEW a \in Seq(Event), NEW I, I \subseteq Adm(a)
  PROVE  Events(InOrder(Numbers(a, I))) = Events(InOrder(Came(a, I)))
<1> DEFINE S == Came(a, I)
           T == Numbers(a, I)
           f == [x \in S |-> Entry(x.event, No(a, x.seq))]
<1>1. IsFiniteSet(S) /\ Comparable(S) /\ Numbered(S) /\ Comparable(T) /\ Numbered(T)
  BY EntriesOf
<1>2. \A x \in S : \E i \in I : x = Entry(a[i], i) /\ x.event = a[i] /\ x.seq = i
  <2> SUFFICES ASSUME NEW j \in I
               PROVE  LET x == Entry(a[j], j)
                      IN \E i \in I : x = Entry(a[i], i) /\ x.event = a[i] /\ x.seq = i
    BY DEF Came
  <2>1. Entry(a[j], j).event = a[j] /\ Entry(a[j], j).seq = j
    BY EntriesOf
  <2> QED  BY <2>1
<1>3. \A i \in I : Entry(a[i], i) \in S /\ f[Entry(a[i], i)] = Entry(a[i], No(a, i))
  <2> TAKE i \in I
  <2>1. Entry(a[i], i) \in S
    BY DEF Came
  <2>2. Entry(a[i], i).event = a[i] /\ Entry(a[i], i).seq = i
    BY EntriesOf
  <2> QED  BY <2>1, <2>2
<1>4. f \in [S -> T]
  <2>1. \A x \in S : Entry(x.event, No(a, x.seq)) \in T
    BY <1>2 DEF Numbers
  <2> QED  BY <2>1
<1>5. \A y \in T : \E x \in S : f[x] = y
  <2> SUFFICES ASSUME NEW i \in I  PROVE \E x \in S : f[x] = Entry(a[i], No(a, i))
    BY DEF Numbers
  <2> HIDE DEF f, S
  <2> QED  BY <1>3
<1>6. \A x \in S : f[x].event = x.event /\ f[x].seq = No(a, x.seq)
  BY DEF Entry
<1>7. \A x \in S : x.seq \in Adm(a)
  BY <1>2
<1> HIDE DEF f, S, T
<1>8. ASSUME NEW x \in S, NEW y \in S, Before(x, y)
      PROVE  Before(f[x], f[y])
  <2>1. x.seq < y.seq => No(a, x.seq) < No(a, y.seq)
    BY <1>7, AdmFacts
  <2> QED  BY <1>6, <1>8, <2>1 DEF Before
<1>9. /\ Len(InOrder(T)) = Len(InOrder(S)) /\ Len(InOrder(S)) = Cardinality(S)
      /\ \A i \in 1 .. Len(InOrder(S)) : InOrder(T)[i].event = InOrder(S)[i].event
      /\ IsFiniteSet(T)
  BY <1>1, <1>4, <1>5, <1>6, <1>8, InOrderRenumbered
<1>10. InOrder(S) \in Seq(S) /\ InOrder(T) \in Seq(T)
  BY <1>1, <1>9, InOrderIsSorted
<1>11. DOMAIN InOrder(S) = 1 .. Len(InOrder(S)) /\ DOMAIN InOrder(T) = 1 .. Len(InOrder(T))
  BY <1>10
<1>12. Events(InOrder(T)) = Events(InOrder(S))
  BY <1>9, <1>11 DEF Events
<1> QED  BY <1>12 DEF S, T

(* The window b follows the arrivals a, and s is what it has released: the *)
(* admitted events it no longer holds, in canonical order, all of them     *)
(* below the watermark and none of those it holds.                         *)
Followed(a, b, s) ==
  /\ b.seq = Cardinality(Adm(a))
  /\ b.heap \subseteq Numbers(a, Adm(a))
  /\ s = Events(InOrder(Came(a, Out(a, b.heap))))
  /\ \A i \in Out(a, b.heap) : a[i].time < b.watermark
  /\ \A i \in In(a, b.heap) : b.watermark <= a[i].time

(* max_seen is the newest usable time among the arrivals.                  *)
Newest(a, b) ==
  /\ NegInf <= b.maxSeen /\ b.maxSeen < PosInf
  /\ \A j \in DOMAIN a : UsableTime(a[j].time) => a[j].time <= b.maxSeen
  /\ \/ b.maxSeen = NegInf
     \/ \E j \in DOMAIN a : UsableTime(a[j].time) /\ a[j].time = b.maxSeen
Clocked(b) == b.watermark = Larger(NegInf, b.maxSeen - Grace)

(* The entries a window holds are those of the arrivals In it.             *)
LEMMA HeldIsIn ==
  ASSUME NEW a, NEW h, h \subseteq Numbers(a, Adm(a))
  PROVE  h = Numbers(a, In(a, h))
<1>1. \A x \in h : \E i \in Adm(a) : x = Entry(a[i], No(a, i))
  BY DEF Numbers
<1>2. \A x \in h : x \in Numbers(a, In(a, h))
  <2> TAKE x \in h
  <2>1. PICK i \in Adm(a) : x = Entry(a[i], No(a, i))
    BY <1>1
  <2>2. i \in In(a, h)
    BY <2>1 DEF In
  <2> QED  BY <2>1, <2>2 DEF Numbers
<1>3. \A i \in In(a, h) : Entry(a[i], No(a, i)) \in h
  BY DEF In
<1>4. \A x \in Numbers(a, In(a, h)) : x \in h
  BY <1>3 DEF Numbers
<1> QED  BY <1>2, <1>4

(* The late test refuses exactly the events that do not fit.               *)
LEMMA LateIsUnfit ==
  ASSUME NEW a \in Seq(Event), NEW b, Window(b), Newest(a, b), Clocked(b), NEW e \in Timely
  PROVE  Fits(a, e) <=> ~(e.time < b.watermark)
<1>1. /\ e.time \in Int /\ NegInf < e.time /\ NegInf \in Int /\ Grace \in Nat
      /\ b.maxSeen \in Int
  BY TimelyTimes, BufferAssumption DEF Window, BufferType
<1>2. e.time < b.watermark <=> e.time + Grace < b.maxSeen
  BY <1>1 DEF Clocked, Larger
<1>3. \A j \in DOMAIN a : UsableTime(a[j].time) => a[j].time \in Int
  <2> TAKE j \in DOMAIN a
  <2>1. a[j] \in Event
    OBVIOUS
  <2> QED  BY <2>1, TimelyTimes DEF Timely
<1>4. ASSUME e.time + Grace < b.maxSeen  PROVE ~Fits(a, e)
  <2>1. b.maxSeen # NegInf
    BY <1>1, <1>4
  <2>2. PICK j \in DOMAIN a : UsableTime(a[j].time) /\ a[j].time = b.maxSeen
    BY <2>1 DEF Newest
  <2> QED  BY <1>1, <1>4, <2>2 DEF Fits
<1>5. ASSUME ~(e.time + Grace < b.maxSeen)  PROVE Fits(a, e)
  <2>1. \A j \in DOMAIN a : UsableTime(a[j].time) => a[j].time <= e.time + Grace
    BY <1>1, <1>3, <1>5 DEF Newest
  <2> QED  BY <2>1 DEF Fits, Timely
<1> QED  BY <1>2, <1>4, <1>5

(* An arrival that does not fit changes nothing the window holds.          *)
LEMMA UnfitFollows ==
  ASSUME NEW a \in Seq(Event), NEW e \in Event, ~Fits(a, e), NEW s,
         NEW b, Followed(a, b, s), NEW d,
         d.heap = b.heap, d.seq = b.seq, d.watermark = b.watermark
  PROVE  Followed(Append(a, e), d, s)
<1> DEFINE c == Append(a, e)
<1>1. Adm(c) = Adm(a) /\ \A i \in Adm(a) : c[i] = a[i] /\ No(c, i) = No(a, i)
  <2>1. c = Append(a, e)
    OBVIOUS
  <2> HIDE DEF c
  <2>2. \A i \in 1 .. Len(a) : c[i] = a[i]
    BY <2>1, AdmGrows
  <2>3. Adm(c) = Adm(a) \cup (IF Fits(a, e) THEN {Len(a) + 1} ELSE {})
    BY <2>1, AdmGrows
  <2>4. \A i \in Adm(a) : No(c, i) = No(a, i)
    <3>1. \A q : q = Append(a, e) => \A i \in Adm(a) : No(q, i) = No(a, i)
      BY AdmGrows
    <3> QED  BY <2>1, <3>1
  <2>5. Adm(a) \subseteq 1 .. Len(a)
    BY AdmFacts
  <2> QED  BY <2>2, <2>3, <2>4, <2>5
<1> HIDE DEF c
<1>2. Numbers(c, Adm(c)) = Numbers(a, Adm(a))
  BY <1>1 DEF Numbers
<1>3. In(c, d.heap) = In(a, b.heap)
  BY <1>1 DEF In
<1>4. Out(c, d.heap) = Out(a, b.heap)
  BY <1>1, <1>3 DEF Out
<1>5. Came(c, Out(c, d.heap)) = Came(a, Out(a, b.heap))
  BY <1>1, <1>4 DEF Came, Out
<1>6. \A i \in In(a, b.heap) \cup Out(a, b.heap) : c[i] = a[i]
  BY <1>1 DEF In, Out
<1> QED  BY <1>1, <1>2, <1>3, <1>4, <1>5, <1>6 DEF Followed, c

(* One that fits is held, with the next number.                            *)
LEMMA FitFollows ==
  ASSUME NEW a \in Seq(Event), NEW e \in Event, Fits(a, e), NEW s,
         NEW b, Followed(a, b, s), ~(e.time < b.watermark),
         b.watermark \in Int, e.time \in Int, NEW d,
         d.heap = b.heap \cup {Entry(e, b.seq)}, d.seq = b.seq + 1, d.watermark = b.watermark
  PROVE  Followed(Append(a, e), d, s)
<1> DEFINE c == Append(a, e)
           n == Len(a) + 1
           x == Entry(e, b.seq)
<1>1. /\ Adm(c) = Adm(a) \cup {n} /\ c[n] = e /\ No(c, n) = Cardinality(Adm(a))
      /\ \A i \in Adm(a) : c[i] = a[i] /\ No(c, i) = No(a, i)
  <2>1. c = Append(a, e)
    OBVIOUS
  <2> HIDE DEF c
  <2>2. c[n] = e /\ \A i \in 1 .. Len(a) : c[i] = a[i]
    BY <2>1, AdmGrows
  <2>3. Adm(c) = Adm(a) \cup (IF Fits(a, e) THEN {n} ELSE {})
    BY <2>1, AdmGrows
  <2>4. \A i \in Adm(a) : No(c, i) = No(a, i)
    <3>1. \A q : q = Append(a, e) => \A i \in Adm(a) : No(q, i) = No(a, i)
      BY AdmGrows
    <3> QED  BY <2>1, <3>1
  <2>5. Fits(a, e) => No(c, n) = Cardinality(Adm(a))
    BY <2>1, AdmGrows
  <2>6. Adm(a) \subseteq 1 .. Len(a)
    BY AdmFacts
  <2> QED  BY <2>2, <2>3, <2>4, <2>5, <2>6
<1>2. /\ IsFiniteSet(Adm(a)) /\ Cardinality(Adm(a)) \in Nat /\ n \notin Adm(a)
      /\ \A i \in Adm(a) : No(a, i) \in Nat /\ No(a, i) < Cardinality(Adm(a))
  BY AdmFacts
<1> HIDE DEF c, n
<1>3. b.seq = Cardinality(Adm(a))
  BY DEF Followed
<1>4. x = Entry(c[n], No(c, n)) /\ x.seq = b.seq
  BY <1>1, <1>3 DEF Entry
<1>5. \A i \in Adm(a) : Entry(a[i], No(a, i)) # x
  BY <1>2, <1>3 DEF Entry
<1> HIDE DEF x
<1>6. d.seq = Cardinality(Adm(c))
  <2>1. Cardinality(Adm(a) \cup {n}) = Cardinality(Adm(a)) + 1
    BY <1>2, FS_AddElement
  <2> QED  BY <1>1, <1>3, <2>1
<1>7. d.heap \subseteq Numbers(c, Adm(c))
  <2>1. Numbers(a, Adm(a)) \subseteq Numbers(c, Adm(c))
    BY <1>1 DEF Numbers
  <2>2. x \in Numbers(c, Adm(c))
    BY <1>1, <1>4 DEF Numbers
  <2> QED  BY <2>1, <2>2 DEF Followed, x
<1>8. In(c, d.heap) = In(a, b.heap) \cup {n}
  <2>1. \A i \in Adm(a) : i \in In(c, d.heap) <=> i \in In(a, b.heap)
    BY <1>1, <1>5 DEF In, x
  <2>2. n \in In(c, d.heap)
    BY <1>1, <1>4 DEF In, x
  <2>3. In(c, d.heap) \subseteq Adm(a) \cup {n} /\ In(a, b.heap) \subseteq Adm(a)
    BY <1>1 DEF In
  <2> QED  BY <2>1, <2>2, <2>3
<1>9. Out(c, d.heap) = Out(a, b.heap)
  BY <1>1, <1>2, <1>8 DEF Out
<1>10. Came(c, Out(c, d.heap)) = Came(a, Out(a, b.heap))
  BY <1>1, <1>9 DEF Came, Out
<1>11. \A i \in Out(c, d.heap) : c[i].time < d.watermark
  BY <1>1, <1>9 DEF Followed, Out
<1>12. \A i \in In(c, d.heap) : d.watermark <= c[i].time
  BY <1>1, <1>8 DEF Followed, In
<1> QED  BY <1>6, <1>7, <1>10, <1>11, <1>12 DEF Followed, c

(* push() keeps up with one more arrival and releases nothing.             *)
LEMMA PushFollows ==
  ASSUME NEW a \in Seq(Event), NEW e \in Event, NEW s,
         NEW b, Window(b), Newest(a, b), Clocked(b), Followed(a, b, s)
  PROVE  /\ Followed(Append(a, e), Push(b, e), s)
         /\ Newest(Append(a, e), Push(b, e))
         /\ Push(b, e).watermark = b.watermark /\ b.maxSeen <= Push(b, e).maxSeen
<1> DEFINE c == Append(a, e)
           d == Push(b, e)
           n == Len(a) + 1
<1>1. b \in BufferType
  BY DEF Window
<1>2. DOMAIN c = DOMAIN a \cup {n} /\ c[n] = e /\ \A i \in DOMAIN a : c[i] = a[i]
  OBVIOUS
<1>3. \A j \in DOMAIN a : a[j] \in Event
  OBVIOUS
<1> HIDE DEF c, n
<1>4. CASE ~UsableTime(e.time)
  <2>1. d = [b EXCEPT !.invalid = Append(@, e)]
    BY <1>4, PushKeepsWindow
  <2>2. /\ d.heap = b.heap /\ d.seq = b.seq /\ d.watermark = b.watermark
        /\ d.maxSeen = b.maxSeen
    BY <1>1, <2>1 DEF BufferType
  <2>3. ~Fits(a, e)
    BY <1>4 DEF Fits
  <2> HIDE DEF d
  <2>4. Followed(c, d, s)
    BY <2>2, <2>3, UnfitFollows DEF c
  <2>5. Newest(c, d)
    BY <1>2, <1>4, <2>2 DEF Newest
  <2>6. b.maxSeen <= b.maxSeen
    BY <1>1 DEF BufferType
  <2> QED  BY <2>2, <2>4, <2>5, <2>6 DEF c, d
<1>5. CASE UsableTime(e.time)
  <2>1. e \in Timely /\ e.time \in Int /\ e.time < PosInf /\ NegInf < e.time
    BY <1>5, TimelyTimes DEF Timely
  <2>2. b.maxSeen \in Int /\ b.watermark \in Int /\ Grace \in Nat /\ NegInf \in Int
    BY <1>1, BufferAssumption DEF BufferType
  <2>3. Fits(a, e) <=> ~(e.time < b.watermark)
    BY <2>1, LateIsUnfit
  <2>4. CASE e.time < b.watermark
    <3>1. d = [b EXCEPT !.late = Append(@, e)]
      BY <1>5, <2>4, PushKeepsWindow
    <3>2. /\ d.heap = b.heap /\ d.seq = b.seq /\ d.watermark = b.watermark
          /\ d.maxSeen = b.maxSeen
      BY <1>1, <3>1 DEF BufferType
    <3> HIDE DEF d
    <3>3. Followed(c, d, s)
      BY <2>3, <2>4, <3>2, UnfitFollows DEF c
    <3>4. e.time <= b.maxSeen
      BY <2>1, <2>2, <2>4 DEF Clocked, Larger
    <3>5. Newest(c, d)
      BY <1>2, <3>2, <3>4 DEF Newest
    <3> QED  BY <2>2, <3>2, <3>3, <3>5 DEF c, d
  <2>5. CASE ~(e.time < b.watermark)
    <3>1. d = [b EXCEPT !.heap = @ \cup {Entry(e, b.seq)}, !.seq = @ + 1,
                        !.maxSeen = Larger(@, e.time)]
      BY <1>5, <2>5, PushKeepsWindow
    <3>2. /\ d.heap = b.heap \cup {Entry(e, b.seq)} /\ d.seq = b.seq + 1
          /\ d.watermark = b.watermark /\ d.maxSeen = Larger(b.maxSeen, e.time)
      BY <1>1, <3>1 DEF BufferType
    <3> HIDE DEF d
    <3>3. Followed(c, d, s)
      BY <2>1, <2>2, <2>3, <2>5, <3>2, FitFollows DEF c
    <3>4. /\ b.maxSeen <= d.maxSeen /\ e.time <= d.maxSeen
          /\ d.maxSeen = b.maxSeen \/ d.maxSeen = e.time
      BY <2>1, <2>2, <3>2 DEF Larger
    <3>5. \A j \in DOMAIN a : UsableTime(a[j].time) => a[j].time \in Int
      BY <1>3, TimelyTimes DEF Timely
    <3>6. d.maxSeen \in Int
      BY <2>1, <2>2, <3>4
    <3>7. \A j \in DOMAIN a : UsableTime(a[j].time) => a[j].time <= d.maxSeen
      BY <2>2, <3>4, <3>5, <3>6 DEF Newest
    <3>8. NegInf <= d.maxSeen /\ d.maxSeen < PosInf
      BY <2>1, <2>2, <3>4, <3>6 DEF Newest
    <3>9. d.maxSeen = NegInf \/ \E j \in DOMAIN c : UsableTime(c[j].time) /\ c[j].time = d.maxSeen
      BY <1>2, <1>5, <3>4 DEF Newest
    <3>10. \A j \in DOMAIN c : UsableTime(c[j].time) => c[j].time <= d.maxSeen
      BY <1>2, <3>4, <3>7
    <3>11. Newest(c, d)
      BY <3>8, <3>9, <3>10 DEF Newest
    <3> QED  BY <3>2, <3>3, <3>4, <3>11 DEF c, d
  <2> QED  BY <2>4, <2>5
<1> QED  BY <1>4, <1>5

(* What is released up to the watermark w comes after all that was, and    *)
(* what stays is not below it.                                             *)
LEMMA ReleaseFollows ==
  ASSUME NEW a \in Seq(Event), NEW s, NEW b, Window(b), Followed(a, b, s), NEW w \in Int,
         \A i \in Out(a, b.heap) : a[i].time < w,
         NEW S, S = {x \in b.heap : x.event.time < w}, NEW d,
         d.heap = b.heap \ S, d.seq = b.seq, d.watermark = w
  PROVE  Followed(a, d, s \o Events(InOrder(S)))
<1> DEFINE h == b.heap
           O == Out(a, h)
           R == {i \in In(a, h) : a[i].time < w}
<1>1. h = Numbers(a, In(a, h)) /\ h \subseteq Numbers(a, Adm(a))
  BY HeldIsIn DEF Followed
<1>2. In(a, h) \subseteq Adm(a) /\ O = Adm(a) \ In(a, h) /\ R \subseteq In(a, h)
  BY DEF In, Out
<1>3. \A i \in Adm(a) : Entry(a[i], No(a, i)).event = a[i]
  BY DEF Entry
<1>4. \A i, j \in Adm(a) : Entry(a[i], No(a, i)) = Entry(a[j], No(a, j)) => i = j
  <2> TAKE i \in Adm(a), j \in Adm(a)
  <2>1. i \in Int /\ j \in Int /\ No(a, i) \in Nat /\ No(a, j) \in Nat
    BY AdmFacts
  <2>2. (i < j => No(a, i) < No(a, j)) /\ (j < i => No(a, j) < No(a, i))
    BY AdmFacts
  <2>3. No(a, i) = No(a, j) => i = j
    BY <2>1, <2>2
  <2> QED  BY <2>3 DEF Entry
<1>5. \A i \in Adm(a) : Entry(a[i], No(a, i)) \in S <=> i \in R
  BY <1>1, <1>3 DEF In
<1>6. In(a, d.heap) = In(a, h) \ R
  <2>1. \A i \in Adm(a) : Entry(a[i], No(a, i)) \in d.heap <=> i \in In(a, h) /\ i \notin R
    BY <1>5 DEF In
  <2> QED  BY <1>2, <2>1 DEF In
<1>7. Out(a, d.heap) = O \cup R
  BY <1>2, <1>6 DEF Out
<1>8. S = Numbers(a, R)
  <2>1. \A x \in h : \E i \in In(a, h) : x = Entry(a[i], No(a, i))
    BY <1>1 DEF Numbers
  <2>2. \A x \in S : x \in Numbers(a, R)
    <3> TAKE x \in S
    <3>1. PICK i \in In(a, h) : x = Entry(a[i], No(a, i))
      BY <2>1
    <3>2. i \in R
      BY <1>2, <1>5, <3>1
    <3> QED  BY <3>1, <3>2 DEF Numbers
  <2>3. \A i \in R : Entry(a[i], No(a, i)) \in S
    BY <1>2, <1>5
  <2>4. \A x \in Numbers(a, R) : x \in S
    BY <2>3 DEF Numbers
  <2> QED  BY <2>2, <2>4
<1> DEFINE T == Came(a, O)
           U == Came(a, R)
<1>9. /\ O \subseteq Adm(a) /\ R \subseteq Adm(a) /\ O \cup R \subseteq Adm(a)
      /\ Came(a, O \cup R) = T \cup U
  BY <1>2 DEF Came
<1>10. /\ IsFiniteSet(T) /\ IsFiniteSet(U)
       /\ Comparable(T) /\ Numbered(T) /\ Comparable(U) /\ Numbered(U)
       /\ Comparable(T \cup U) /\ Numbered(T \cup U)
  <2> HIDE DEF O, R
  <2>1. IsFiniteSet(T) /\ Comparable(T) /\ Numbered(T)
    BY <1>9, EntriesOf
  <2>2. IsFiniteSet(U) /\ Comparable(U) /\ Numbered(U)
    BY <1>9, EntriesOf
  <2>3. Comparable(Came(a, O \cup R)) /\ Numbered(Came(a, O \cup R))
    BY <1>9, EntriesOf
  <2> QED  BY <1>9, <2>1, <2>2, <2>3
<1>11. \A x \in T, y \in U : Before(x, y)
  <2>1. \A i \in O, j \in R : a[i].time < a[j].time
    <3> TAKE i \in O, j \in R
    <3>1. a[i].time < b.watermark /\ b.watermark <= a[j].time
      BY DEF Followed
    <3>2. a[i].time \in Int /\ a[j].time \in Int /\ b.watermark \in Int
      BY <1>9, AdmFacts, TimelyTimes DEF Window, BufferType
    <3> QED  BY <3>1, <3>2
  <2> HIDE DEF O, R
  <2> SUFFICES ASSUME NEW i \in O, NEW j \in R
               PROVE  Before(Entry(a[i], i), Entry(a[j], j))
    BY DEF Came
  <2> QED  BY <2>1 DEF Before, Entry
<1> HIDE DEF O, R, h
<1>12. InOrder(T \cup U) = InOrder(T) \o InOrder(U)
  BY <1>10, <1>11, InOrderOfParts
<1>13. InOrder(T) \in Seq(T) /\ InOrder(U) \in Seq(U)
  BY <1>10, InOrderIsSorted
<1>14. Events(InOrder(T) \o InOrder(U)) = Events(InOrder(T)) \o Events(InOrder(U))
  BY <1>13, EventsOfBoth
<1>15. Events(InOrder(U)) = Events(InOrder(S))
  BY <1>8, <1>9, SameEvents
<1>16. s = Events(InOrder(T))
  BY DEF Followed, O, h
<1>17. s \o Events(InOrder(S)) = Events(InOrder(Came(a, Out(a, d.heap))))
  BY <1>7, <1>9, <1>12, <1>14, <1>15, <1>16
<1>18. \A i \in Out(a, d.heap) : a[i].time < d.watermark
  BY <1>7 DEF O, R, h
<1>19. \A i \in In(a, d.heap) : d.watermark <= a[i].time
  <2> TAKE i \in In(a, d.heap)
  <2>1. i \in In(a, h) /\ ~(a[i].time < w)
    BY <1>6 DEF R
  <2>2. a[i].time \in Int
    BY <1>2, <2>1, AdmFacts, TimelyTimes
  <2> QED  BY <2>1, <2>2
<1>20. d.heap \subseteq Numbers(a, Adm(a)) /\ d.seq = Cardinality(Adm(a))
  BY <1>1 DEF Followed, h
<1> QED  BY <1>17, <1>18, <1>19, <1>20 DEF Followed

(* With a grace: what has been handled and what is about to be are what    *)
(* the window released, and after the end of the source it is empty.       *)
Streamed ==
  buffered =>
    /\ Followed(arrived, buffer, handled \o batch)
    /\ phase = "pulling" => Newest(arrived, buffer) /\ Clocked(buffer)
    /\ phase # "pulling" => buffer.heap = {}

(* Nothing has arrived.                                                    *)
LEMMA InitStreamed == Init => Streamed
<1> SUFFICES ASSUME Init  PROVE Streamed
  OBVIOUS
<1>1. /\ arrived = <<>> /\ handled \o batch = <<>> /\ buffer = EmptyBuffer /\ phase = "pulling"
  BY DEF Init
<1>2. Adm(<<>>) = {}
  BY DEF Adm
<1>3. In(<<>>, {}) = {} /\ Out(<<>>, {}) = {} /\ Came(<<>>, {}) = {} /\ Cardinality({}) = 0
  BY <1>2, FS_EmptySet DEF In, Out, Came
<1>4. Events(InOrder({})) = <<>>
  <2>1. InOrder({}) \in Seq({}) /\ Len(InOrder({})) = 0
    BY <1>3, FS_EmptySet, InOrderIsSorted DEF Comparable, Numbered
  <2>2. InOrder({}) = <<>>
    BY <2>1
  <2> QED  BY <2>2 DEF Events
<1>5. Followed(<<>>, EmptyBuffer, <<>>)
  BY <1>2, <1>3, <1>4 DEF Followed, EmptyBuffer
<1>6. Newest(<<>>, EmptyBuffer) /\ Clocked(EmptyBuffer)
  BY BufferAssumption DEF Newest, Clocked, EmptyBuffer, Larger
<1> QED  BY <1>1, <1>5, <1>6 DEF Streamed

(* A push adds to what is still to come, a release moves some of it to the *)
(* batch.                                                                  *)
LEMMA PullStreamed ==
  ASSUME Shapes, Streamed, buffered, NEW e \in Event, Pull(e)
  PROVE  Streamed'
<1> DEFINE c == Append(arrived, e)
           b == Push(buffer, e)
           w == Larger(b.watermark, b.maxSeen - Grace)
           S == {x \in b.heap : x.event.time < w}
           d == AfterReleasable(b)
<1>1. /\ phase = "pulling" /\ phase' = phase /\ batch = <<>> /\ arrived' = c
      /\ handled' = handled /\ buffer' = d /\ batch' = Events(Releasable(b))
  BY DEF Pull
<1>2. Window(buffer) /\ handled \o batch = handled /\ handled \o <<>> = handled
  BY <1>1 DEF Shapes
<1>3. Followed(arrived, buffer, handled) /\ Newest(arrived, buffer) /\ Clocked(buffer)
  BY <1>1, <1>2 DEF Streamed
<1>4. arrived \in Seq(Event) /\ c \in Seq(Event)
  BY DEF Shapes
<1>5. /\ Followed(c, b, handled) /\ Newest(c, b)
      /\ b.watermark = buffer.watermark /\ buffer.maxSeen <= b.maxSeen
  BY <1>2, <1>3, <1>4, PushFollows
<1>6. Window(b)
  BY <1>2, PushKeepsWindow
<1> HIDE DEF b, c
<1>7. /\ w \in Int /\ S \subseteq b.heap /\ Releasable(b) = InOrder(S)
      /\ d = [b EXCEPT !.heap = b.heap \ S, !.watermark = w]
  BY <1>6, ReleaseGives
<1>8. b \in BufferType /\ buffer \in BufferType
  BY <1>2, <1>6 DEF Window
<1> HIDE DEF S, d
<1>9. d.heap = b.heap \ S /\ d.seq = b.seq /\ d.watermark = w /\ d.maxSeen = b.maxSeen
  BY <1>7, <1>8 DEF BufferType
<1>10. b.watermark \in Int /\ b.maxSeen \in Int /\ buffer.maxSeen \in Int /\ Grace \in Nat
       /\ NegInf \in Int
  BY <1>8, BufferAssumption DEF BufferType
<1>11. b.watermark <= w
  BY <1>10 DEF w, Larger
<1>12. w = Larger(NegInf, b.maxSeen - Grace)
  <2>1. b.watermark = Larger(NegInf, buffer.maxSeen - Grace) /\ buffer.maxSeen <= b.maxSeen
    BY <1>3, <1>5 DEF Clocked
  <2> QED  BY <1>10, <2>1 DEF w, Larger
<1> HIDE DEF w
<1>13. \A i \in Out(c, b.heap) : c[i].time < w
  <2> TAKE i \in Out(c, b.heap)
  <2>1. c[i].time < b.watermark
    BY <1>5 DEF Followed
  <2>2. c[i].time \in Int
    BY <1>4, AdmFacts, TimelyTimes DEF Out
  <2> QED  BY <1>7, <1>10, <1>11, <2>1, <2>2
<1>14. Followed(c, d, handled \o Events(InOrder(S)))
  <2>1. S = {x \in b.heap : x.event.time < w}
    BY DEF S
  <2> QED  BY <1>4, <1>5, <1>6, <1>7, <1>9, <1>13, <2>1, ReleaseFollows
<1>15. Newest(c, d)
  BY <1>5, <1>9 DEF Newest
<1>16. Clocked(d)
  BY <1>9, <1>12 DEF Clocked
<1> QED  BY <1>1, <1>7, <1>14, <1>15, <1>16 DEF Streamed

(* The flush moves all of it to the batch.                                 *)
LEMMA EndStreamed ==
  ASSUME Shapes, Streamed, buffered, EndOfSource
  PROVE  Streamed'
<1> DEFINE d == AfterFlush(buffer)
<1>1. /\ phase' = "flushed" /\ batch = <<>> /\ arrived' = arrived /\ handled' = handled
      /\ buffer' = d /\ batch' = Events(InOrder(buffer.heap))
  BY DEF EndOfSource, Flush
<1>2. Window(buffer) /\ handled \o batch = handled /\ buffer \in BufferType
  BY <1>1 DEF Shapes, Window
<1>3. arrived \in Seq(Event) /\ PosInf \in Int
  BY BufferAssumption DEF Shapes
<1>4. Followed(arrived, buffer, handled)
  BY <1>2 DEF Streamed
<1>5. d.heap = {} /\ d.seq = buffer.seq /\ d.watermark = PosInf
  BY <1>2 DEF AfterFlush, BufferType
<1>6. buffer.heap = {x \in buffer.heap : x.event.time < PosInf}
  BY <1>2, TimelyTimes DEF BufferType, Entries
<1>7. \A i \in Out(arrived, buffer.heap) : arrived[i].time < PosInf
  BY <1>3, AdmFacts, TimelyTimes DEF Out
<1> HIDE DEF d
<1> DEFINE S == buffer.heap
<1>8. d.heap = S \ S
  BY <1>5
<1>9. Followed(arrived, d, handled \o Events(InOrder(S)))
  <2> HIDE DEF S
  <2>1. S = {x \in buffer.heap : x.event.time < PosInf} /\ d.heap = buffer.heap \ S
    BY <1>6, <1>8 DEF S
  <2> QED  BY <1>2, <1>3, <1>4, <1>5, <1>7, <2>1, ReleaseFollows
<1> QED  BY <1>1, <1>5, <1>9 DEF Streamed

(* The first of the batch becomes the last that was handled.               *)
LEMMA HandleStreamed ==
  ASSUME Shapes, Streamed, buffered, HandleNext
  PROVE  Streamed'
<1> DEFINE e == Head(batch)
<1>1. /\ batch # <<>> /\ batch' = Tail(batch) /\ arrived' = arrived /\ buffer' = buffer
      /\ phase' = phase
  BY DEF HandleNext
<1>2. e \in Timely /\ batch \in Seq(Timely) /\ handled \in Seq(Timely)
  BY HandleShapes DEF Shapes
<1>3. handled' = Append(handled, e)
  BY <1>2, HandleShapes DEF Timely
<1>4. Append(handled, Head(batch)) \o Tail(batch) = handled \o batch
  BY <1>1, <1>2
<1> QED  BY <1>1, <1>3, <1>4 DEF Streamed

(* With a window, every step keeps the stream together.                    *)
LEMMA StepStreamed == Shapes /\ Streamed /\ [Next]_vars => Streamed'
<1> SUFFICES ASSUME Shapes, Streamed, [Next]_vars  PROVE Streamed'
  OBVIOUS
<1>1. buffered' = buffered
  BY DEF Next, vars, Pull, HandleNext, EndOfSource, Return
<1>2. CASE ~buffered
  BY <1>1, <1>2 DEF Streamed
<1>3. CASE buffered
  <2>1. ASSUME NEW e \in Event, Pull(e)  PROVE Streamed'
    BY <1>3, <2>1, PullStreamed
  <2>2. CASE HandleNext
    BY <1>3, <2>2, HandleStreamed
  <2>3. CASE EndOfSource
    BY <1>3, <2>3, EndStreamed
  <2>4. ASSUME NEW p \in BOOLEAN, Return(p)  PROVE Streamed'
    BY <2>4 DEF Return, Streamed
  <2>5. CASE UNCHANGED vars
    BY <2>5 DEF vars, Streamed
  <2> QED  BY <2>1, <2>2, <2>3, <2>4, <2>5 DEF Next
<1> QED  BY <1>2, <1>3

-----------------------------------------------------------------------------
(* Without a grace: s lists the usable ones of the first m arrivals, each  *)
(* at its place.                                                           *)
Upto(a, m) == {j \in 1 .. m : UsableTime(a[j].time)}
Listed(a, m, s) ==
  /\ Len(s) = Cardinality(Upto(a, m))
  /\ \A i \in Upto(a, m) : s[Cardinality(Upto(a, i))] = a[i]

(* The place of a listed arrival is one of the list's.                     *)
LEMMA UptoFacts ==
  ASSUME NEW a, NEW m \in Nat
  PROVE  /\ IsFiniteSet(Upto(a, m)) /\ Cardinality(Upto(a, m)) \in Nat
         /\ \A i \in Upto(a, m) : /\ i \in 1 .. m
                                  /\ Cardinality(Upto(a, i)) \in 1 .. Cardinality(Upto(a, m))
         /\ Upto(a, m + 1) = Upto(a, m) \cup (IF UsableTime(a[m + 1].time) THEN {m + 1} ELSE {})
         /\ UsableTime(a[m + 1].time) =>
              Cardinality(Upto(a, m + 1)) = Cardinality(Upto(a, m)) + 1
<1>1. ASSUME NEW k \in Nat
      PROVE  IsFiniteSet(Upto(a, k)) /\ Cardinality(Upto(a, k)) \in Nat
  <2>1. Upto(a, k) \in SUBSET (1 .. k) /\ IsFiniteSet(1 .. k)
    BY UpTo DEF Upto
  <2> QED  BY <2>1, FS_Subset, FS_CardinalityType
<1>2. ASSUME NEW i \in Upto(a, m)
      PROVE  i \in 1 .. m /\ Cardinality(Upto(a, i)) \in 1 .. Cardinality(Upto(a, m))
  <2>1. i \in 1 .. m /\ i \in Nat /\ i \in Upto(a, i)
    BY DEF Upto
  <2>2. Upto(a, i) \in SUBSET Upto(a, m)
    BY <2>1 DEF Upto
  <2>3. IsFiniteSet(Upto(a, i)) /\ Cardinality(Upto(a, i)) \in Nat
    BY <1>1, <2>1
  <2>4. Cardinality(Upto(a, i)) # 0
    BY <2>1, <2>3, FS_EmptySet
  <2>5. Cardinality(Upto(a, i)) <= Cardinality(Upto(a, m)) /\ Cardinality(Upto(a, m)) \in Nat
    BY <1>1, <2>2, FS_Subset
  <2> QED  BY <2>1, <2>3, <2>4, <2>5
<1>3. Upto(a, m + 1) = Upto(a, m) \cup (IF UsableTime(a[m + 1].time) THEN {m + 1} ELSE {})
  <2>1. \A j : j \in 1 .. m + 1 <=> j \in 1 .. m \/ j = m + 1
    OBVIOUS
  <2> QED  BY <2>1 DEF Upto
<1>4. ASSUME UsableTime(a[m + 1].time)
      PROVE  Cardinality(Upto(a, m + 1)) = Cardinality(Upto(a, m)) + 1
  <2> DEFINE U == Upto(a, m)
             n == m + 1
  <2>1. n \notin U
    BY DEF Upto
  <2>2. Upto(a, n) = U \cup {n} /\ IsFiniteSet(U)
    BY <1>1, <1>3, <1>4
  <2> HIDE DEF U, n
  <2>3. Cardinality(U \cup {n}) = Cardinality(U) + 1
    BY <2>1, <2>2, FS_AddElement
  <2> QED  BY <2>2, <2>3 DEF U, n
<1> QED  BY <1>1, <1>2, <1>3, <1>4

(* The next arrival is listed, if its time is usable.                      *)
LEMMA ListedGrows ==
  ASSUME NEW a, NEW m \in Nat, NEW S, NEW s \in Seq(S), Listed(a, m, s), NEW e, e = a[m + 1]
  PROVE  Listed(a, m + 1, IF UsableTime(e.time) THEN Append(s, e) ELSE s)
<1> DEFINE C(i) == Cardinality(Upto(a, i))
<1>1. /\ Len(s) = C(m) /\ C(m) \in Nat
      /\ \A i \in Upto(a, m) : i \in 1 .. m /\ C(i) \in 1 .. C(m) /\ s[C(i)] = a[i]
  BY UptoFacts DEF Listed
<1>2. Upto(a, m + 1) = Upto(a, m) \cup (IF UsableTime(e.time) THEN {m + 1} ELSE {})
  BY UptoFacts
<1>3. UsableTime(e.time) => C(m + 1) = C(m) + 1
  BY UptoFacts
<1> HIDE DEF C
<1>4. CASE UsableTime(e.time)
  <2> DEFINE t == Append(s, e)
  <2>1. Len(t) = C(m) + 1 /\ t[C(m) + 1] = e /\ \A k \in 1 .. C(m) : t[k] = s[k]
    BY <1>1
  <2> HIDE DEF t
  <2>2. \A i \in Upto(a, m + 1) : t[C(i)] = a[i]
    BY <1>1, <1>2, <1>3, <1>4, <2>1
  <2> QED  BY <1>3, <1>4, <2>1, <2>2 DEF Listed, C, t
<1>5. CASE ~UsableTime(e.time)
  BY <1>1, <1>2, <1>5 DEF Listed, C
<1> QED  BY <1>4, <1>5

(* A longer stream lists the same of its first m events.                   *)
LEMMA ListedStays ==
  ASSUME NEW a, NEW c, NEW m \in Nat, \A i \in 1 .. m : c[i] = a[i], NEW s, Listed(a, m, s)
  PROVE  Listed(c, m, s)
<1>1. \A i \in 1 .. m : Upto(c, i) = Upto(a, i)
  BY DEF Upto
<1>2. Upto(c, m) = Upto(a, m) /\ Upto(a, m) \subseteq 1 .. m
  BY DEF Upto
<1> QED  BY <1>1, <1>2 DEF Listed

(* At most the last arrival waits to be handled.                           *)
Passed ==
  ~buffered =>
    /\ buffer = EmptyBuffer
    /\ batch = <<>> \/ /\ arrived # <<>>
                       /\ batch = <<arrived[Len(arrived)]>>
    /\ Listed(arrived, Len(arrived) - Len(batch), handled)

(* Without a window, every step passes its event on.                       *)
LEMMA StepPassed == Shapes /\ Passed /\ [Next]_vars => Passed'
<1> SUFFICES ASSUME Shapes, Passed, [Next]_vars  PROVE Passed'
  OBVIOUS
<1>1. buffered' = buffered
  BY DEF Next, vars, Pull, HandleNext, EndOfSource, Return
<1>2. CASE buffered
  BY <1>1, <1>2 DEF Passed
<1>3. CASE ~buffered
  <2>1. ASSUME NEW e \in Event, Pull(e)  PROVE Passed'
    <3> DEFINE c == Append(arrived, e)
               n == Len(arrived)
    <3>1. /\ batch = <<>> /\ arrived' = c /\ handled' = handled /\ buffer' = buffer
          /\ batch' = <<e>>
      BY <1>3, <2>1 DEF Pull
    <3>2. /\ n \in Nat /\ Len(c) = n + 1 /\ c[n + 1] = e /\ c # <<>>
          /\ \A i \in 1 .. n : c[i] = arrived[i]
      BY DEF Shapes
    <3>3. Listed(arrived, n, handled)
      BY <1>3, <3>1, <3>2 DEF Passed
    <3> HIDE DEF c, n
    <3>4. Listed(c, n, handled)
      BY <3>2, <3>3, ListedStays
    <3>5. Len(c) - Len(<<e>>) = n
      BY <3>2
    <3> QED  BY <1>3, <3>1, <3>2, <3>4, <3>5 DEF Passed
  <2>2. CASE HandleNext
    <3> DEFINE e == Head(batch)
               m == Len(arrived) - 1
    <3>1. batch = <<arrived[Len(arrived)]>> /\ arrived # <<>>
      BY <1>3, <2>2 DEF Passed, HandleNext
    <3>2. /\ batch' = <<>> /\ arrived' = arrived /\ buffer' = buffer
          /\ handled' = IF UsableTime(e.time) THEN Append(handled, e) ELSE handled
      BY <2>2, <3>1, HandleShapes DEF HandleNext
    <3>3. m \in Nat /\ m + 1 = Len(arrived) /\ e = arrived[m + 1] /\ Len(batch) = 1
      BY <3>1 DEF Shapes
    <3>4. Listed(arrived, m, handled) /\ handled \in Seq(Timely)
      BY <1>3, <3>3 DEF Passed, Shapes
    <3> HIDE DEF e, m
    <3>5. Listed(arrived, m + 1, handled')
      BY <3>2, <3>3, <3>4, ListedGrows
    <3>6. Len(arrived) - Len(<<>>) = m + 1
      BY <3>3, <3>4
    <3> QED  BY <1>3, <3>2, <3>5, <3>6 DEF Passed
  <2>3. CASE EndOfSource
    BY <1>3, <2>3 DEF EndOfSource, Passed
  <2>4. ASSUME NEW p \in BOOLEAN, Return(p)  PROVE Passed'
    BY <2>4 DEF Return, Passed
  <2>5. CASE UNCHANGED vars
    BY <2>5 DEF vars, Passed
  <2> QED  BY <2>1, <2>2, <2>3, <2>4, <2>5 DEF Next
<1> QED  BY <1>2, <1>3

(* Without a window, nothing has been passed on at the start.              *)
LEMMA InitPassed == Init => Passed
<1> SUFFICES ASSUME Init  PROVE Passed
  OBVIOUS
<1>1. buffer = EmptyBuffer /\ batch = <<>> /\ arrived = <<>> /\ handled = <<>>
  BY DEF Init
<1>2. Upto(<<>>, 0) = {}
  BY DEF Upto
<1>3. Listed(<<>>, 0, <<>>)
  BY <1>2, FS_EmptySet DEF Listed
<1> QED  BY <1>1, <1>3 DEF Passed

-----------------------------------------------------------------------------
(* Every arrival is somewhere, once: flagged, held, waiting or handled.    *)
Taken(b) == Len(b.late) + Len(b.invalid) + Cardinality(b.heap)
Counted ==
  /\ eng.invalid \in Seq(Event)
  /\ Taken(buffer) + Len(batch) + Len(handled) + Len(eng.invalid) = Len(arrived)

(* What the window has taken is a number, and no less than what it holds.  *)
LEMMA TakenIsNumber ==
  ASSUME NEW b, Window(b)
  PROVE  Taken(b) \in Nat /\ Cardinality(b.heap) \in Nat /\ Cardinality(b.heap) <= Taken(b)
<1>1. Len(b.late) \in Nat /\ Len(b.invalid) \in Nat
  BY DEF Window, BufferType
<1>2. Cardinality(b.heap) \in Nat
  BY FS_CardinalityType DEF Window
<1> DEFINE x == Len(b.late)
           y == Len(b.invalid)
           z == Cardinality(b.heap)
<1>3. Taken(b) = x + y + z /\ x \in Nat /\ y \in Nat /\ z \in Nat
  BY <1>1, <1>2 DEF Taken
<1> HIDE DEF x, y, z
<1>4. Taken(b) \in Nat /\ z <= Taken(b)
  BY <1>3
<1> QED  BY <1>2, <1>4 DEF z

(* push() keeps the event, whatever its time.                              *)
LEMMA PushCounts ==
  ASSUME NEW b, Window(b), NEW e \in Event
  PROVE  Taken(Push(b, e)) = Taken(b) + 1
<1> DEFINE d == Push(b, e)
<1>1. b \in BufferType /\ IsFiniteSet(b.heap)
  BY DEF Window
<1>2. /\ b.late \in Seq(Event) /\ b.invalid \in Seq(Event) /\ Cardinality(b.heap) \in Nat
  BY <1>1, FS_CardinalityType DEF BufferType
<1> DEFINE x == Len(b.late)
           y == Len(b.invalid)
           z == Cardinality(b.heap)
<1>3. Taken(b) = x + y + z /\ x \in Nat /\ y \in Nat /\ z \in Nat
  BY <1>2 DEF Taken
<1>4. CASE ~UsableTime(e.time)
  <2>1. d = [b EXCEPT !.invalid = Append(@, e)]
    BY <1>4, PushKeepsWindow
  <2>2. d.heap = b.heap /\ d.late = b.late /\ d.invalid = Append(b.invalid, e)
    BY <1>1, <2>1 DEF BufferType
  <2> HIDE DEF d
  <2>3. Len(d.late) = x /\ Len(d.invalid) = y + 1 /\ Cardinality(d.heap) = z
    BY <1>2, <2>2
  <2> HIDE DEF x, y, z
  <2>4. Taken(d) = x + (y + 1) + z
    BY <2>3 DEF Taken
  <2> QED  BY <1>3, <2>4 DEF d
<1>5. CASE UsableTime(e.time) /\ e.time < b.watermark
  <2>1. d = [b EXCEPT !.late = Append(@, e)]
    BY <1>5, PushKeepsWindow
  <2>2. d.heap = b.heap /\ d.late = Append(b.late, e) /\ d.invalid = b.invalid
    BY <1>1, <2>1 DEF BufferType
  <2> HIDE DEF d
  <2>3. Len(d.late) = x + 1 /\ Len(d.invalid) = y /\ Cardinality(d.heap) = z
    BY <1>2, <2>2
  <2> HIDE DEF x, y, z
  <2>4. Taken(d) = (x + 1) + y + z
    BY <2>3 DEF Taken
  <2> QED  BY <1>3, <2>4 DEF d
<1>6. CASE UsableTime(e.time) /\ ~(e.time < b.watermark)
  <2> DEFINE new == Entry(e, b.seq)
  <2>1. d = [b EXCEPT !.heap = @ \cup {new}, !.seq = @ + 1, !.maxSeen = Larger(@, e.time)]
    BY <1>6, PushKeepsWindow
  <2>2. new \notin b.heap
    <3>1. b.seq \in Nat /\ \A q \in b.heap : q.seq < b.seq
      BY <1>1 DEF Window, BufferType
    <3> QED  BY <3>1 DEF Entry
  <2> HIDE DEF new
  <2>3. d.heap = b.heap \cup {new} /\ d.late = b.late /\ d.invalid = b.invalid
    BY <1>1, <2>1 DEF BufferType
  <2> HIDE DEF d
  <2>4. Cardinality(d.heap) = z + 1
    BY <1>1, <2>2, <2>3, FS_AddElement
  <2>5. Len(d.late) = x /\ Len(d.invalid) = y
    BY <2>3
  <2> HIDE DEF x, y, z
  <2>6. Taken(d) = x + y + (z + 1)
    BY <2>4, <2>5 DEF Taken
  <2> QED  BY <1>3, <2>6 DEF d
<1> QED  BY <1>4, <1>5, <1>6

(* What is released is no longer kept.                                     *)
LEMMA ReleaseCounts ==
  ASSUME NEW b, Window(b), NEW S, S \subseteq b.heap, NEW d,
         d.late = b.late, d.invalid = b.invalid, d.heap = b.heap \ S
  PROVE  /\ Taken(d) + Len(Events(InOrder(S))) = Taken(b)
         /\ Taken(d) \in Nat /\ Len(Events(InOrder(S))) \in Nat
<1> DEFINE h == b.heap
           T == h \ S
<1>1. IsFiniteSet(h) /\ IsFiniteSet(S) /\ IsFiniteSet(T) /\ S \cup T = h /\ S \cap T = {}
  BY FS_Subset DEF Window
<1>2. Cardinality(S) \in Nat /\ Cardinality(T) \in Nat
  BY <1>1, FS_CardinalityType
<1>3. Cardinality(h) = Cardinality(S) + Cardinality(T)
  <2> HIDE DEF h, T
  <2>1. Cardinality(S \cup T) = Cardinality(S) + Cardinality(T) - Cardinality(S \cap T)
    BY <1>1, FS_Union
  <2>2. Cardinality(S \cap T) = 0
    BY <1>1, FS_EmptySet
  <2> DEFINE x == Cardinality(S)
             y == Cardinality(T)
  <2>3. x \in Nat /\ y \in Nat /\ Cardinality(h) = x + y - 0
    BY <1>1, <1>2, <2>1, <2>2
  <2> HIDE DEF x, y
  <2>4. Cardinality(h) = x + y
    BY <2>3
  <2> QED  BY <2>4 DEF x, y
<1>4. Len(Events(InOrder(S))) = Cardinality(S)
  BY PoppedEvents
<1>5. Len(b.late) \in Nat /\ Len(b.invalid) \in Nat
  BY DEF Window, BufferType
<1>6. Cardinality(d.heap) = Cardinality(T)
  OBVIOUS
<1> DEFINE p == Len(b.late)
           q == Len(b.invalid)
           x == Cardinality(S)
           y == Cardinality(T)
<1>7. /\ p \in Nat /\ q \in Nat /\ x \in Nat /\ y \in Nat
      /\ Taken(b) = p + q + (x + y) /\ Taken(d) = p + q + y
  BY <1>2, <1>3, <1>5, <1>6 DEF Taken
<1>8. Len(Events(InOrder(S))) = x
  BY <1>4
<1> HIDE DEF p, q, x, y
<1> QED  BY <1>7, <1>8

(* Every step keeps the counts: what arrived is handled, held, late or     *)
(* invalid.                                                                *)
LEMMA StepCounted == Shapes /\ Timers /\ Counted /\ [Next]_vars => Counted'
<1> SUFFICES ASSUME Shapes, Timers, Counted, [Next]_vars  PROVE Counted'
  OBVIOUS
<1>0. /\ Window(buffer) /\ buffer \in BufferType /\ Taken(buffer) \in Nat
      /\ batch \in Seq(Event) /\ handled \in Seq(Timely) /\ arrived \in Seq(Event)
      /\ eng.invalid \in Seq(Event)
      /\ Taken(buffer) + Len(batch) + Len(handled) + Len(eng.invalid) = Len(arrived)
  BY TakenIsNumber DEF Shapes, Counted, Window
<1>1. ASSUME NEW e \in Event, Pull(e)  PROVE Counted'
  <2>1. /\ batch = <<>> /\ arrived' = Append(arrived, e) /\ handled' = handled /\ eng' = eng
        /\ Len(arrived') = Len(arrived) + 1
    BY <1>0, <1>1 DEF Pull
  <2>2. Taken(buffer') + Len(batch') = Taken(buffer) + 1 /\ Taken(buffer') + Len(batch') \in Nat
    <3>1. CASE buffered
      <4> DEFINE b == Push(buffer, e)
                 S == {x \in b.heap : x.event.time < Larger(b.watermark, b.maxSeen - Grace)}
                 d == AfterReleasable(b)
      <4>1. buffer' = d /\ batch' = Events(Releasable(b))
        BY <1>1, <3>1 DEF Pull
      <4>2. Window(b) /\ Taken(b) = Taken(buffer) + 1
        BY <1>0, PushKeepsWindow, PushCounts
      <4> HIDE DEF b
      <4>3. /\ S \subseteq b.heap /\ Releasable(b) = InOrder(S)
            /\ d = [b EXCEPT !.heap = b.heap \ S,
                             !.watermark = Larger(b.watermark, b.maxSeen - Grace)]
        BY <4>2, ReleaseGives
      <4> HIDE DEF S, d
      <4>4. d.heap = b.heap \ S /\ d.late = b.late /\ d.invalid = b.invalid
        BY <4>2, <4>3 DEF Window, BufferType
      <4>5. /\ Taken(d) + Len(Events(InOrder(S))) = Taken(b)
            /\ Taken(d) \in Nat /\ Len(Events(InOrder(S))) \in Nat
        BY <4>2, <4>3, <4>4, ReleaseCounts
      <4> QED  BY <4>1, <4>2, <4>3, <4>5
    <3>2. CASE ~buffered
      <4>1. buffer' = buffer /\ batch' = <<e>>
        BY <1>1, <3>2 DEF Pull
      <4> QED  BY <1>0, <4>1
    <3> QED  BY <3>1, <3>2
  <2>3. Len(handled) \in Nat /\ Len(eng.invalid) \in Nat /\ Len(batch) = 0 /\ Len(arrived) \in Nat
    BY <1>0, <2>1
  <2>4. (Taken(buffer) + Len(batch) + Len(handled) + Len(eng.invalid))' = Len(arrived')
    <3> DEFINE x == Taken(buffer)
               k == Taken(buffer') + Len(batch')
               q == Len(handled)
               r == Len(eng.invalid)
               m == Len(arrived)
    <3>1. x + q + r = m /\ k = x + 1 /\ Len(arrived') = m + 1
      BY <1>0, <2>1, <2>2, <2>3
    <3>2. Len(handled') = q /\ Len(eng'.invalid) = r
      BY <2>1
    <3>3. x \in Nat /\ k \in Nat /\ q \in Nat /\ r \in Nat /\ m \in Nat
      BY <1>0, <2>2, <2>3
    <3> HIDE DEF x, k, q, r, m
    <3>4. k + q + r = m + 1
      BY <3>1, <3>3
    <3> QED  BY <3>1, <3>2, <3>4 DEF k
  <2> QED  BY <1>0, <2>1, <2>4 DEF Counted
<1>2. CASE HandleNext
  <2> DEFINE e == Head(batch)
  <2>1. /\ batch # <<>> /\ Len(batch') = Len(batch) - 1 /\ buffer' = buffer /\ arrived' = arrived
        /\ eng' = HandleEvent(eng, e) /\ e \in Event
        /\ handled' = IF UsableTime(e.time) THEN Append(handled, e) ELSE handled
    BY <1>0, <1>2, HandleShapes DEF HandleNext
  <2> HIDE DEF e
  <2> DEFINE x == Len(batch)
             y == Len(handled)
             z == Len(eng.invalid)
             k == Taken(buffer)
  <2>4. /\ x \in Nat /\ y \in Nat /\ z \in Nat /\ k \in Nat /\ k + x + y + z = Len(arrived)
        /\ Len(batch') = x - 1 /\ Taken(buffer)' = k /\ Len(arrived)' = Len(arrived)
        /\ Len(handled) = y /\ Len(eng.invalid) = z /\ eng.invalid \in Seq(Event)
    BY <1>0, <2>1
  <2> HIDE DEF x, y, z, k
  <2>2. CASE UsableTime(e.time)
    <3>1. e \in Timely /\ e.time \in Int
      BY <2>1, <2>2, TimelyTimes DEF Timely
    <3>2. eng'.invalid = eng.invalid
      BY <2>1, <3>1, HandlingIsSound DEF Timers
    <3>3. handled' = Append(handled, e) /\ Len(handled') = Len(handled) + 1
      BY <1>0, <2>1, <2>2, <3>1
    <3>4. /\ Taken(buffer') = k /\ Len(batch') = x - 1 /\ Len(handled') = y + 1
          /\ Len(eng'.invalid) = z /\ Len(arrived') = k + x + y + z
      BY <2>4, <3>2, <3>3
    <3>5. x \in Nat /\ y \in Nat /\ z \in Nat /\ k \in Nat
      BY <2>4
    <3>6. Taken(buffer') + Len(batch') + Len(handled') + Len(eng'.invalid) = Len(arrived')
      BY ONLY <3>4, <3>5
    <3> QED  BY <2>4, <3>2, <3>6 DEF Counted
  <2>3. CASE ~UsableTime(e.time)
    <3>1. eng' = [eng EXCEPT !.invalid = Append(@, e)] /\ handled' = handled
      BY <2>1, <2>3 DEF HandleEvent
    <3>2. eng'.invalid = Append(eng.invalid, e)
      BY <3>1 DEF Timers, EngineSound, EngineShape, EmptyEngine
    <3>3. eng'.invalid \in Seq(Event) /\ Len(eng'.invalid) = Len(eng.invalid) + 1
      BY <1>0, <2>1, <3>2
    <3>4. /\ Taken(buffer') = k /\ Len(batch') = x - 1 /\ Len(handled') = y
          /\ Len(eng'.invalid) = z + 1 /\ Len(arrived') = k + x + y + z
      BY <2>4, <3>1, <3>3
    <3>5. x \in Nat /\ y \in Nat /\ z \in Nat /\ k \in Nat
      BY <2>4
    <3>6. Taken(buffer') + Len(batch') + Len(handled') + Len(eng'.invalid) = Len(arrived')
      BY ONLY <3>4, <3>5
    <3> QED  BY <3>3, <3>6 DEF Counted
  <2> QED  BY <2>2, <2>3
<1>3. CASE EndOfSource
  <2>1. batch = <<>> /\ arrived' = arrived /\ handled' = handled /\ eng' = eng
    BY <1>3 DEF EndOfSource
  <2>2. CASE buffered
    <3> DEFINE d == AfterFlush(buffer)
               S == buffer.heap
    <3>1. buffer' = d /\ batch' = Events(InOrder(S))
      BY <1>3, <2>2 DEF EndOfSource, Flush
    <3>2. d.heap = {} /\ d.late = buffer.late /\ d.invalid = buffer.invalid
      BY <1>0 DEF AfterFlush, BufferType
    <3>3. d.heap = buffer.heap \ S /\ S \subseteq buffer.heap
      BY <3>2
    <3> HIDE DEF d, S
    <3>4. /\ Taken(d) + Len(Events(InOrder(S))) = Taken(buffer)
          /\ Taken(d) \in Nat /\ Len(Events(InOrder(S))) \in Nat
      BY <1>0, <3>2, <3>3, ReleaseCounts
    <3> QED  BY <1>0, <2>1, <3>1, <3>4 DEF Counted
  <2>3. CASE ~buffered
    BY <1>3, <2>1, <2>3 DEF EndOfSource, Counted
  <2> QED  BY <2>2, <2>3
<1>4. ASSUME NEW p \in BOOLEAN, Return(p)  PROVE Counted'
  <2>1. /\ buffer' = buffer /\ batch' = batch /\ arrived' = arrived /\ handled' = handled
        /\ eng' = eng \/ eng' = EmitPending(eng)
    BY <1>4 DEF Return
  <2>2. eng'.invalid = eng.invalid
    BY <2>1, EmitKeeps DEF Timers
  <2> QED  BY <2>1, <2>2 DEF Counted
<1>5. CASE UNCHANGED vars
  BY <1>5 DEF vars, Counted
<1> QED  BY <1>1, <1>2, <1>3, <1>4, <1>5 DEF Next

(* All counts are zero at the start.                                       *)
LEMMA InitCounted == Init => Counted
<1> SUFFICES ASSUME Init  PROVE Counted
  OBVIOUS
<1>1. eng.invalid = <<>> /\ batch = <<>> /\ arrived = <<>> /\ handled = <<>> /\ buffer = EmptyBuffer
  BY DEF Init, EmptyEngine
<1>2. Taken(EmptyBuffer) = 0
  BY FS_EmptySet DEF Taken, EmptyBuffer
<1> QED  BY <1>1, <1>2 DEF Counted

(* The invariant of the replay loop: the window, the timers, and where     *)
(* every arrival is.                                                       *)
ReplayInvariant == Shapes /\ Timers /\ Streamed /\ Passed /\ Counted

(* The invariant of the replay loop holds in every state of a run.         *)
LEMMA ReplayInvariantHolds == Spec => []ReplayInvariant
<1>1. Init => ReplayInvariant
  BY InitShapes, EmptyIsSound, InitStreamed, InitPassed, InitCounted
     DEF ReplayInvariant, Init, Timers
<1>2. ReplayInvariant /\ [Next]_vars => ReplayInvariant'
  BY StepShapes, StepTimers, StepStreamed, StepPassed, StepCounted DEF ReplayInvariant
<1> QED  BY <1>1, <1>2, PTL DEF Spec

(* The reordering contract end to end, for every stream, grace and set of  *)
(* policies: once the source is drained the handled events are the         *)
(* admitted ones in canonical order, and every other one is flagged.       *)
THEOREM AdmittedAreHandledInOrder == Spec => []HandledIsAdmitted
<1>1. ReplayInvariant => HandledIsAdmitted
  <2> SUFFICES ASSUME ReplayInvariant, phase # "pulling", batch = <<>>
               PROVE  HandledIsAdmitted
    BY DEF HandledIsAdmitted
  <2>1. /\ arrived \in Seq(Event) /\ DOMAIN arrived = 1 .. Len(arrived) /\ Len(arrived) \in Nat
        /\ handled \in Seq(Timely) /\ handled \o batch = handled /\ Len(batch) = 0
        /\ Window(buffer) /\ buffer \in BufferType /\ eng.invalid \in Seq(Event)
    BY DEF ReplayInvariant, Shapes, Counted, Window
  <2>2. ASSUME buffered
        PROVE  handled = Events(InOrder(ByArrival(Admitted))) /\ buffer.heap = {}
    <3>1. Followed(arrived, buffer, handled) /\ buffer.heap = {}
      BY <2>1, <2>2 DEF ReplayInvariant, Streamed
    <3>2. Out(arrived, {}) = Adm(arrived)
      BY DEF Out, In
    <3>3. handled = Events(InOrder(Came(arrived, Adm(arrived))))
      BY <3>1, <3>2 DEF Followed
    <3>4. Admitted = Adm(arrived)
      BY DEF Admitted, Adm
    <3>5. ByArrival(Admitted) = Came(arrived, Adm(arrived))
      BY <3>4 DEF ByArrival, Came
    <3> QED  BY <3>1, <3>3, <3>5
  <2>3. ASSUME ~buffered
        PROVE  /\ Len(handled) = Cardinality(Usable)
               /\ \A i \in Usable : handled[Cardinality({j \in Usable : j <= i})] = arrived[i]
               /\ buffer.heap = {}
    <3>1. Listed(arrived, Len(arrived) - Len(batch), handled) /\ buffer.heap = {}
      BY <2>3 DEF ReplayInvariant, Passed, EmptyBuffer
    <3>2. Len(arrived) - Len(batch) = Len(arrived)
      BY <2>1
    <3>3. Usable = Upto(arrived, Len(arrived))
      BY <2>1 DEF Usable, Upto
    <3>4. ASSUME NEW i \in Usable  PROVE {j \in Usable : j <= i} = Upto(arrived, i)
      <4>1. i \in 1 .. Len(arrived)
        BY <2>1 DEF Usable
      <4>2. \A j : (j \in 1 .. Len(arrived) /\ j <= i) <=> j \in 1 .. i
        BY <2>1, <4>1
      <4> QED  BY <3>3, <4>2 DEF Upto
    <3> QED  BY <3>1, <3>2, <3>3, <3>4 DEF Listed
  <2>4. Len(buffer.late \o buffer.invalid \o eng.invalid) = Len(arrived) - Len(handled)
    <3> DEFINE p == Len(buffer.late)
               q == Len(buffer.invalid)
               r == Len(eng.invalid)
               n == Len(handled)
               m == Len(arrived)
               k == Len(batch)
    <3>1. buffer.late \in Seq(Event) /\ buffer.invalid \in Seq(Event)
      BY <2>1 DEF BufferType
    <3>2. Len(buffer.late \o buffer.invalid \o eng.invalid) = p + q + r
      BY <2>1, <3>1
    <3>3. Cardinality(buffer.heap) = 0
      BY <2>2, <2>3, FS_EmptySet
    <3>4. Taken(buffer) = p + q + Cardinality(buffer.heap)
      BY DEF Taken
    <3>5. Taken(buffer) + k + n + r = m
      BY DEF ReplayInvariant, Counted
    <3>6. p \in Nat /\ q \in Nat /\ r \in Nat /\ n \in Nat /\ m \in Nat /\ k = 0
      BY <2>1, <3>1
    <3> HIDE DEF p, q, r, n, m, k
    <3>7. Taken(buffer) = p + q
      BY <3>3, <3>4, <3>6
    <3>8. p + q + r = m - n
      BY <3>5, <3>6, <3>7
    <3> QED  BY <3>2, <3>8 DEF n, m
  <2> QED  BY <2>2, <2>3, <2>4 DEF HandledIsAdmitted
<1> QED  BY <1>1, ReplayInvariantHolds, PTL

-----------------------------------------------------------------------------
(* Without a grace the engine takes the events as they come; reclamation   *)
(* then counts on a source that yields them in event-time order.           *)
SourceInOrder ==
  \A past \in Seq(Event), e \in Event :
    MayFollow(FALSE, past, e) =>
      \A j \in DOMAIN past : UsableTime(past[j].time) /\ UsableTime(e.time) =>
                               past[j].time <= e.time

(* No handled event is newer than the one about to be handled.             *)
NoneNewer(e) ==
  UsableTime(e.time) => \A k \in DOMAIN handled : handled[k].time <= e.time

(* With a grace that is the canonical order.                               *)
LEMMA WindowIsOrdered ==
  ASSUME Shapes, Streamed, buffered, batch # <<>>
  PROVE  NoneNewer(Head(batch))
<1> DEFINE S == Came(arrived, Out(arrived, buffer.heap))
           s == InOrder(S)
           t == handled \o batch
           n == Len(handled)
<1>1. /\ handled \in Seq(Timely) /\ batch \in Seq(Timely) /\ arrived \in Seq(Event) /\ n \in Nat
      /\ DOMAIN handled = 1 .. n
  BY DEF Shapes
<1>2. /\ \A k \in 1 .. n : t[k] = handled[k]
      /\ t[n + 1] = Head(batch) /\ n + 1 \in DOMAIN t /\ \A k \in 1 .. n : k \in DOMAIN t
  BY <1>1
<1>3. t = Events(s)
  BY DEF Streamed, Followed
<1>4. Out(arrived, buffer.heap) \subseteq Adm(arrived)
  BY DEF Out
<1>5. IsFiniteSet(S) /\ Comparable(S) /\ Numbered(S)
  BY <1>1, <1>4, EntriesOf
<1> HIDE DEF S, n
<1>6. /\ s \in Seq(S) /\ Len(s) = Cardinality(S)
      /\ \A i, j \in 1 .. Cardinality(S) : i < j => Before(s[i], s[j])
  BY <1>5, InOrderIsSorted
<1> HIDE DEF s, t
<1>7. DOMAIN t = DOMAIN s /\ DOMAIN s = 1 .. Cardinality(S) /\ \A k \in DOMAIN s : t[k] = s[k].event
  BY <1>3, <1>6 DEF Events
<1>8. ASSUME NEW k \in 1 .. n  PROVE handled[k].time <= Head(batch).time
  <2>1. Before(s[k], s[n + 1]) /\ t[k] = s[k].event /\ t[n + 1] = s[n + 1].event
    <3>1. k \in DOMAIN s /\ n + 1 \in DOMAIN s /\ k < n + 1
      BY <1>1, <1>2, <1>7
    <3> QED  BY <1>6, <1>7, <3>1
  <2>2. handled[k].time \in Int /\ Head(batch).time \in Int
    BY <1>1, TimelyTimes DEF n
  <2> QED  BY <1>2, <2>1, <2>2 DEF Before
<1> QED  BY <1>1, <1>8 DEF NoneNewer

(* Without one it is the source's.                                         *)
Trickled ==
  ~buffered =>
    /\ \A k \in DOMAIN handled : \E j \in DOMAIN arrived : arrived[j] = handled[k]
    /\ batch # <<>> => NoneNewer(Head(batch))

(* A source in event-time order: the window changes nothing of the order.  *)
LEMMA StepTrickled ==
  ASSUME SourceInOrder
  PROVE  Shapes /\ Passed /\ Trickled /\ [Next]_vars => Trickled'
<1> SUFFICES ASSUME Shapes, Passed, Trickled, [Next]_vars  PROVE Trickled'
  OBVIOUS
<1>1. buffered' = buffered
  BY DEF Next, vars, Pull, HandleNext, EndOfSource, Return
<1>2. CASE buffered
  BY <1>1, <1>2 DEF Trickled
<1>3. CASE ~buffered
  <2>1. ASSUME NEW e \in Event, Pull(e)  PROVE Trickled'
    <3>1. /\ arrived' = Append(arrived, e) /\ handled' = handled /\ batch' = <<e>>
          /\ MayFollow(FALSE, arrived, e)
      BY <1>3, <2>1 DEF Pull, Shapes
    <3>2. /\ arrived \in Seq(Event) /\ handled \in Seq(Timely)
          /\ \A j \in DOMAIN arrived : j \in DOMAIN arrived' /\ arrived'[j] = arrived[j]
      BY <3>1 DEF Shapes
    <3>3. \A k \in DOMAIN handled : \E j \in DOMAIN arrived : arrived[j] = handled[k]
      BY <1>3 DEF Trickled
    <3>4. \A k \in DOMAIN handled : UsableTime(handled[k].time)
      BY <3>2 DEF Timely
    <3>5. UsableTime(e.time) => \A k \in DOMAIN handled : handled[k].time <= e.time
      BY <3>1, <3>2, <3>3, <3>4 DEF SourceInOrder
    <3>6. Head(batch') = e
      BY <3>1
    <3>7. NoneNewer(Head(batch))'
      BY <3>1, <3>5, <3>6 DEF NoneNewer
    <3> QED  BY <3>1, <3>2, <3>3, <3>7 DEF Trickled
  <2>2. CASE HandleNext
    <3> DEFINE e == Head(batch)
    <3>1. /\ batch = <<arrived[Len(arrived)]>> /\ arrived # <<>>
      BY <1>3, <2>2 DEF Passed, HandleNext
    <3>2. /\ batch' = <<>> /\ arrived' = arrived
          /\ handled' = handled \/ handled' = Append(handled, e)
      BY <2>2, <3>1, HandleShapes DEF HandleNext
    <3>3. e = arrived[Len(arrived)] /\ Len(arrived) \in DOMAIN arrived /\ handled \in Seq(Timely)
      BY <3>1 DEF Shapes
    <3>4. \A k \in DOMAIN handled : \E j \in DOMAIN arrived : arrived[j] = handled[k]
      BY <1>3 DEF Trickled
    <3> HIDE DEF e
    <3>5. \A k \in DOMAIN Append(handled, e) :
            \/ k \in DOMAIN handled /\ Append(handled, e)[k] = handled[k]
            \/ Append(handled, e)[k] = e
      BY <3>3
    <3>6. \A k \in DOMAIN handled' : \E j \in DOMAIN arrived : arrived[j] = handled'[k]
      BY <3>2, <3>3, <3>4, <3>5
    <3> QED  BY <3>2, <3>6 DEF Trickled
  <2>3. CASE EndOfSource
    BY <1>3, <2>3 DEF EndOfSource, Trickled
  <2>4. ASSUME NEW p \in BOOLEAN, Return(p)  PROVE Trickled'
    BY <2>4 DEF Return, Trickled
  <2>5. CASE UNCHANGED vars
    BY <2>5 DEF vars, Trickled, NoneNewer
  <2> QED  BY <2>1, <2>2, <2>3, <2>4, <2>5 DEF Next
<1> QED  BY <1>2, <1>3

(* An instance was last active no earlier than any handled event of its    *)
(* id, and what was reclaimed was so at a handled event.                   *)
LastActive ==
  /\ \A id \in Id : eng.instances[id] # None =>
       \A k \in DOMAIN handled : Concerns(handled[k], id) =>
         handled[k].time <= eng.instances[id].last
  /\ \A id \in Id : cuts[id] \subseteq 1 .. Len(handled)

Unhurried == LastActive /\ NoEarlyReclaim

(* Handling an event that is not older than those handled reclaims nothing *)
(* early.                                                                  *)
LEMMA HandleUnhurried ==
  ASSUME Shapes, Timers, NoneNewer(Head(batch)), Unhurried, HandleNext
  PROVE  Unhurried'
<1> DEFINE e == Head(batch)
           n == Len(handled)
<1>1. eng' = HandleEvent(eng, e) /\ e \in Event
  BY HandleShapes DEF HandleNext
<1>2. handled \in Seq(Timely) /\ n \in Nat /\ DOMAIN handled = 1 .. n
  BY DEF Shapes
<1>3. CASE ~UsableTime(e.time)
  <2>1. handled' = handled /\ cuts' = cuts
    BY <1>3 DEF HandleNext
  <2>2. eng'.instances = eng.instances
    BY <1>1, <1>3 DEF HandleEvent, Timers, EngineSound, EngineShape, EmptyEngine
  <2> QED  BY <2>1, <2>2 DEF Unhurried, LastActive, NoEarlyReclaim
<1>4. CASE UsableTime(e.time)
  <2>1. e.time \in Int
    BY <1>1, <1>4, TimelyTimes DEF Timely
  <2>2. handled' = Append(handled, e)
    BY <1>4, HandleShapes
  <2>3. Touched(eng, eng', e)
    BY <1>1, <2>1, HandlingIsSound DEF Timers
  <2>4. \A id \in Id : cuts'[id] = IF id \in Quiescent(FireDueDeadlines(eng, e.time), e.time)
                                   THEN cuts[id] \cup {n + 1} ELSE cuts[id]
    BY <1>4 DEF HandleNext
  <2>5. \A k \in 1 .. n : handled[k].time <= e.time /\ handled[k].time \in Int
    BY <1>2, <1>4, TimelyTimes DEF NoneNewer
  <2>6. /\ Len(handled') = n + 1 /\ DOMAIN handled' = 1 .. n + 1 /\ handled'[n + 1] = e
        /\ \A k \in 1 .. n : handled'[k] = handled[k]
    BY <1>2, <2>2
  <2> HIDE DEF e, n
  <2>7. \A k \in 1 .. n + 1 : k \in 1 .. n \/ k = n + 1
    BY <1>2
  <2>8. LastActive'
    <3>1. ASSUME NEW id \in Id, eng'.instances[id] # None, NEW k \in 1 .. n + 1,
                 Concerns(handled'[k], id)
          PROVE  handled'[k].time <= eng'.instances[id].last
      <4>1. CASE Concerns(e, id)
        <5>1. eng'.instances[id].last = e.time
          BY <2>3, <3>1, <4>1 DEF Touched
        <5> QED  BY <2>1, <2>5, <2>6, <2>7, <5>1
      <4>2. CASE ~Concerns(e, id)
        <5>1. eng.instances[id] # None /\ eng'.instances[id].last = eng.instances[id].last
          BY <2>3, <3>1, <4>2 DEF Touched
        <5>2. k \in 1 .. n /\ handled'[k] = handled[k]
          BY <2>6, <2>7, <3>1, <4>2
        <5> QED  BY <1>2, <3>1, <5>1, <5>2 DEF Unhurried, LastActive
      <4> QED  BY <4>1, <4>2
    <3>2. \A id \in Id : cuts'[id] \subseteq 1 .. n + 1
      <4>1. \A id \in Id : cuts[id] \subseteq 1 .. n
        BY DEF Unhurried, LastActive, n
      <4>2. 1 .. n \subseteq 1 .. n + 1 /\ n + 1 \in 1 .. n + 1
        BY <1>2
      <4> QED  BY <2>4, <4>1, <4>2
    <3> QED  BY <2>6, <3>1, <3>2 DEF LastActive
  <2>9. NoEarlyReclaim'
    <3> SUFFICES ASSUME NEW id \in Id, NEW c \in cuts'[id], NEW i \in 1 .. c - 1,
                        Concerns(handled'[i], id)
                 PROVE  handled'[c].time - handled'[i].time >= TTL
      BY DEF NoEarlyReclaim
    <3>1. CASE c \in cuts[id]
      <4>1. c \in 1 .. n
        BY <3>1 DEF Unhurried, LastActive, n
      <4>2. i \in 1 .. n
        BY <1>2, <4>1
      <4> QED  BY <2>6, <3>1, <4>1, <4>2 DEF Unhurried, NoEarlyReclaim
    <3>2. CASE c \notin cuts[id]
      <4>1. c = n + 1 /\ id \in Quiescent(FireDueDeadlines(eng, e.time), e.time)
        BY <2>4, <3>2
      <4>2. /\ eng.instances[id] # None /\ eng.instances[id].last \in Int
            /\ TTL \in Int /\ e.time - eng.instances[id].last >= TTL
        BY <2>1, <4>1, ReclaimedWasQuiet DEF Timers
      <4>3. i \in 1 .. n
        BY <1>2, <4>1
      <4>4. handled[i].time <= eng.instances[id].last /\ handled[i].time \in Int
        BY <1>2, <2>5, <2>6, <4>2, <4>3 DEF Unhurried, LastActive
      <4> QED  BY <2>1, <2>6, <4>1, <4>2, <4>3, <4>4
    <3> QED  BY <3>1, <3>2
  <2> QED  BY <2>8, <2>9 DEF Unhurried
<1> QED  BY <1>3, <1>4

(* Every step keeps that.                                                  *)
LEMMA StepUnhurried ==
  Shapes /\ Timers /\ Streamed /\ Trickled /\ Unhurried /\ [Next]_vars => Unhurried'
<1> SUFFICES ASSUME Shapes, Timers, Streamed, Trickled, Unhurried, [Next]_vars
             PROVE  Unhurried'
  OBVIOUS
<1>1. CASE HandleNext
  <2>1. NoneNewer(Head(batch))
    BY <1>1, WindowIsOrdered DEF HandleNext, Trickled
  <2> QED  BY <1>1, <2>1, HandleUnhurried
<1>2. ASSUME eng'.instances = eng.instances, UNCHANGED <<handled, cuts>>  PROVE Unhurried'
  BY <1>2 DEF Unhurried, LastActive, NoEarlyReclaim
<1>3. ASSUME NEW p \in BOOLEAN, Return(p)  PROVE Unhurried'
  <2>1. eng'.instances = eng.instances /\ UNCHANGED <<handled, cuts>>
    BY <1>3, EmitKeeps DEF Timers, Return
  <2> QED  BY <1>2, <2>1
<1>4. CASE UNCHANGED <<eng, handled, cuts>>
  BY <1>2, <1>4
<1> QED  BY <1>1, <1>3, <1>4 DEF Next, vars, Pull, EndOfSource

(* No id is reclaimed while an event of its lifetime is younger than TTL,  *)
(* for every TTL, grace and set of policies, and without a grace for every *)
(* source that yields its events in order.                                 *)
THEOREM NothingIsReclaimedEarly ==
  ASSUME SourceInOrder
  PROVE  Spec => []NoEarlyReclaim
<1> DEFINE Inv == ReplayInvariant /\ Trickled /\ Unhurried
<1>1. Init => Inv
  <2> SUFFICES ASSUME Init  PROVE Inv
    OBVIOUS
  <2>1. ReplayInvariant
    BY InitShapes, EmptyIsSound, InitStreamed, InitPassed, InitCounted
       DEF ReplayInvariant, Init, Timers
  <2>2. batch = <<>> /\ handled = <<>> /\ \A id \in Id : cuts[id] = {}
    BY DEF Init
  <2>3. Trickled /\ Unhurried
    BY <2>2 DEF Trickled, Unhurried, LastActive, NoEarlyReclaim
  <2> QED  BY <2>1, <2>3
<1>2. Inv /\ [Next]_vars => Inv'
  BY StepShapes, StepTimers, StepStreamed, StepPassed, StepCounted, StepTrickled, StepUnhurried
     DEF ReplayInvariant
<1>3. Inv => NoEarlyReclaim
  BY DEF Unhurried
<1> HIDE DEF Inv
<1> QED  BY <1>1, <1>2, <1>3, PTL DEF Spec

-----------------------------------------------------------------------------
(* Until the pending obligations are reported, the engine has a book on    *)
(* every id.                                                               *)
Booked ==
  IF phase = "reported" THEN batch = <<>> /\ VerdictsAreMeaning
  ELSE \A id \in Id : Book(eng, id, handled, cuts[id])

(* At the start nothing has happened to any id.                            *)
LEMMA InitBooked == Init => Booked
BY EmptyIsBooked DEF Init, Booked

(* An event that is not older than those handled enters the books.         *)
LEMMA HandleBooked ==
  ASSUME Shapes, Timers, NoneNewer(Head(batch)), \A p \in Policies : Life!WellPosed(p),
         phase # "reported", Booked, HandleNext
  PROVE  Booked'
<1> DEFINE e == Head(batch)
<1>1. eng' = HandleEvent(eng, e) /\ e \in Event /\ phase' = phase
  BY HandleShapes DEF HandleNext
<1>2. \A id \in Id : Book(eng, id, handled, cuts[id])
  BY DEF Booked
<1> HIDE DEF e
<1>3. CASE ~UsableTime(e.time)
  <2>1. handled' = handled /\ cuts' = cuts
    BY <1>3 DEF HandleNext, e
  <2>2. eng'.instances = eng.instances /\ eng'.verdicts = eng.verdicts
    BY <1>1, <1>3 DEF HandleEvent, Timers, EngineSound, EngineShape, EmptyEngine
  <2>3. \A id \in Id : Book(eng', id, handled, cuts[id])
    BY <1>2, <2>2 DEF Book
  <2> QED  BY <1>1, <2>1, <2>3 DEF Booked
<1>4. CASE UsableTime(e.time)
  <2>1. e \in Timely
    BY <1>1, <1>4 DEF Timely
  <2>2. handled' = Append(handled, e)
    BY <1>4, HandleShapes DEF e
  <2>3. \A k \in DOMAIN handled : handled[k].time <= e.time
    BY <1>4 DEF NoneNewer, e
  <2>4. ASSUME NEW id \in Id  PROVE Book(eng', id, handled', cuts'[id])
    <3> DEFINE reclaimed == id \in Quiescent(FireDueDeadlines(eng, e.time), e.time)
    <3>1. cuts'[id] = Cut(handled, cuts[id], reclaimed)
      BY <1>4 DEF HandleNext, Cut, e
    <3>2. Life!WellPosed(PolicyOf(id))
      BY PolicyOfId
    <3>3. Book(HandleEvent(eng, e), id, Append(handled, e), Cut(handled, cuts[id], reclaimed))
      BY <1>2, <2>1, <2>3, <3>2, HandleTracked DEF Timers
    <3> HIDE DEF reclaimed
    <3> QED  BY <1>1, <2>2, <3>1, <3>3
  <2> QED  BY <1>1, <2>4 DEF Booked
<1> QED  BY <1>3, <1>4

(* The books as they are say what the operators mean.                      *)
LEMMA BookedIsMeant ==
  ASSUME Booked  PROVE VerdictsAreMeaning
<1>1. CASE phase = "reported"
  BY <1>1 DEF Booked
<1>2. CASE phase # "reported"
  <2>1. \A id \in Id : Book(eng, id, handled, cuts[id])
    BY <1>2 DEF Booked
  <2>2. \A id \in Id : eng.verdicts[id] = Promised(handled, id, cuts[id])
    BY <2>1, BookSays
  <2> QED  BY <1>2, <2>2 DEF VerdictsAreMeaning
<1> QED  BY <1>1, <1>2

(* What is undecided at the end is reported last.                          *)
LEMMA ReturnBooked ==
  ASSUME Shapes, Timers, Booked, NEW emit \in BOOLEAN, Return(emit)
  PROVE  Booked'
<1>1. /\ phase = "flushed" /\ batch = <<>> /\ batch' = batch /\ handled' = handled /\ cuts' = cuts
      /\ IF emit THEN phase' = "reported" /\ eng' = EmitPending(eng)
         ELSE phase' = "returned" /\ eng' = eng
  BY DEF Return
<1>2. \A id \in Id : Book(eng, id, handled, cuts[id])
  BY <1>1 DEF Booked
<1>3. CASE ~emit
  BY <1>1, <1>2, <1>3 DEF Booked
<1>4. CASE emit
  <2>1. phase' = "reported" /\ eng' = EmitPending(eng)
    BY <1>1, <1>4
  <2>2. ASSUME NEW id \in Id
        PROVE  LET promised == Promised(handled, id, cuts[id])
                   pending  == StillPending(handled, id, cuts[id])
                   vs       == eng'.verdicts[id]
               IN IF pending = {} THEN vs = promised
                  ELSE LET v == vs[Len(promised) + 1]
                       IN /\ vs = Append(promised, v)
                          /\ v.verdict = "pending" /\ v.at = handled[Latest(pending)].time
    <3> DEFINE promised == Promised(handled, id, cuts[id])
               pending == StillPending(handled, id, cuts[id])
               u == [verdict |-> "pending", at |-> eng.instances[id].last,
                     because |-> DecidingEvents(PolicyOf(id), eng.instances[id].monitor)]
    <3>1. /\ eng.verdicts[id] = promised /\ IsSequence(promised)
          /\ id \in Pending(eng) => pending # {} /\ handled[Latest(pending)].time = eng.instances[id].last
          /\ id \notin Pending(eng) => pending = {}
      BY <1>2, BookSays
    <3>2. eng'.verdicts[id] = IF id \notin Pending(eng) THEN eng.verdicts[id]
                              ELSE Append(eng.verdicts[id], u)
      BY <2>1 DEF EmitPending, Timers, EngineSound, EngineShape, EmptyEngine
    <3>3. u.verdict = "pending" /\ u.at = eng.instances[id].last
      OBVIOUS
    <3> HIDE DEF promised, pending, u
    <3>4. Append(promised, u)[Len(promised) + 1] = u
      <4> DEFINE V == {promised[k] : k \in DOMAIN promised}
      <4>1. promised \in Seq(V)
        BY <3>1 DEF IsSequence
      <4> HIDE DEF V
      <4> QED  BY <4>1
    <3> QED  BY <3>1, <3>2, <3>3, <3>4 DEF promised, pending
  <2>3. VerdictsAreMeaning'
    BY <1>1, <2>1, <2>2 DEF VerdictsAreMeaning
  <2> QED  BY <1>1, <2>1, <2>3 DEF Booked
<1> QED  BY <1>3, <1>4

(* Every step keeps the books.                                             *)
LEMMA StepBooked ==
  ASSUME \A p \in Policies : Life!WellPosed(p)
  PROVE  Shapes /\ Timers /\ Streamed /\ Trickled /\ Booked /\ [Next]_vars => Booked'
<1> SUFFICES ASSUME Shapes, Timers, Streamed, Trickled, Booked, [Next]_vars
             PROVE  Booked'
  OBVIOUS
<1>1. CASE HandleNext
  <2>1. NoneNewer(Head(batch))
    BY <1>1, WindowIsOrdered DEF HandleNext, Trickled
  <2>2. phase # "reported"
    BY <1>1 DEF HandleNext, Booked
  <2> QED  BY <1>1, <2>1, <2>2, HandleBooked
<1>2. ASSUME phase # "reported", phase' # "reported", UNCHANGED <<eng, handled, cuts>>
      PROVE  Booked'
  BY <1>2 DEF Booked
<1>3. ASSUME NEW p \in BOOLEAN, Return(p)  PROVE Booked'
  BY <1>3, ReturnBooked
<1>4. ASSUME NEW e \in Event, Pull(e)  PROVE Booked'
  BY <1>2, <1>4 DEF Pull
<1>5. CASE EndOfSource
  BY <1>2, <1>5 DEF EndOfSource
<1>6. CASE UNCHANGED vars
  BY <1>6 DEF vars, Booked, VerdictsAreMeaning
<1> QED  BY <1>1, <1>3, <1>4, <1>5, <1>6 DEF Next

(* The verdicts of every id are those the operators define over its trace, *)
(* lifetime after lifetime, for every stream, grace, TTL, set of keys and  *)
(* set of policies that are well posed: a within allows more than no time, *)
(* and no status both opens and closes a scope.  Without a grace the       *)
(* source has to yield its events in event-time order (engine/loop.py,     *)
(* _handle_event; engine/monitors.py).                                     *)
THEOREM EngineMeansWhatItPromises ==
  ASSUME SourceInOrder, \A p \in Policies : Life!WellPosed(p)
  PROVE  Spec => []VerdictsAreMeaning
<1> DEFINE Inv == ReplayInvariant /\ Trickled /\ Booked
<1>1. Init => Inv
  <2> SUFFICES ASSUME Init  PROVE Inv
    OBVIOUS
  <2>1. ReplayInvariant
    BY InitShapes, EmptyIsSound, InitStreamed, InitPassed, InitCounted
       DEF ReplayInvariant, Init, Timers
  <2>2. batch = <<>> /\ handled = <<>>
    BY DEF Init
  <2>3. Trickled
    BY <2>2 DEF Trickled
  <2> QED  BY <2>1, <2>3, InitBooked
<1>2. Inv /\ [Next]_vars => Inv'
  BY StepShapes, StepTimers, StepStreamed, StepPassed, StepCounted, StepTrickled, StepBooked
     DEF ReplayInvariant
<1>3. Inv => VerdictsAreMeaning
  BY BookedIsMeant
<1> HIDE DEF Inv
<1> QED  BY <1>1, <1>2, <1>3, PTL DEF Spec
=============================================================================
