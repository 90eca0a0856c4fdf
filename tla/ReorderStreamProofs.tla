------------------------- MODULE ReorderStreamProofs -------------------------
(***************************************************************************)
(* The properties of ReorderStream for every grace, every set of events    *)
(* and any number of them, and its refinement of CanonicalStream.          *)
(*                                                                         *)
(* CanonicalOrder is not inductive alone: it survives a release only       *)
(* because what is held lies at or above the watermark and what was        *)
(* released lies below it.  IInv adds that split, and why the watermark    *)
(* stands where it does.                                                   *)
(***************************************************************************)
EXTENDS ReorderStream, FiniteSetTheorems, FunctionTheorems, SequenceTheorems, TLAPS

-----------------------------------------------------------------------------
(* The canonical order: a strict total order on the entries of one buffer, *)
(* in which InOrder enumerates a finite set of them.                       *)

(* Entries as push() makes them: comparable times and contents, and a seq  *)
(* of their own.                                                           *)
Comparable(S) ==
  \A x \in S : x.event.time \in Int /\ x.event.tie \in Int /\ x.seq \in Int
Numbered(S) == \A x, y \in S : x.seq = y.seq => x = y

(* The heap key (event_time, tie-break, seq) compares any two entries.     *)
LEMMA BeforeIsStrictOrder ==
  ASSUME NEW S, Comparable(S), Numbered(S)
  PROVE  /\ \A x \in S : ~Before(x, x)
         /\ \A x, y, z \in S : Before(x, y) /\ Before(y, z) => Before(x, z)
         /\ \A x, y \in S : x # y => Before(x, y) \/ Before(y, x)
BY DEF Comparable, Numbered, Before

(* Ranks follow the order and stay below the number of entries.            *)
LEMMA RankFacts ==
  ASSUME NEW S, IsFiniteSet(S), Comparable(S), Numbered(S)
  PROVE  /\ \A x \in S : Rank(x, S) \in 0 .. Cardinality(S) - 1
         /\ \A x, y \in S : Before(x, y) => Rank(x, S) < Rank(y, S)
<1> DEFINE Below(x) == {y \in S : Before(y, x)}
<1>0. \A x : Rank(x, S) = Cardinality(Below(x))
  BY DEF Rank
<1>1. \A x \in S : IsFiniteSet(Below(x)) /\ Cardinality(Below(x)) \in Nat
  <2> TAKE x \in S
  <2>1. Below(x) \in SUBSET S  OBVIOUS
  <2> QED  BY <2>1, FS_Subset, FS_CardinalityType
<1>2. ASSUME NEW x \in S  PROVE Rank(x, S) \in 0 .. Cardinality(S) - 1
  <2>1. Below(x) \in SUBSET (S \ {x})
    BY BeforeIsStrictOrder
  <2>2. IsFiniteSet(S \ {x}) /\ Cardinality(S \ {x}) = Cardinality(S) - 1
    BY FS_RemoveElement
  <2>3. Cardinality(Below(x)) <= Cardinality(S) - 1
    BY <2>1, <2>2, FS_Subset
  <2>4. Cardinality(S) \in Nat
    BY FS_CardinalityType
  <2> HIDE DEF Below
  <2> QED  BY <1>0, <1>1, <2>3, <2>4
<1>3. ASSUME NEW x \in S, NEW y \in S, Before(x, y)
      PROVE  Rank(x, S) < Rank(y, S)
  <2>1. Below(x) \cup {x} \in SUBSET Below(y)
    BY <1>3, BeforeIsStrictOrder
  <2>2. x \notin Below(x)
    BY BeforeIsStrictOrder
  <2>3. Cardinality(Below(x) \cup {x}) = Cardinality(Below(x)) + 1
    BY <1>1, <2>2, FS_AddElement
  <2>4. Cardinality(Below(x) \cup {x}) <= Cardinality(Below(y))
    BY <1>1, <2>1, FS_Subset
  <2> HIDE DEF Below
  <2> QED  BY <1>0, <1>1, <2>3, <2>4
<1> QED  BY <1>2, <1>3

(* Every position is taken: the ranks are exactly 0 .. Cardinality(S) - 1. *)
LEMMA RankOnto ==
  ASSUME NEW S, IsFiniteSet(S), Comparable(S), Numbered(S),
         NEW k \in 0 .. Cardinality(S) - 1
  PROVE  \E x \in S : Rank(x, S) = k
<1> DEFINE T == 0 .. Cardinality(S) - 1
           f == [x \in S |-> Rank(x, S)]
<1>1. Cardinality(S) \in Nat
  BY FS_CardinalityType
<1>2. IsFiniteSet(T) /\ Cardinality(T) = Cardinality(S)
  BY <1>1, FS_Interval
<1>3. f \in [S -> T]
  BY RankFacts
<1>4. \A x, y \in S : f[x] = f[y] => x = y
  <2> TAKE x \in S, y \in S
  <2>1. x # y => Rank(x, S) < Rank(y, S) \/ Rank(y, S) < Rank(x, S)
    BY BeforeIsStrictOrder, RankFacts
  <2> QED  BY <2>1, RankFacts
<1>5. f \in Injection(S, T)
  BY <1>3, <1>4 DEF Injection, IsInjective
<1>6. f \in Surjection(S, T)
  BY <1>2, <1>5, FS_Injection
<1> QED  BY <1>6 DEF Surjection

(* What heappop returns until the heap is empty: all of it, in order.      *)
THEOREM InOrderSorts ==
  ASSUME NEW S, IsFiniteSet(S), Comparable(S), Numbered(S)
  PROVE  /\ InOrder(S) \in Seq(S)
         /\ Len(InOrder(S)) = Cardinality(S)
         /\ \A x \in S : \E i \in 1 .. Cardinality(S) : InOrder(S)[i] = x
         /\ \A i, j \in 1 .. Cardinality(S) :
              i < j => Before(InOrder(S)[i], InOrder(S)[j])
<1> DEFINE n == Cardinality(S)
           s == InOrder(S)
<1>1. n \in Nat
  BY FS_CardinalityType
<1>2. \A i \in 1 .. n : s[i] \in S /\ Rank(s[i], S) = i - 1
  <2> TAKE i \in 1 .. n
  <2>1. i - 1 \in 0 .. n - 1
    BY <1>1
  <2>2. \E x \in S : Rank(x, S) = i - 1
    BY <2>1, RankOnto
  <2>3. s[i] = CHOOSE x \in S : Rank(x, S) = i - 1
    BY DEF InOrder
  <2> QED  BY <2>2, <2>3
<1>3. s \in [1 .. n -> S]
  BY <1>2 DEF InOrder
<1>4. s \in Seq(S) /\ Len(s) = n
  BY <1>1, <1>3
<1>5. \A x, y \in S : Rank(x, S) = Rank(y, S) => x = y
  <2> TAKE x \in S, y \in S
  <2>1. x # y => Rank(x, S) < Rank(y, S) \/ Rank(y, S) < Rank(x, S)
    BY BeforeIsStrictOrder, RankFacts
  <2> QED  BY <2>1, RankFacts
<1>6. \A x \in S : \E i \in 1 .. n : s[i] = x
  <2> TAKE x \in S
  <2>1. Rank(x, S) \in 0 .. n - 1
    BY RankFacts
  <2>2. Rank(x, S) + 1 \in 1 .. n
    BY <1>1, <2>1
  <2>3. s[Rank(x, S) + 1] = x
    BY <1>1, <1>2, <1>5, <2>1, <2>2
  <2> QED  BY <2>2, <2>3
<1>7. ASSUME NEW i \in 1 .. n, NEW j \in 1 .. n, i < j
      PROVE  Before(s[i], s[j])
  <2>1. s[i] \in S /\ s[j] \in S /\ Rank(s[i], S) < Rank(s[j], S)
    BY <1>2, <1>7
  <2>2. s[i] # s[j] /\ ~Before(s[j], s[i])
    BY <2>1, RankFacts
  <2> QED  BY <2>1, <2>2, BeforeIsStrictOrder
<1> QED  BY <1>4, <1>6, <1>7

-----------------------------------------------------------------------------

(* The watermark separates the released entries from the held ones. *)
Separated ==
  /\ IsFiniteSet(buffer.heap)
  /\ NothingRipeHeld
  /\ \A i \in DOMAIN released : released[i].event.time < buffer.watermark

(* Only an admitted event, a wall commit or the flush moves the clock.     *)
Justified ==
  /\ \/ AdmittedFrom(buffer.maxSeen)
     \/ buffer.maxSeen <= committed + Grace + 1
  /\ \/ AdmittedFrom(buffer.watermark + Grace)
     \/ buffer.watermark <= committed + 1
     \/ flushed
  /\ committed = NegInf \/ committed < buffer.watermark
  /\ buffer.maxSeen < PosInf /\ buffer.watermark <= PosInf

IInv == /\ TypeOK
        /\ Separated
        /\ CanonicalOrder
        /\ ExactlyOnce
        /\ Justified
        /\ GraceHonoured

-----------------------------------------------------------------------------
(* The shape shared by releasable(), a wall fire and flush(): the          *)
(* watermark moves up, and exactly what is now below it is handed over.    *)
Passed == {x \in buffer.heap : x.event.time < buffer'.watermark}

Handover ==
  /\ buffer' = [heap |-> buffer.heap \ Passed, seq |-> buffer.seq,
                maxSeen |-> buffer'.maxSeen, watermark |-> buffer'.watermark,
                late |-> buffer.late, invalid |-> buffer.invalid]
  /\ buffer'.watermark \in Int /\ buffer.watermark <= buffer'.watermark
  /\ buffer'.maxSeen \in Int /\ buffer.maxSeen <= buffer'.maxSeen
  /\ released' = released \o InOrder(Passed)
  /\ offered' = offered

(* The assumptions about times in the form the proofs use.                 *)
LEMMA EventTimes ==
  /\ \A e \in Usable : /\ e.time \in Int /\ e.tie \in Int
                       /\ NegInf < e.time /\ e.time < PosInf
  /\ \A m \in Moment : m \in Int /\ NegInf < m /\ m + Grace + 1 < PosInf
  /\ NegInf \in Int /\ PosInf \in Int /\ NegInf < PosInf /\ Grace \in Nat
BY BufferAssumption, StreamAssumption DEF Usable, UsableTime, NextAfter

(* Held entries have numbers and times that can be compared.               *)
LEMMA HeapEntries ==
  ASSUME TypeOK
  PROVE  /\ buffer.heap \subseteq Entries
         /\ Comparable(buffer.heap)
         /\ \A x \in buffer.heap : /\ x.event.time \in Int
                                   /\ NegInf < x.event.time /\ x.event.time < PosInf
BY EventTimes DEF TypeOK, BufferType, Entries, Comparable

(* releasable() hands over what lies below the watermark.                  *)
LEMMA ReleasableHandsOver ==
  ASSUME TypeOK, DoReleasable
  PROVE  /\ Handover
         /\ buffer'.watermark = Larger(buffer.watermark, buffer.maxSeen - Grace)
         /\ buffer'.maxSeen = buffer.maxSeen
         /\ committed' = committed /\ flushed' = flushed
<1> USE BufferAssumption DEF TypeOK, BufferType
<1>1. /\ buffer'.watermark = Larger(buffer.watermark, buffer.maxSeen - Grace)
      /\ buffer'.maxSeen = buffer.maxSeen
  BY DEF DoReleasable, AfterReleasable, Drained, MoveWatermark
<1>2. Ripe(MoveWatermark(buffer)) = Passed
  BY <1>1 DEF Ripe, MoveWatermark, Passed
<1>3. buffer' = [buffer EXCEPT !.heap = @ \ Passed, !.watermark = buffer'.watermark]
  BY <1>1, <1>2 DEF DoReleasable, AfterReleasable, Drained, MoveWatermark
<1>4. released' = released \o InOrder(Passed)
  BY <1>2 DEF DoReleasable, Releasable
<1>5. buffer' = [heap |-> buffer.heap \ Passed, seq |-> buffer.seq,
                 maxSeen |-> buffer'.maxSeen, watermark |-> buffer'.watermark,
                 late |-> buffer.late, invalid |-> buffer.invalid]
  BY <1>1, <1>3
<1>6. /\ buffer'.watermark \in Int /\ buffer.watermark <= buffer'.watermark
      /\ buffer'.maxSeen \in Int /\ buffer.maxSeen <= buffer'.maxSeen
  BY <1>1 DEF Larger
<1>7. Handover
  BY <1>4, <1>5, <1>6 DEF DoReleasable, Handover
<1> QED  BY <1>1, <1>7 DEF DoReleasable

(* The larger of two integers is an integer not below either.              *)
LEMMA LargerIsUpper ==
  ASSUME NEW a \in Int, NEW b \in Int
  PROVE  Larger(a, b) \in Int /\ a <= Larger(a, b) /\ b <= Larger(a, b)
BY DEF Larger

(* So does a wall fire, having moved the watermark past its moment.        *)
LEMMA WallFireHandsOver ==
  ASSUME TypeOK, NEW m \in Moment, DoWallFire(m)
  PROVE  /\ Handover
         /\ buffer'.watermark = Larger(buffer.watermark, m + 1)
         /\ buffer'.maxSeen = Larger(buffer.maxSeen, m + Grace + 1)
         /\ committed' = Larger(committed, m) /\ flushed' = flushed
<1> DEFINE b == AdvanceClock(buffer, NextAfter(m + Grace))
<1> USE EventTimes DEF TypeOK, BufferType
<1>1. CommitThrough(b, m) = [buffer EXCEPT
          !.maxSeen = Larger(@, m + Grace + 1), !.watermark = Larger(@, m + 1)]
  BY DEF CommitThrough, AdvanceClock, NextAfter
<1>2. /\ buffer'.watermark = Larger(buffer.watermark, m + 1)
      /\ buffer'.maxSeen = Larger(buffer.maxSeen, m + Grace + 1)
  BY <1>1 DEF DoWallFire, AfterReleaseThrough, Drained
<1>3. Ripe(CommitThrough(b, m)) = Passed
  BY <1>1, <1>2 DEF Ripe, Passed
<1>4. buffer' = [buffer EXCEPT !.heap = @ \ Passed,
                 !.watermark = buffer'.watermark, !.maxSeen = buffer'.maxSeen]
  BY <1>1, <1>2, <1>3 DEF DoWallFire, AfterReleaseThrough, Drained
<1>5. released' = released \o InOrder(Passed)
  BY <1>3 DEF DoWallFire, ReleaseThrough
<1>6. buffer' = [heap |-> buffer.heap \ Passed, seq |-> buffer.seq,
                 maxSeen |-> buffer'.maxSeen, watermark |-> buffer'.watermark,
                 late |-> buffer.late, invalid |-> buffer.invalid]
  BY <1>2, <1>4
<1>7. /\ buffer'.watermark \in Int /\ buffer.watermark <= buffer'.watermark
      /\ buffer'.maxSeen \in Int /\ buffer.maxSeen <= buffer'.maxSeen
  <2>1. /\ buffer.watermark \in Int /\ buffer.maxSeen \in Int
        /\ m + 1 \in Int /\ m + Grace + 1 \in Int
    OBVIOUS
  <2> QED  BY ONLY <1>2, <2>1, LargerIsUpper
<1>8. Handover
  BY <1>5, <1>6, <1>7 DEF DoWallFire, Handover
<1> QED  BY <1>2, <1>8 DEF DoWallFire

(* So does the flush, having moved it to the end of time.                  *)
LEMMA FlushHandsOver ==
  ASSUME TypeOK, buffer.watermark <= PosInf, DoFlush
  PROVE  /\ Handover
         /\ buffer'.watermark = PosInf /\ buffer'.maxSeen = buffer.maxSeen
         /\ committed' = committed /\ flushed' = TRUE
<1> USE EventTimes DEF TypeOK, BufferType
<1>1. buffer'.watermark = PosInf /\ buffer'.maxSeen = buffer.maxSeen
  BY DEF DoFlush, AfterFlush
<1>2. buffer.heap = Passed
  BY <1>1, HeapEntries DEF Passed
<1>3. buffer' = [buffer EXCEPT !.heap = @ \ Passed, !.watermark = buffer'.watermark]
  BY <1>1, <1>2 DEF DoFlush, AfterFlush
<1>4. released' = released \o InOrder(Passed)
  BY <1>2 DEF DoFlush, Flush
<1>5. buffer' = [heap |-> buffer.heap \ Passed, seq |-> buffer.seq,
                 maxSeen |-> buffer'.maxSeen, watermark |-> buffer'.watermark,
                 late |-> buffer.late, invalid |-> buffer.invalid]
  BY <1>1, <1>3
<1>6. Handover
  BY <1>1, <1>4, <1>5 DEF DoFlush, Handover
<1> QED  BY <1>1, <1>6 DEF DoFlush

-----------------------------------------------------------------------------
(* ConcatProperties for a sequence that is known to be a concatenation.    *)
LEMMA Appended ==
  ASSUME NEW S, NEW r \in Seq(S), NEW s \in Seq(S), NEW t, t = r \o s
  PROVE  /\ t \in Seq(S)
         /\ Len(t) = Len(r) + Len(s)
         /\ \A i \in 1 .. Len(r) + Len(s) :
              t[i] = IF i <= Len(r) THEN r[i] ELSE s[i - Len(r)]
BY ConcatProperties

(* What a handover does to the released sequence.                          *)
LEMMA HandoverAppends ==
  ASSUME TypeOK, IsFiniteSet(buffer.heap), Numbered(buffer.heap), Handover
  PROVE  LET n == Len(released)
             k == Cardinality(Passed)
         IN  /\ n \in Nat /\ k \in Nat
             /\ released' \in Seq(Entries)
             /\ DOMAIN released = 1 .. n /\ DOMAIN released' = 1 .. n + k
             /\ \A i \in 1 .. n : released'[i] = released[i]
             /\ \A i \in n + 1 .. n + k : released'[i] \in Passed
             /\ \A x \in Passed : \E i \in n + 1 .. n + k : released'[i] = x
             /\ \A i, j \in n + 1 .. n + k :
                  i < j => Before(released'[i], released'[j])
<1> DEFINE n == Len(released)
           k == Cardinality(Passed)
           s == InOrder(Passed)
<1>1. Passed \subseteq buffer.heap /\ Passed \subseteq Entries
  BY HeapEntries DEF Passed
<1>2. IsFiniteSet(Passed) /\ k \in Nat
  BY <1>1, FS_Subset, FS_CardinalityType
<1>3. Comparable(Passed) /\ Numbered(Passed)
  BY <1>1, HeapEntries DEF Comparable, Numbered
<1>4. /\ s \in Seq(Passed)
      /\ Len(s) = k
      /\ \A x \in Passed : \E i \in 1 .. k : s[i] = x
      /\ \A i, j \in 1 .. k : i < j => Before(s[i], s[j])
  BY <1>2, <1>3, InOrderSorts
<1>5. released \in Seq(Entries) /\ s \in Seq(Entries) /\ released' = released \o s
  BY <1>1, <1>4, SeqMonotonic DEF TypeOK, Handover
<1>6. n \in Nat /\ DOMAIN released = 1 .. n
  BY <1>5, LenProperties
<1> HIDE DEF s, k
<1>7. /\ released' \in Seq(Entries)
      /\ Len(released') = n + k
      /\ \A i \in 1 .. n + k : released'[i] = IF i <= n THEN released[i] ELSE s[i - n]
  <2>1. Len(s) = k
    BY <1>4
  <2>2. /\ released' \in Seq(Entries)
        /\ Len(released') = Len(released) + Len(s)
        /\ \A i \in 1 .. Len(released) + Len(s) :
             released'[i] = IF i <= Len(released) THEN released[i] ELSE s[i - Len(released)]
    BY <1>5, Appended
  <2> QED  BY <2>1, <2>2
<1>8. DOMAIN released' = 1 .. n + k
  BY <1>7, LenProperties
<1> HIDE DEF n
<1>9. \A i \in 1 .. n : released'[i] = released[i]
  BY <1>2, <1>6, <1>7
<1>10. \A i \in n + 1 .. n + k : i - n \in 1 .. k /\ released'[i] = s[i - n]
  BY <1>2, <1>6, <1>7
<1>11. \A i \in n + 1 .. n + k : released'[i] \in Passed
  BY <1>4, <1>10, ElementOfSeq
<1>12. ASSUME NEW x \in Passed  PROVE \E i \in n + 1 .. n + k : released'[i] = x
  <2>1. PICK i \in 1 .. k : s[i] = x
    BY <1>4
  <2>2. i + n \in n + 1 .. n + k /\ (i + n) - n = i
    BY <1>2, <1>6
  <2> QED  BY <1>10, <2>1, <2>2
<1>13. ASSUME NEW i \in n + 1 .. n + k, NEW j \in n + 1 .. n + k, i < j
       PROVE  Before(released'[i], released'[j])
  <2>1. i - n < j - n
    BY <1>2, <1>6, <1>13
  <2> QED  BY <1>4, <1>10, <2>1
<1> QED
  BY <1>2, <1>6, <1>7, <1>8, <1>9, <1>11, <1>12, <1>13 DEF n, k, s

(* Where an entry is does not matter to AdmittedFrom: a handover keeps it. *)
LEMMA HandoverKeepsAdmitted ==
  ASSUME TypeOK, IsFiniteSet(buffer.heap), Numbered(buffer.heap), Handover,
         NEW t \in Int, AdmittedFrom(t)
  PROVE  AdmittedFrom(t)'
<1>1. CASE \E x \in buffer.heap : t <= x.event.time
  <2>1. PICK x \in buffer.heap : t <= x.event.time
    BY <1>1
  <2>2. CASE x \in Passed
    BY <2>1, <2>2, HandoverAppends DEF AdmittedFrom
  <2>3. CASE x \notin Passed
    BY <2>1, <2>3 DEF AdmittedFrom, Handover
  <2> QED  BY <2>2, <2>3
<1>2. CASE \E i \in DOMAIN released : t <= released[i].event.time
  BY <1>2, HandoverAppends DEF AdmittedFrom
<1> QED  BY <1>1, <1>2 DEF AdmittedFrom

(* A handover keeps the split at the watermark, the order and the account. *)
LEMMA HandoverPreserves ==
  ASSUME TypeOK, Separated, CanonicalOrder, ExactlyOnce, Handover
  PROVE  /\ buffer' \in BufferType
         /\ \A x \in buffer'.heap : x.seq < buffer'.seq
         /\ \A i \in DOMAIN released' : released'[i].seq < buffer'.seq
         /\ released' \in Seq(Entries)
         /\ Separated' /\ CanonicalOrder' /\ ExactlyOnce'
<1> DEFINE n == Len(released)
           k == Cardinality(Passed)
<1>1. IsFiniteSet(buffer.heap) /\ Numbered(buffer.heap)
  BY DEF Separated, ExactlyOnce, Numbered
<1>2. /\ n \in Nat /\ k \in Nat
      /\ released' \in Seq(Entries)
      /\ DOMAIN released = 1 .. n /\ DOMAIN released' = 1 .. n + k
      /\ \A i \in 1 .. n : released'[i] = released[i]
      /\ \A i \in n + 1 .. n + k : released'[i] \in Passed
      /\ \A x \in Passed : \E i \in n + 1 .. n + k : released'[i] = x
      /\ \A i, j \in n + 1 .. n + k : i < j => Before(released'[i], released'[j])
  BY <1>1, HandoverAppends
<1> HIDE DEF n, k
<1>3. /\ buffer'.heap = buffer.heap \ Passed
      /\ buffer'.seq = buffer.seq /\ buffer'.late = buffer.late
      /\ buffer'.invalid = buffer.invalid
      /\ buffer'.watermark \in Int /\ buffer.watermark \in Int
      /\ buffer.watermark <= buffer'.watermark
  BY DEF Handover, TypeOK, BufferType
<1>4. /\ buffer' \in BufferType
      /\ \A x \in buffer'.heap : x.seq < buffer'.seq
  BY <1>3 DEF Handover, TypeOK, BufferType
<1>5. \A x \in Passed : x \in buffer.heap /\ x.event.time < buffer'.watermark
  BY DEF Passed
<1>6. \A i \in 1 .. n : released[i].event.time \in Int
  <2> TAKE i \in 1 .. n
  <2>1. released[i] \in Entries
    BY ElementOfSeq DEF TypeOK, n
  <2> QED  BY <2>1, EventTimes DEF Entries
<1>7. Separated'
  <2>1. IsFiniteSet(buffer'.heap)
    BY <1>1, <1>3, FS_Difference
  <2>2. NothingRipeHeld'
    BY <1>3, HeapEntries DEF NothingRipeHeld, Passed
  <2>3. ASSUME NEW i \in DOMAIN released'
        PROVE  released'[i].event.time < buffer'.watermark
    <3>1. CASE i \in 1 .. n
      BY <1>2, <1>3, <1>6, <3>1 DEF Separated
    <3>2. CASE i \in n + 1 .. n + k
      BY <1>2, <1>5, <3>2
    <3> QED  BY <1>2, <3>1, <3>2
  <2> QED  BY <2>1, <2>2, <2>3 DEF Separated
<1>8. CanonicalOrder'
  <2> SUFFICES ASSUME NEW i \in DOMAIN released', NEW j \in DOMAIN released', i < j
               PROVE  Before(released'[i], released'[j])
    BY DEF CanonicalOrder
  <2>1. CASE i \in 1 .. n /\ j \in 1 .. n
    BY <1>2, <2>1 DEF CanonicalOrder
  <2>2. CASE i \in n + 1 .. n + k /\ j \in n + 1 .. n + k
    BY <1>2, <2>2
  <2>3. CASE i \in 1 .. n /\ j \in n + 1 .. n + k
    <3>1. released'[i].event.time < buffer.watermark /\ released'[i].event.time \in Int
      BY <1>2, <1>6, <2>3 DEF Separated
    <3>2. released'[j] \in buffer.heap
      BY <1>2, <1>5, <2>3
    <3>3. buffer.watermark <= released'[j].event.time /\ released'[j].event.time \in Int
      BY <3>2, HeapEntries DEF Separated, NothingRipeHeld
    <3> QED  BY <1>3, <3>1, <3>3 DEF Before
  <2> QED  BY <1>2, <2>1, <2>2, <2>3
<1>9. ExactlyOnce'
  <2>1. offered' = buffer'.seq + Len(buffer'.late) + Len(buffer'.invalid)
    BY <1>3 DEF ExactlyOnce, Handover
  <2>2. ASSUME NEW m \in 0 .. buffer'.seq - 1
        PROVE  \/ \E x \in buffer'.heap : x.seq = m
               \/ \E i \in DOMAIN released' : released'[i].seq = m
    <3>1. CASE \E x \in buffer.heap : x.seq = m
      BY <1>2, <1>3, <3>1
    <3>2. CASE \E i \in DOMAIN released : released[i].seq = m
      BY <1>2, <3>2
    <3> QED  BY <1>3, <2>2, <3>1, <3>2 DEF ExactlyOnce
  <2>3. ASSUME NEW x \in buffer'.heap, NEW i \in DOMAIN released'
        PROVE  x.seq # released'[i].seq
    <3>1. x \in buffer.heap /\ x \notin Passed
      BY <1>3
    <3>2. CASE i \in 1 .. n
      BY <1>2, <3>1, <3>2 DEF ExactlyOnce
    <3>3. CASE i \in n + 1 .. n + k
      BY <1>2, <1>5, <3>1, <3>3 DEF ExactlyOnce
    <3> QED  BY <1>2, <3>2, <3>3
  <2>4. \A x, y \in buffer'.heap : x.seq = y.seq => x = y
    BY <1>3 DEF ExactlyOnce
  <2>5. ASSUME NEW i \in DOMAIN released', NEW j \in DOMAIN released',
               released'[i].seq = released'[j].seq
        PROVE  i = j
    <3>1. CASE i \in 1 .. n /\ j \in 1 .. n
      BY <1>2, <2>5, <3>1 DEF ExactlyOnce
    <3>2. CASE i \in n + 1 .. n + k /\ j \in n + 1 .. n + k
      <4>1. released'[i] = released'[j] /\ released'[i] \in buffer.heap
        BY <1>2, <1>5, <2>5, <3>2 DEF ExactlyOnce
      <4>2. ~Before(released'[i], released'[i])
        BY <1>1, <4>1, HeapEntries, BeforeIsStrictOrder
      <4>3. ~(i < j) /\ ~(j < i)
        BY <1>2, <3>2, <4>1, <4>2
      <4> QED  BY <1>2, <3>2, <4>3
    <3>3. CASE i \in 1 .. n /\ j \in n + 1 .. n + k
      BY <1>2, <1>5, <2>5, <3>3 DEF ExactlyOnce
    <3>4. CASE j \in 1 .. n /\ i \in n + 1 .. n + k
      BY <1>2, <1>5, <2>5, <3>4 DEF ExactlyOnce
    <3> QED  BY <1>2, <3>1, <3>2, <3>3, <3>4
  <2> QED  BY <2>1, <2>2, <2>3, <2>4, <2>5 DEF ExactlyOnce
<1>10. ASSUME NEW i \in DOMAIN released'
       PROVE  released'[i].seq < buffer'.seq
  <2>1. CASE i \in 1 .. n
    BY <1>2, <1>3, <2>1 DEF TypeOK
  <2>2. CASE i \in n + 1 .. n + k
    BY <1>2, <1>3, <1>5, <2>2 DEF TypeOK
  <2> QED  BY <1>2, <2>1, <2>2
<1> QED  BY <1>2, <1>4, <1>7, <1>8, <1>9, <1>10

-----------------------------------------------------------------------------
(* The three outcomes of push(). *)
LEMMA PushOutcome ==
  ASSUME TypeOK, NEW e \in Event, DoPush(e)
  PROVE  /\ offered' = offered + 1
         /\ UNCHANGED <<released, committed, flushed>>
         /\ buffer' \in BufferType
         /\ buffer'.watermark = buffer.watermark
         /\ \/ /\ e \notin Usable
               /\ buffer' = [buffer EXCEPT !.invalid = Append(@, e)]
            \/ /\ e \in Usable /\ e.time < buffer.watermark
               /\ buffer' = [buffer EXCEPT !.late = Append(@, e)]
            \/ /\ e \in Usable /\ buffer.watermark <= e.time
               /\ buffer' = [buffer EXCEPT !.heap = @ \cup {Entry(e, buffer.seq)},
                                           !.seq = @ + 1,
                                           !.maxSeen = Larger(@, e.time)]
<1> USE DEF TypeOK, BufferType
<1>1. CASE e \notin Usable
  <2>1. buffer' = [buffer EXCEPT !.invalid = Append(@, e)]
    BY <1>1 DEF DoPush, Push, Usable
  <2>2. e \in Event \ Usable
    BY <1>1
  <2>3. Append(buffer.invalid, e) \in Seq(Event \ Usable)
    BY <2>2
  <2>4. buffer' \in BufferType /\ buffer'.watermark = buffer.watermark
    BY <2>1, <2>3
  <2> QED  BY <1>1, <2>1, <2>4 DEF DoPush
<1>2. CASE e \in Usable /\ e.time < buffer.watermark
  <2>1. buffer' = [buffer EXCEPT !.late = Append(@, e)]
    BY <1>2 DEF DoPush, Push, Usable
  <2>2. Append(buffer.late, e) \in Seq(Usable)
    BY <1>2
  <2>3. buffer' \in BufferType /\ buffer'.watermark = buffer.watermark
    BY <2>1, <2>2
  <2> QED  BY <1>2, <2>1, <2>3 DEF DoPush
<1>3. CASE e \in Usable /\ buffer.watermark <= e.time
  <2>1. e.time \in Int
    BY <1>3, EventTimes
  <2>2. buffer' = [buffer EXCEPT !.heap = @ \cup {Entry(e, buffer.seq)},
                                 !.seq = @ + 1,
                                 !.maxSeen = Larger(@, e.time)]
    BY <1>3, <2>1 DEF DoPush, Push, Usable
  <2>3. Entry(e, buffer.seq) \in Entries
    BY <1>3 DEF Entry, Entries
  <2>4. Larger(buffer.maxSeen, e.time) \in Int
    BY <2>1 DEF Larger
  <2>5. buffer.heap \cup {Entry(e, buffer.seq)} \in SUBSET Entries
    BY <2>3
  <2>6. buffer' = [heap |-> buffer.heap \cup {Entry(e, buffer.seq)},
                   seq |-> buffer.seq + 1,
                   maxSeen |-> Larger(buffer.maxSeen, e.time),
                   watermark |-> buffer.watermark,
                   late |-> buffer.late, invalid |-> buffer.invalid]
    BY <2>2
  <2>7. buffer' \in BufferType /\ buffer'.watermark = buffer.watermark
    BY <2>4, <2>5, <2>6
  <2> QED  BY <1>3, <2>2, <2>7 DEF DoPush
<1>4. e \in Usable => e.time \in Int
  BY EventTimes
<1> QED  BY <1>1, <1>2, <1>3, <1>4

-----------------------------------------------------------------------------
(* The empty buffer.                                                       *)
LEMMA InitHolds == Init => IInv
<1> SUFFICES ASSUME Init  PROVE IInv
  OBVIOUS
<1>1. /\ buffer.heap = {} /\ buffer.seq = 0 /\ buffer.maxSeen = NegInf
      /\ buffer.watermark = NegInf /\ buffer.late = <<>> /\ buffer.invalid = <<>>
      /\ released = <<>> /\ offered = 0 /\ committed = NegInf /\ flushed = FALSE
  BY DEF Init, EmptyBuffer
<1>2. TypeOK
  <2>1. buffer \in BufferType
    BY EventTimes, EmptySeq DEF Init, EmptyBuffer, BufferType
  <2>2. released \in Seq(Entries)
    BY <1>1, EmptySeq
  <2>3. \A i \in DOMAIN released : released[i].seq < buffer.seq
    <3>1. DOMAIN released = {}
      BY <1>1
    <3> QED  BY <3>1
  <2> QED  BY <1>1, <2>1, <2>2, <2>3 DEF TypeOK
<1>3. Separated
  BY <1>1, FS_EmptySet DEF Separated, NothingRipeHeld
<1>4. CanonicalOrder /\ ExactlyOnce
  BY <1>1 DEF CanonicalOrder, ExactlyOnce
<1>5. Justified /\ GraceHonoured
  BY <1>1, EventTimes DEF Justified, GraceHonoured
<1> QED  BY <1>2, <1>3, <1>4, <1>5 DEF IInv

(* An event that was admitted from some time on was admitted from an       *)
(* earlier one on.                                                         *)
LEMMA LaterFromLater ==
  ASSUME TypeOK, NEW t \in Int, NEW u \in Int, u <= t, AdmittedFrom(t)
  PROVE  AdmittedFrom(u)
<1>1. \A x \in buffer.heap : x.event.time \in Int
  BY HeapEntries
<1>2. \A i \in DOMAIN released : released[i].event.time \in Int
  <2> TAKE i \in DOMAIN released
  <2>1. released[i] \in Entries
    BY ElementOfSeq, LenProperties DEF TypeOK
  <2> QED  BY <2>1, EventTimes DEF Entries
<1> QED  BY <1>1, <1>2 DEF AdmittedFrom

(* One more event pushed, in whichever of the three places it goes.        *)
LEMMA OneMore ==
  ASSUME NEW a \in Nat, NEW b \in Nat, NEW c \in Nat, NEW d \in Nat, a = b + c + d
  PROVE  /\ a + 1 = (b + 1) + c + d
         /\ a + 1 = b + (c + 1) + d
         /\ a + 1 = b + c + (d + 1)
OBVIOUS

(* A push: the event is held, late or invalid.                             *)
LEMMA PushKeepsIInv ==
  ASSUME IInv, NEW e \in Event, DoPush(e)  PROVE IInv'
<1> USE DEF IInv
<1>1. /\ offered' = offered + 1 /\ offered \in Nat
      /\ released' = released /\ committed' = committed /\ flushed' = flushed
      /\ buffer' \in BufferType /\ buffer \in BufferType
      /\ buffer'.watermark = buffer.watermark
  BY PushOutcome DEF TypeOK
<1>2. CASE /\ e \notin Usable
           /\ buffer' = [buffer EXCEPT !.invalid = Append(@, e)]
  <2>1. /\ buffer'.heap = buffer.heap /\ buffer'.seq = buffer.seq
        /\ buffer'.late = buffer.late /\ buffer'.maxSeen = buffer.maxSeen
        /\ Len(buffer'.invalid) = Len(buffer.invalid) + 1
    BY <1>1, <1>2 DEF BufferType
  <2>2. Len(buffer.invalid) \in Nat /\ Len(buffer.late) \in Nat /\ buffer.seq \in Nat
    BY <1>1, LenProperties DEF BufferType
  <2>3. TypeOK' /\ Separated' /\ CanonicalOrder'
    BY <1>1, <2>1 DEF TypeOK, Separated, NothingRipeHeld, CanonicalOrder
  <2>4. ExactlyOnce'
    <3>1. offered + 1 = buffer.seq + Len(buffer.late) + (Len(buffer.invalid) + 1)
      <4>1. offered = buffer.seq + Len(buffer.late) + Len(buffer.invalid)
        BY DEF ExactlyOnce
      <4> QED  BY <1>1, <2>2, <4>1, OneMore
    <3>2. offered' = buffer'.seq + Len(buffer'.late) + Len(buffer'.invalid)
      BY <1>1, <2>1, <3>1
    <3> QED  BY <1>1, <2>1, <3>2 DEF ExactlyOnce
  <2>5. Justified' /\ GraceHonoured'
    BY <1>1, <2>1 DEF Justified, GraceHonoured, AdmittedFrom
  <2> QED  BY <2>3, <2>4, <2>5
<1>3. CASE /\ e \in Usable /\ e.time < buffer.watermark
           /\ buffer' = [buffer EXCEPT !.late = Append(@, e)]
  <2>1. /\ buffer'.heap = buffer.heap /\ buffer'.seq = buffer.seq
        /\ buffer'.invalid = buffer.invalid /\ buffer'.maxSeen = buffer.maxSeen
        /\ buffer'.late = Append(buffer.late, e)
    BY <1>1, <1>3 DEF BufferType
  <2>2. /\ Len(buffer.invalid) \in Nat /\ Len(buffer.late) \in Nat /\ buffer.seq \in Nat
        /\ DOMAIN buffer.late = 1 .. Len(buffer.late)
        /\ Len(buffer'.late) = Len(buffer.late) + 1
        /\ DOMAIN buffer'.late = 1 .. Len(buffer.late) + 1
        /\ \A k \in 1 .. Len(buffer.late) : buffer'.late[k] = buffer.late[k]
        /\ buffer'.late[Len(buffer.late) + 1] = e
    BY <1>1, <2>1, LenProperties DEF BufferType
  <2>3. TypeOK' /\ Separated' /\ CanonicalOrder'
    BY <1>1, <2>1 DEF TypeOK, Separated, NothingRipeHeld, CanonicalOrder
  <2>4. ExactlyOnce'
    <3>1. offered + 1 = buffer.seq + (Len(buffer.late) + 1) + Len(buffer.invalid)
      <4>1. /\ offered \in Nat
            /\ offered = buffer.seq + Len(buffer.late) + Len(buffer.invalid)
        BY DEF ExactlyOnce, TypeOK
      <4> QED  BY <2>2, <4>1, OneMore
    <3>2. offered' = buffer'.seq + Len(buffer'.late) + Len(buffer'.invalid)
      BY <1>1, <2>1, <2>2, <3>1
    <3> QED  BY <1>1, <2>1, <3>2 DEF ExactlyOnce
  <2>5. Justified'
    BY <1>1, <2>1 DEF Justified, AdmittedFrom
  <2>6. \/ AdmittedFrom(NextAfter(e.time + Grace))
        \/ e.time <= committed
        \/ flushed
    <3>1. /\ e.time \in Int /\ buffer.watermark \in Int /\ Grace \in Nat
          /\ committed \in Int
      BY <1>1, <1>3, EventTimes DEF BufferType, TypeOK
    <3>2. CASE AdmittedFrom(buffer.watermark + Grace)
      <4>1. /\ NextAfter(e.time + Grace) \in Int /\ buffer.watermark + Grace \in Int
            /\ NextAfter(e.time + Grace) <= buffer.watermark + Grace
        BY <1>3, <3>1 DEF NextAfter
      <4> QED  BY <3>2, <4>1, LaterFromLater
    <3>3. CASE buffer.watermark <= committed + 1
      BY <1>3, <3>1, <3>3
    <3> QED  BY <3>2, <3>3 DEF Justified
  <2>7. GraceHonoured'
    <3>1. \A t : AdmittedFrom(t)' <=> AdmittedFrom(t)
      BY <1>1, <2>1 DEF AdmittedFrom
    <3>2. ASSUME NEW k \in DOMAIN buffer'.late
          PROVE  \/ AdmittedFrom(NextAfter(buffer'.late[k].time + Grace))
                 \/ buffer'.late[k].time <= committed
                 \/ flushed
      <4>1. CASE k \in 1 .. Len(buffer.late)
        BY <2>2, <4>1 DEF GraceHonoured
      <4>2. CASE k = Len(buffer.late) + 1
        BY <2>2, <2>6, <4>2
      <4> QED  BY <2>2, <4>1, <4>2
    <3> QED  BY <1>1, <2>1, <3>2 DEF GraceHonoured, AdmittedFrom
  <2> QED  BY <2>3, <2>4, <2>5, <2>7
<1>4. CASE /\ e \in Usable /\ buffer.watermark <= e.time
           /\ buffer' = [buffer EXCEPT !.heap = @ \cup {Entry(e, buffer.seq)},
                                       !.seq = @ + 1,
                                       !.maxSeen = Larger(@, e.time)]
  <2> DEFINE x == Entry(e, buffer.seq)
  <2>1. /\ buffer'.heap = buffer.heap \cup {x} /\ buffer'.seq = buffer.seq + 1
        /\ buffer'.invalid = buffer.invalid /\ buffer'.late = buffer.late
        /\ buffer'.maxSeen = Larger(buffer.maxSeen, e.time)
        /\ x.seq = buffer.seq /\ x.event = e
    BY <1>1, <1>4 DEF BufferType, Entry
  <2> HIDE DEF x
  <2>2. /\ Len(buffer.invalid) \in Nat /\ Len(buffer.late) \in Nat /\ buffer.seq \in Nat
        /\ e.time \in Int /\ e.time < PosInf
        /\ buffer.maxSeen \in Int /\ buffer.watermark \in Int
    BY <1>1, <1>4, LenProperties, EventTimes DEF BufferType
  <2>3. \A y \in buffer.heap : y.seq < buffer.seq /\ y.seq \in Nat
    BY HeapEntries DEF TypeOK, Entries
  <2>4. \A i \in DOMAIN released : released[i].seq < buffer.seq
    BY DEF TypeOK
  <2>5. TypeOK'
    <3>1. \A y \in buffer'.heap : y.seq < buffer'.seq
      BY <2>1, <2>2, <2>3
    <3>2. \A i \in DOMAIN released : released[i].seq \in Nat
      <4> TAKE i \in DOMAIN released
      <4>1. released[i] \in Entries
        BY ElementOfSeq, LenProperties DEF TypeOK
      <4> QED  BY <4>1 DEF Entries
    <3>3. \A i \in DOMAIN released : released[i].seq < buffer'.seq
      BY <2>1, <2>2, <2>4, <3>2
    <3> QED  BY <1>1, <3>1, <3>3 DEF TypeOK
  <2>6. Separated'
    <3>1. IsFiniteSet(buffer'.heap)
      BY <2>1, FS_AddElement DEF Separated
    <3>2. \A y \in buffer'.heap : buffer.watermark <= y.event.time
      BY <1>4, <2>1 DEF Separated, NothingRipeHeld
    <3> QED  BY <1>1, <3>1, <3>2 DEF Separated, NothingRipeHeld
  <2>7. CanonicalOrder'
    BY <1>1 DEF CanonicalOrder
  <2>8. ExactlyOnce'
    <3>0. offered = buffer.seq + Len(buffer.late) + Len(buffer.invalid)
      BY DEF ExactlyOnce
    <3>1. offered' = buffer'.seq + Len(buffer'.late) + Len(buffer'.invalid)
      <4>1. Len(buffer'.late) = Len(buffer.late) /\ Len(buffer'.invalid) = Len(buffer.invalid)
        BY <2>1
      <4>2. offered' = offered + 1 /\ buffer'.seq = buffer.seq + 1
        BY <1>1, <2>1
      <4>3. offered + 1 = (buffer.seq + 1) + Len(buffer.late) + Len(buffer.invalid)
        <5> DEFINE a == offered
                   n == buffer.seq
                   l == Len(buffer.late)
                   k == Len(buffer.invalid)
        <5>1. a \in Nat /\ n \in Nat /\ l \in Nat /\ k \in Nat
          BY <1>1, <2>2
        <5>2. a = n + l + k
          BY ONLY <3>0
        <5> HIDE DEF a, n, l, k
        <5>3. a + 1 = (n + 1) + l + k
          BY ONLY <5>1, <5>2
        <5> QED  BY ONLY <5>3 DEF a, n, l, k
      <4> QED  BY <4>1, <4>2, <4>3
    <3>2. ASSUME NEW m \in 0 .. buffer'.seq - 1
          PROVE  \/ \E y \in buffer'.heap : y.seq = m
                 \/ \E i \in DOMAIN released : released[i].seq = m
      <4>1. CASE m = buffer.seq
        BY <2>1, <4>1
      <4>2. CASE m \in 0 .. buffer.seq - 1
        BY <2>1, <4>2 DEF ExactlyOnce
      <4> QED  BY <2>1, <2>2, <3>2, <4>1, <4>2
    <3>3. \A y \in buffer'.heap, i \in DOMAIN released : y.seq # released[i].seq
      BY <2>1, <2>2, <2>4 DEF ExactlyOnce
    <3>4. \A y, z \in buffer'.heap : y.seq = z.seq => y = z
      BY <2>1, <2>2, <2>3 DEF ExactlyOnce
    <3> QED  BY <1>1, <3>1, <3>2, <3>3, <3>4 DEF ExactlyOnce
  <2>9. \A t : AdmittedFrom(t) => AdmittedFrom(t)'
    BY <1>1, <2>1 DEF AdmittedFrom
  <2>10. Justified'
    <3>1. \/ AdmittedFrom(buffer.maxSeen)'
          \/ buffer'.maxSeen <= committed + Grace + 1
      <4>1. CASE buffer'.maxSeen = buffer.maxSeen
        BY <1>1, <2>1, <4>1 DEF Justified, AdmittedFrom
      <4>2. CASE buffer'.maxSeen = e.time
        BY <1>1, <2>1, <2>2, <4>2 DEF AdmittedFrom
      <4> QED  BY <2>1, <4>1, <4>2 DEF Larger
    <3>2. \/ AdmittedFrom(buffer.watermark + Grace)'
          \/ buffer.watermark <= committed + 1
          \/ flushed
      BY <1>1, <2>1 DEF Justified, AdmittedFrom
    <3>3. buffer'.maxSeen < PosInf
      BY <2>1, <2>2 DEF Justified, Larger
    <3> QED  BY <1>1, <3>1, <3>2, <3>3 DEF Justified
  <2>11. GraceHonoured'
    BY <1>1, <2>1, <2>9 DEF GraceHonoured
  <2> QED  BY <2>5, <2>6, <2>7, <2>8, <2>10, <2>11
<1> QED  BY <1>2, <1>3, <1>4, PushOutcome

(* What the three releasing actions have in common, once more: all that    *)
(* is left for each is why the clock and the watermark moved.              *)
LEMMA HandoverKeepsIInv ==
  ASSUME IInv, Handover,
         committed' \in Moment \cup {NegInf}, committed <= committed',
         flushed' \in BOOLEAN, flushed => flushed',
         Justified'
  PROVE  IInv'
<1> USE DEF IInv
<1>1. /\ IsFiniteSet(buffer.heap) /\ Numbered(buffer.heap)
      /\ buffer'.late = buffer.late /\ buffer \in BufferType
  BY DEF Separated, ExactlyOnce, Numbered, Handover, TypeOK
<1>2. TypeOK'
  BY HandoverPreserves DEF TypeOK, Handover
<1>3. Separated' /\ CanonicalOrder' /\ ExactlyOnce'
  BY HandoverPreserves
<1>4. GraceHonoured'
  <2> SUFFICES ASSUME NEW k \in DOMAIN buffer.late
               PROVE  \/ AdmittedFrom(NextAfter(buffer.late[k].time + Grace))'
                      \/ buffer.late[k].time <= committed'
                      \/ flushed'
    BY <1>1 DEF GraceHonoured, AdmittedFrom
  <2>1. buffer.late[k] \in Usable
    BY <1>1, ElementOfSeq, LenProperties DEF BufferType
  <2> DEFINE l == buffer.late[k]
             t == NextAfter(l.time + Grace)
  <2>2. l.time \in Int /\ t \in Int /\ committed \in Int /\ committed' \in Int
    BY <2>1, EventTimes DEF TypeOK, NextAfter
  <2>3. AdmittedFrom(t) \/ l.time <= committed \/ flushed
    BY DEF GraceHonoured
  <2>4. CASE AdmittedFrom(t)
    <3> HIDE DEF t
    <3>1. \A u \in Int : AdmittedFrom(u) =>
            \/ \E x \in buffer'.heap : u <= x.event.time
            \/ \E i \in DOMAIN released' : u <= released'[i].event.time
      BY <1>1, HandoverKeepsAdmitted DEF AdmittedFrom
    <3>2. \/ \E x \in buffer'.heap : t <= x.event.time
          \/ \E i \in DOMAIN released' : t <= released'[i].event.time
      BY <2>2, <2>4, <3>1
    <3>3. t = NextAfter(buffer'.late[k].time + Grace)
      BY <1>1 DEF t
    <3> QED  BY <1>1, <3>2, <3>3 DEF AdmittedFrom
  <2> QED  BY <2>2, <2>3, <2>4
<1> QED  BY <1>2, <1>3, <1>4

(* The three that hand over keep the invariant, as Handover does.          *)
LEMMA ReleasableKeepsIInv ==
  ASSUME IInv, DoReleasable  PROVE IInv'
<1> USE DEF IInv
<1>1. /\ Handover
      /\ buffer'.watermark = Larger(buffer.watermark, buffer.maxSeen - Grace)
      /\ buffer'.maxSeen = buffer.maxSeen
      /\ committed' = committed /\ flushed' = flushed
  BY ReleasableHandsOver
<1>2. /\ buffer.watermark \in Int /\ buffer.maxSeen \in Int /\ committed \in Int
      /\ Grace \in Nat /\ PosInf \in Int
  BY EventTimes DEF TypeOK, BufferType
<1>3. IsFiniteSet(buffer.heap) /\ Numbered(buffer.heap)
  BY DEF Separated, ExactlyOnce, Numbered
<1>4. \A t \in Int : AdmittedFrom(t) =>
        \/ \E x \in buffer'.heap : t <= x.event.time
        \/ \E i \in DOMAIN released' : t <= released'[i].event.time
  BY <1>1, <1>3, HandoverKeepsAdmitted DEF AdmittedFrom
<1>5. \/ AdmittedFrom(buffer.maxSeen)'
      \/ buffer'.maxSeen <= committed' + Grace + 1
  BY <1>1, <1>2, <1>4 DEF Justified, AdmittedFrom
<1>6. \/ AdmittedFrom(buffer.watermark + Grace)'
      \/ buffer'.watermark <= committed' + 1
      \/ flushed'
  <2>1. CASE buffer'.watermark = buffer.watermark
    <3>1. buffer.watermark + Grace \in Int
      BY <1>2
    <3> QED  BY <1>1, <1>4, <2>1, <3>1 DEF Justified, AdmittedFrom
  <2>2. CASE buffer'.watermark = buffer.maxSeen - Grace
    <3>1. buffer'.watermark + Grace = buffer.maxSeen
      BY <1>2, <2>2
    <3>2. CASE AdmittedFrom(buffer.maxSeen)
      BY <1>2, <1>4, <3>1, <3>2 DEF AdmittedFrom
    <3>3. CASE buffer.maxSeen <= committed + Grace + 1
      BY <1>1, <1>2, <2>2, <3>3
    <3> QED  BY <3>2, <3>3 DEF Justified
  <2> QED  BY <1>1, <2>1, <2>2 DEF Larger
<1>7. /\ committed' = NegInf \/ committed' < buffer'.watermark
      /\ buffer'.maxSeen < PosInf /\ buffer'.watermark <= PosInf
  BY <1>1, <1>2 DEF Justified, Larger
<1>8. Justified'
  BY <1>5, <1>6, <1>7 DEF Justified
<1> QED  BY <1>1, <1>2, <1>8, HandoverKeepsIInv DEF TypeOK

(* A wall fire keeps it; the commit explains the watermark.                *)
LEMMA WallFireKeepsIInv ==
  ASSUME IInv, NEW m \in Moment, DoWallFire(m)  PROVE IInv'
<1> USE DEF IInv
<1>1. /\ Handover
      /\ buffer'.watermark = Larger(buffer.watermark, m + 1)
      /\ buffer'.maxSeen = Larger(buffer.maxSeen, m + Grace + 1)
      /\ committed' = Larger(committed, m) /\ flushed' = flushed
  BY WallFireHandsOver
<1>2. /\ buffer.watermark \in Int /\ buffer.maxSeen \in Int /\ committed \in Int
      /\ Grace \in Nat /\ PosInf \in Int /\ NegInf \in Int
      /\ m \in Int /\ NegInf < m /\ m + Grace + 1 < PosInf
  BY EventTimes DEF TypeOK, BufferType
<1>3. IsFiniteSet(buffer.heap) /\ Numbered(buffer.heap)
  BY DEF Separated, ExactlyOnce, Numbered
<1>4. \A t \in Int : AdmittedFrom(t) =>
        \/ \E x \in buffer'.heap : t <= x.event.time
        \/ \E i \in DOMAIN released' : t <= released'[i].event.time
  BY <1>1, <1>3, HandoverKeepsAdmitted DEF AdmittedFrom
<1>5. /\ committed <= committed' /\ m <= committed' /\ committed' \in Int
      /\ committed' \in Moment \cup {NegInf}
  BY <1>1, <1>2 DEF Larger, TypeOK
<1>6. \/ AdmittedFrom(buffer.maxSeen)'
      \/ buffer'.maxSeen <= committed' + Grace + 1
  <2>1. CASE buffer'.maxSeen = buffer.maxSeen
    <3>1. CASE AdmittedFrom(buffer.maxSeen)
      BY <1>2, <1>4, <2>1, <3>1 DEF AdmittedFrom
    <3>2. CASE buffer.maxSeen <= committed + Grace + 1
      <4>1. \A c \in Int : committed <= c => committed + Grace + 1 <= c + Grace + 1
        BY <1>2
      <4>2. committed + Grace + 1 <= committed' + Grace + 1
        BY <1>5, <4>1
      <4> QED  BY <1>2, <1>5, <2>1, <3>2, <4>2
    <3> QED  BY <3>1, <3>2 DEF Justified
  <2>2. CASE buffer'.maxSeen = m + Grace + 1
    <3>1. \A c \in Int : m <= c => m + Grace + 1 <= c + Grace + 1
      BY <1>2
    <3> QED  BY <1>5, <2>2, <3>1
  <2> QED  BY <1>1, <2>1, <2>2 DEF Larger
<1>7. \/ AdmittedFrom(buffer.watermark + Grace)'
      \/ buffer'.watermark <= committed' + 1
      \/ flushed'
  <2>1. CASE buffer'.watermark = buffer.watermark
    <3>1. buffer.watermark + Grace \in Int
      BY <1>2
    <3>2. CASE AdmittedFrom(buffer.watermark + Grace)
      BY <1>4, <2>1, <3>1, <3>2 DEF AdmittedFrom
    <3>3. CASE buffer.watermark <= committed + 1 \/ flushed
      <4>1. \A c \in Int : committed <= c /\ buffer.watermark <= committed + 1
              => buffer.watermark <= c + 1
        BY <1>2
      <4> QED  BY <1>1, <1>5, <2>1, <3>3, <4>1
    <3> QED  BY <3>2, <3>3 DEF Justified
  <2>2. CASE buffer'.watermark = m + 1
    <3>1. \A c \in Int : m <= c => m + 1 <= c + 1
      BY <1>2
    <3> QED  BY <1>5, <2>2, <3>1
  <2> QED  BY <1>1, <2>1, <2>2 DEF Larger
<1>8. /\ committed' = NegInf \/ committed' < buffer'.watermark
      /\ buffer'.maxSeen < PosInf /\ buffer'.watermark <= PosInf
  BY <1>1, <1>2 DEF Justified, Larger
<1>9. Justified'
  BY <1>6, <1>7, <1>8 DEF Justified
<1> QED  BY <1>1, <1>5, <1>9, HandoverKeepsIInv DEF TypeOK

(* The flush keeps it; afterwards everything is late.                      *)
LEMMA FlushKeepsIInv ==
  ASSUME IInv, DoFlush  PROVE IInv'
<1> USE DEF IInv
<1>1. /\ Handover
      /\ buffer'.watermark = PosInf /\ buffer'.maxSeen = buffer.maxSeen
      /\ committed' = committed /\ flushed' = TRUE
  BY FlushHandsOver DEF Justified
<1>2. /\ buffer.maxSeen \in Int /\ committed \in Int /\ committed < PosInf
      /\ Grace \in Nat /\ PosInf \in Int
  BY EventTimes DEF TypeOK, BufferType
<1>3. IsFiniteSet(buffer.heap) /\ Numbered(buffer.heap)
  BY DEF Separated, ExactlyOnce, Numbered
<1>4. \A t \in Int : AdmittedFrom(t) =>
        \/ \E x \in buffer'.heap : t <= x.event.time
        \/ \E i \in DOMAIN released' : t <= released'[i].event.time
  BY <1>1, <1>3, HandoverKeepsAdmitted DEF AdmittedFrom
<1>5. \/ AdmittedFrom(buffer.maxSeen)'
      \/ buffer'.maxSeen <= committed' + Grace + 1
  BY <1>1, <1>2, <1>4 DEF Justified, AdmittedFrom
<1>6. Justified'
  BY <1>1, <1>2, <1>5 DEF Justified
<1> QED  BY <1>1, <1>2, <1>6, HandoverKeepsIInv DEF TypeOK

-----------------------------------------------------------------------------
(* Every call keeps the invariant.                                         *)
LEMMA StepKeepsIInv == IInv /\ [Next]_vars => IInv'
<1> SUFFICES ASSUME IInv, [Next]_vars  PROVE IInv'
  OBVIOUS
<1>1. ASSUME NEW e \in Event, DoPush(e)  PROVE IInv'
  BY <1>1, PushKeepsIInv
<1>2. CASE DoReleasable
  BY <1>2, ReleasableKeepsIInv
<1>3. ASSUME NEW m \in Moment, DoWallFire(m)  PROVE IInv'
  BY <1>3, WallFireKeepsIInv
<1>4. CASE DoFlush
  BY <1>4, FlushKeepsIInv
<1>5. CASE UNCHANGED vars
  BY <1>5 DEF vars, IInv, TypeOK, Separated, NothingRipeHeld, CanonicalOrder,
              ExactlyOnce, Justified, GraceHonoured, AdmittedFrom
<1> QED  BY <1>1, <1>2, <1>3, <1>4, <1>5 DEF Next

(* The inductive invariant holds throughout.                               *)
THEOREM Invariance == Spec => []IInv
BY InitHolds, StepKeepsIInv, PTL DEF Spec

(* Whatever is pushed, the buffer's fields keep their types and entries    *)
(* their numbers.                                                          *)
THEOREM TypeCorrect == Spec => []TypeOK
<1>1. IInv => TypeOK
  BY DEF IInv
<1> QED  BY <1>1, Invariance, PTL

(* The order in which events are released is the canonical one, for every  *)
(* grace, every arrival order and every interleaving of wall commits.      *)
THEOREM ReleasesAreCanonical == Spec => []CanonicalOrder
<1>1. IInv => CanonicalOrder
  BY DEF IInv
<1> QED  BY <1>1, Invariance, PTL

(* No event is lost, duplicated, or both flagged and released.             *)
THEOREM EveryEventAccountedFor == Spec => []ExactlyOnce
<1>1. IInv => ExactlyOnce
  BY DEF IInv
<1> QED  BY <1>1, Invariance, PTL

(* Lateness is always justified by a newer event, a commit or the flush.   *)
THEOREM LatenessIsJustified == Spec => []GraceHonoured
<1>1. IInv => GraceHonoured
  BY DEF IInv
<1> QED  BY <1>1, Invariance, PTL

(* What the watermark has passed is not held back.                         *)
THEOREM NothingHeldBack == Spec => []NothingRipeHeld
<1>1. IInv => NothingRipeHeld
  BY DEF IInv, Separated
<1> QED  BY <1>1, Invariance, PTL

(* A committed moment leaves nothing behind it in the buffer.              *)
THEOREM CommitsAreComplete == Spec => []CommitIsComplete
<1>1. IInv => CommitIsComplete
  <2> SUFFICES ASSUME IInv, NEW x \in buffer.heap  PROVE committed < x.event.time
    BY DEF CommitIsComplete
  <2>1. /\ x.event.time \in Int /\ NegInf < x.event.time
        /\ buffer.watermark \in Int /\ committed \in Int
    BY HeapEntries, EventTimes DEF IInv, TypeOK, BufferType
  <2>2. buffer.watermark <= x.event.time
    BY DEF IInv, Separated, NothingRipeHeld
  <2>3. committed = NegInf \/ committed < buffer.watermark
    BY DEF IInv, Justified
  <2> QED  BY <2>1, <2>2, <2>3
<1> QED  BY <1>1, Invariance, PTL

(* The watermark moves in one direction only.                              *)
THEOREM WatermarkMonotone == Spec => WatermarkNeverRegresses
<1>1. IInv /\ [Next]_vars => [buffer'.watermark >= buffer.watermark]_vars
  <2> SUFFICES ASSUME IInv, Next  PROVE buffer'.watermark >= buffer.watermark
    BY DEF vars
  <2>1. TypeOK /\ buffer.watermark \in Int /\ buffer.watermark <= PosInf
    BY DEF IInv, Justified, TypeOK, BufferType
  <2>2. ASSUME NEW e \in Event, DoPush(e)
        PROVE  buffer'.watermark >= buffer.watermark
    <3>1. buffer'.watermark = buffer.watermark
      BY <2>1, <2>2, PushOutcome
    <3> QED  BY <2>1, <3>1
  <2>3. ASSUME Handover  PROVE buffer'.watermark >= buffer.watermark
    <3>1. buffer'.watermark \in Int /\ buffer.watermark <= buffer'.watermark
      BY <2>3 DEF Handover
    <3> QED  BY <2>1, <3>1
  <2>4. CASE DoReleasable
    BY <2>1, <2>3, <2>4, ReleasableHandsOver
  <2>5. ASSUME NEW m \in Moment, DoWallFire(m)
        PROVE  buffer'.watermark >= buffer.watermark
    BY <2>1, <2>3, <2>5, WallFireHandsOver
  <2>6. CASE DoFlush
    BY <2>1, <2>3, <2>6, FlushHandsOver
  <2> QED  BY <2>2, <2>4, <2>5, <2>6 DEF Next
<1> QED  BY <1>1, Invariance, PTL DEF Spec, WatermarkNeverRegresses

-----------------------------------------------------------------------------
(* Refinement: push() accepts or refuses, and a release delivers.          *)
LEMMA SameOrder ==
  ASSUME NEW S  PROVE Promise!InOrder(S) = InOrder(S)
<1>0. \A T : Promise!Cardinality(T) = Cardinality(T)
  BY DEF Promise!Cardinality, Cardinality
<1>1. \A x, y : Promise!Before(x, y) <=> Before(x, y)
  BY DEF Promise!Before, Before
<1>2. \A x : Promise!Rank(x, S) = Rank(x, S)
  <2> TAKE x
  <2>1. {y \in S : Promise!Before(y, x)} = {y \in S : Before(y, x)}
    BY <1>1
  <2> QED  BY <1>0, <2>1 DEF Promise!Rank, Rank
<1> QED  BY <1>0, <1>2 DEF Promise!InOrder, InOrder

(* A push is Accept or Refuse of the abstract stream.                      *)
LEMMA PushRefines ==
  ASSUME IInv, NEW e \in Event, DoPush(e)
  PROVE  Promise!Accept(e) \/ Promise!Refuse
<1> USE DEF IInv
<1>1. /\ released' = released /\ buffer \in BufferType
  BY DEF DoPush, TypeOK
<1>2. Len(buffer.late) \in Nat /\ Len(buffer.invalid) \in Nat
  BY <1>1, LenProperties DEF BufferType
<1>3. CASE buffer' = [buffer EXCEPT !.invalid = Append(@, e)] /\ e \notin Usable
  <2>1. /\ buffer'.heap = buffer.heap /\ buffer'.seq = buffer.seq
        /\ buffer'.late = buffer.late
        /\ buffer'.invalid = Append(buffer.invalid, e)
    BY <1>1, <1>3 DEF BufferType
  <2>2. Len(buffer'.invalid) = Len(buffer.invalid) + 1
    BY <1>1, <1>3, <2>1 DEF BufferType
  <2>3. Len(buffer'.late) + Len(buffer'.invalid)
          = Len(buffer.late) + (Len(buffer.invalid) + 1)
    BY <2>1, <2>2
  <2>4. Len(buffer.late) + (Len(buffer.invalid) + 1) = Len(buffer.late) + Len(buffer.invalid) + 1
    <3>1. \A a, b \in Nat : a + (b + 1) = a + b + 1
      OBVIOUS
    <3> QED  BY <1>2, <3>1
  <2> QED  BY <1>1, <2>1, <2>3, <2>4 DEF Promise!Refuse
<1>4. CASE buffer' = [buffer EXCEPT !.late = Append(@, e)] /\ e \in Usable
  <2>1. /\ buffer'.heap = buffer.heap /\ buffer'.seq = buffer.seq
        /\ buffer'.invalid = buffer.invalid
        /\ buffer'.late = Append(buffer.late, e)
    BY <1>1, <1>4 DEF BufferType
  <2>2. Len(buffer'.late) = Len(buffer.late) + 1
    BY <1>1, <1>4, <2>1 DEF BufferType
  <2>3. Len(buffer'.late) + Len(buffer'.invalid)
          = (Len(buffer.late) + 1) + Len(buffer.invalid)
    BY <2>1, <2>2
  <2>4. (Len(buffer.late) + 1) + Len(buffer.invalid) = Len(buffer.late) + Len(buffer.invalid) + 1
    <3>1. \A a, b \in Nat : (a + 1) + b = a + b + 1
      OBVIOUS
    <3> QED  BY <1>2, <3>1
  <2> QED  BY <1>1, <2>1, <2>3, <2>4 DEF Promise!Refuse
<1>5. CASE /\ e \in Usable /\ buffer.watermark <= e.time
           /\ buffer' = [buffer EXCEPT !.heap = @ \cup {Entry(e, buffer.seq)},
                                       !.seq = @ + 1,
                                       !.maxSeen = Larger(@, e.time)]
  <2>1. /\ buffer'.heap = buffer.heap \cup {Entry(e, buffer.seq)}
        /\ buffer'.seq = buffer.seq + 1
        /\ buffer'.late = buffer.late /\ buffer'.invalid = buffer.invalid
    BY <1>1, <1>5 DEF BufferType
  <2>2. Promise!UsableTime(e.time)
    BY <1>5 DEF Usable, UsableTime, Promise!UsableTime
  <2>3. ASSUME NEW i \in DOMAIN released
        PROVE  released[i].event.time < e.time
    <3>1. released[i] \in Entries
      BY ElementOfSeq, LenProperties DEF TypeOK
    <3>2. released[i].event.time \in Int /\ e.time \in Int /\ buffer.watermark \in Int
      BY <1>1, <1>5, <3>1, EventTimes DEF Entries, BufferType
    <3> QED  BY <1>5, <3>2 DEF Separated
  <2>4. Promise!Entry(e, buffer.seq) = Entry(e, buffer.seq)
    BY DEF Promise!Entry, Entry
  <2> QED  BY <1>1, <2>1, <2>2, <2>3, <2>4 DEF Promise!Accept
<1> QED  BY <1>3, <1>4, <1>5, PushOutcome

(* Handing over is Deliver of the abstract stream.                         *)
LEMMA HandoverRefines ==
  ASSUME IInv, Handover
  PROVE  Passed \in SUBSET buffer.heap /\ Promise!Deliver(Passed)
<1> USE DEF IInv
<1>1. Passed \in SUBSET buffer.heap
  BY DEF Passed
<1>2. ASSUME NEW x \in Passed, NEW y \in buffer.heap \ Passed
      PROVE  x.event.time < y.event.time
  <2>1. x.event.time \in Int /\ y.event.time \in Int /\ buffer'.watermark \in Int
    BY <1>1, HeapEntries DEF Handover
  <2> QED  BY <2>1 DEF Passed
<1>3. /\ buffer'.heap = buffer.heap \ Passed /\ buffer'.seq = buffer.seq
      /\ buffer'.late = buffer.late /\ buffer'.invalid = buffer.invalid
      /\ released' = released \o Promise!InOrder(Passed)
  <2>1. Promise!InOrder(Passed) = InOrder(Passed)
    BY SameOrder
  <2> QED  BY <2>1 DEF Handover
<1> QED  BY <1>1, <1>2, <1>3 DEF Promise!Deliver

(* The reordering window implements the canonical stream: watermark, clock *)
(* and wall commits are only how it decides what to accept and deliver.    *)
THEOREM Refinement == Spec => ImplementsCanonicalStream
<1>1. Init => Promise!Init
  BY DEF Init, EmptyBuffer, Promise!Init
<1>2. IInv /\ [Next]_vars => [Promise!Next]_(Promise!vars)
  <2> SUFFICES ASSUME IInv, [Next]_vars
               PROVE  [Promise!Next]_(Promise!vars)
    OBVIOUS
  <2> USE DEF Promise!Next
  <2>1. ASSUME NEW e \in Event, DoPush(e)  PROVE Promise!Next
    BY <2>1, PushRefines
  <2>2. CASE Handover
    BY <2>2, HandoverRefines
  <2>3. CASE DoReleasable
    BY <2>2, <2>3, ReleasableHandsOver DEF IInv
  <2>4. ASSUME NEW m \in Moment, DoWallFire(m)
        PROVE  [Promise!Next]_(Promise!vars)
    BY <2>2, <2>4, WallFireHandsOver DEF IInv
  <2>5. CASE DoFlush
    BY <2>2, <2>5, FlushHandsOver DEF IInv, Justified
  <2>6. CASE UNCHANGED vars
    BY <2>6 DEF vars, Promise!vars
  <2> QED  BY <2>1, <2>3, <2>4, <2>5, <2>6 DEF Next
<1> QED
  BY <1>1, <1>2, Invariance, PTL DEF Spec, ImplementsCanonicalStream, Promise!Spec
=============================================================================
