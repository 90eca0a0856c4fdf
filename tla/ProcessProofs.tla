---------------------------- MODULE ProcessProofs ----------------------------
(***************************************************************************)
(* What the parts of one process share through module globals: the         *)
(* collector of predicate errors, and the default registry.                *)
(*                                                                         *)
(* The collector is one slot, so what the proofs need is where it can      *)
(* point: to the innermost run or to one that has ended, and as long as no *)
(* run failed to the innermost run exactly.  Then only the policy whose    *)
(* turn it is puts errors on the list that its own turn drains, however    *)
(* the runs of the one engine thread nest, return and fail.                *)
(*                                                                         *)
(* The default registry is only added to, except that save and diff        *)
(* exchange it for an empty one and put it back: what a command has done   *)
(* is stated by what it has added to the registry it was called with.      *)
(*                                                                         *)
(* The compiler reads the registry a command has filled.  A scenario is    *)
(* compiled from what its steps say, and its reference is what a monitor   *)
(* would be written as: the proof goes through the layout the two share.   *)
(***************************************************************************)
EXTENDS PredicateErrors, Authoring, FiniteSetTheorems, SequenceTheorems, WellFoundedInduction, TLAPS

(* The runs of a thread, the outermost first.                              *)
Depth(t) == 1 .. Len(stack[t])
Frame == [run : Run, previous : Run \cup {None}, policy : Policy \cup {None}]
RunsOf(t) == {stack[t][i].run : i \in Depth(t)}
Outer(s, i) == IF i = 1 THEN None ELSE s[i - 1].run
Innermost(s) == IF s = <<>> THEN None ELSE s[Len(s)].run

Error == [run : Run \cup {None}, policy : Policy \cup {None}, n : Nat]

Shape ==
  /\ stack \in [Thread -> Seq(Frame)] /\ ended \in SUBSET Run
  /\ slot \in Run \cup {None}
  /\ errors \in [Run -> Seq(Error)]
  /\ DOMAIN recorded = Run
  /\ DOMAIN raised = Run /\ \A r \in Run : IsFiniteSet(raised[r])
  /\ failed \in BOOLEAN

(* Each run is entered once and is on the stack until it ends; only the    *)
(* innermost is outside a policy's turn, if any is.                        *)
Nested(t) ==
  /\ \A i, j \in Depth(t) : stack[t][i].run = stack[t][j].run => i = j
  /\ \A i \in Depth(t) : stack[t][i].run \notin ended

(* Where the slot points to, and where it pointed to when a run began.     *)
Pointed(t) ==
  /\ slot \in ended \cup {Innermost(stack[t])}
  /\ \A i \in Depth(t) : stack[t][i].previous \in ended \cup {Outer(stack[t], i)}
Restorable(t) ==
  ~failed => /\ slot = Innermost(stack[t])
             /\ \A i \in Depth(t) : stack[t][i].previous = Outer(stack[t], i)

(* What is on a run's list, and what it has recorded.                      *)
Listed(t) ==
  /\ \A i \in Depth(t) : \A m \in DOMAIN errors[stack[t][i].run] :
       LET e == errors[stack[t][i].run][m] IN
       /\ e.run = stack[t][i].run /\ e.policy = stack[t][i].policy
       /\ stack[t][i].policy # None
  /\ \A r \in Run \ (ended \cup RunsOf(t)) : errors[r] = <<>> /\ recorded[r] = {} /\ raised[r] = {}

OnList(r) == {errors[r][m] : m \in DOMAIN errors[r]}
Recorded(r) == {entry[2] : entry \in recorded[r]}
Accounted(t) ==
  ~failed => /\ \A r \in RunsOf(t) : Recorded(r) \cup OnList(r) = raised[r]
             /\ NoneLost

IInv(t) == /\ Shape /\ Nested(t) /\ Pointed(t) /\ Restorable(t)
           /\ Listed(t) /\ Accounted(t) /\ NoneMisattributed

-----------------------------------------------------------------------------
(* A stack without its top.                                                *)
LEMMA FrontIs ==
  ASSUME NEW S, NEW s \in Seq(S), NEW m \in Nat, Len(s) = m + 1
  PROVE  /\ SubSeq(s, 1, m) \in Seq(S) /\ Len(SubSeq(s, 1, m)) = m
         /\ \A i \in 1 .. m : SubSeq(s, 1, m)[i] = s[i]
<1>1. \A i \in 1 .. m : s[i] \in S
  OBVIOUS
<1> QED  BY <1>1, SubSeqProperties

(* The innermost run, and the runs once it is left.                        *)
LEMMA StackFacts ==
  ASSUME NEW t, stack[t] \in Seq(Frame), stack[t] # <<>>
  PROVE  LET n == Len(stack[t]) IN
         /\ n \in Nat /\ n >= 1 /\ n \in Depth(t)
         /\ Top(t) = stack[t][n] /\ Top(t) \in Frame
         /\ Innermost(stack[t]) = Top(t).run
         /\ Sequence!Front(stack[t]) \in Seq(Frame)
         /\ Len(Sequence!Front(stack[t])) = n - 1
         /\ \A i \in 1 .. n - 1 : Sequence!Front(stack[t])[i] = stack[t][i]
<1> DEFINE s == stack[t]
           n == Len(s)
<1>1. s \in Seq(Frame) /\ n \in Nat /\ n >= 1
  OBVIOUS
<1>2. Top(t) = s[n] /\ Sequence!Front(s) = SubSeq(s, 1, n - 1)
  BY DEF Top, Sequence!Last, Sequence!Front
<1>3. Innermost(stack[t]) = Top(t).run
  BY <1>2 DEF Innermost
<1> HIDE DEF s
<1>4. /\ SubSeq(s, 1, n - 1) \in Seq(Frame) /\ Len(SubSeq(s, 1, n - 1)) = n - 1
      /\ \A i \in 1 .. n - 1 : SubSeq(s, 1, n - 1)[i] = s[i]
  <2>1. n - 1 \in Nat /\ n - 1 + 1 = Len(s)
    BY <1>1
  <2> QED  BY <1>1, <2>1, FrontIs
<1>5. n \in 1 .. n /\ s[n] \in Frame
  BY <1>1
<1> QED  BY <1>1, <1>2, <1>3, <1>4, <1>5 DEF s, Depth

(* No run has begun.                                                       *)
LEMMA ErrorsInit == ASSUME NEW t, Thread = {t}, Init  PROVE IInv(t)
<1>1. stack[t] = <<>> /\ Len(stack[t]) = 0 /\ Depth(t) = {} /\ RunsOf(t) = {}
  BY DEF Init, Depth, RunsOf
<1>2. Shape
  <2>1. /\ stack \in [Thread -> Seq(Frame)] /\ errors \in [Run -> Seq(Error)]
        /\ \A r \in Run : raised[r] = {}
    BY DEF Init
  <2>2. IsFiniteSet({})
    BY FS_EmptySet
  <2> QED  BY <2>1, <2>2 DEF Shape, Init
<1>3. Nested(t) /\ Pointed(t) /\ Restorable(t)
  BY <1>1 DEF Init, Nested, Pointed, Restorable, Innermost
<1>4. Listed(t) /\ Accounted(t) /\ NoneMisattributed
  BY <1>1 DEF Init, Listed, Accounted, NoneMisattributed, NoneLost
<1> QED  BY <1>2, <1>3, <1>4 DEF IInv

(* A run begins: nothing is on its list, and it remembers the slot.        *)
LEMMA ErrorsBegin ==
  ASSUME NEW t, Thread = {t}, IInv(t), NEW r \in Run, Begin(t, r)  PROVE IInv(t)'
<1> DEFINE s == stack[t]
           n == Len(s)
           f == [run |-> r, previous |-> slot, policy |-> None]
<1>1. /\ Shape /\ Nested(t) /\ Pointed(t) /\ Restorable(t)
      /\ Listed(t) /\ Accounted(t) /\ NoneMisattributed
  BY DEF IInv
<1>2. /\ slot' = r /\ stack' = [stack EXCEPT ![t] = Append(@, f)] /\ r \notin Started
      /\ UNCHANGED <<errors, recorded, ended, raised, failed>>
  BY DEF Begin, Installed, history
<1>3. s \in Seq(Frame) /\ n \in Nat /\ f \in Frame /\ Depth(t) = 1 .. n /\ Depth(t)' = 1 .. Len(stack'[t])
  BY <1>1 DEF Shape, Frame, Depth
<1>4. stack'[t] = Append(s, f)
  BY <1>1, <1>2 DEF Shape
<1>5. r \notin ended /\ \A i \in 1 .. n : s[i].run # r
  <2>1. DOMAIN stack[t] = 1 .. n
    BY <1>3
  <2> QED  BY <1>2, <2>1 DEF Started
<1> HIDE DEF s, f
<1>6. Len(stack'[t]) = n + 1 /\ stack'[t][n + 1] = f /\ \A i \in 1 .. n : stack'[t][i] = s[i]
  BY <1>3, <1>4
<1> HIDE DEF n
<1>7. \A i \in 1 .. n + 1 : i \in 1 .. n \/ i = n + 1
  BY <1>3
<1>8. f.run = r /\ f.previous = slot /\ f.policy = None
  BY DEF f
<1>9. Shape'
  <2>1. stack' \in [Thread -> Seq(Frame)]
    BY <1>1, <1>2, <1>3, <1>4 DEF Shape
  <2> QED  BY <1>1, <1>2, <2>1 DEF Shape
<1>10. Nested(t)'
  BY <1>1, <1>2, <1>3, <1>5, <1>6, <1>7, <1>8 DEF Nested, s
<1>11. /\ Innermost(stack'[t]) = r
       /\ \A i \in 1 .. n : Outer(stack'[t], i) = Outer(stack[t], i)
       /\ Outer(stack'[t], n + 1) = Innermost(stack[t])
  <2>1. stack'[t] # <<>>
    BY <1>3, <1>6
  <2>2. Innermost(stack'[t]) = r
    BY <1>6, <1>8, <2>1 DEF Innermost
  <2>3. ASSUME NEW i \in 1 .. n  PROVE Outer(stack'[t], i) = Outer(stack[t], i)
    <3>1. i # 1 => i - 1 \in 1 .. n
      BY <1>3
    <3> QED  BY <1>6, <3>1 DEF Outer, s
  <2>4. Outer(stack'[t], n + 1) = Innermost(stack[t])
    <3>1. CASE n = 0
      <4>1. stack[t] = <<>>
        BY <1>3, <3>1 DEF s, n
      <4> QED  BY <3>1, <4>1 DEF Outer, Innermost
    <3>2. CASE n # 0
      <4>1. stack[t] # <<>> /\ n + 1 # 1 /\ n + 1 - 1 = n /\ n \in 1 .. n
        BY <1>3, <3>2 DEF s, n
      <4> QED  BY <1>6, <4>1 DEF Outer, Innermost, s, n
    <3> QED  BY <3>1, <3>2
  <2> QED  BY <2>2, <2>3, <2>4
<1>12. Pointed(t)' /\ Restorable(t)'
  <2>1. \A i \in 1 .. n : stack'[t][i].previous = stack[t][i].previous
    BY <1>6 DEF s
  <2>2. stack'[t][n + 1].previous = slot
    BY <1>6, <1>8
  <2>3. \A i \in 1 .. n + 1 : stack'[t][i].previous \in ended \cup {Outer(stack'[t], i)}
    BY <1>1, <1>3, <1>7, <1>11, <2>1, <2>2 DEF Pointed
  <2>4. ~failed => \A i \in 1 .. n + 1 : stack'[t][i].previous = Outer(stack'[t], i)
    BY <1>1, <1>3, <1>7, <1>11, <2>1, <2>2 DEF Restorable
  <2>5. Depth(t)' = 1 .. n + 1
    BY <1>3, <1>6
  <2> QED  BY <1>2, <1>11, <2>3, <2>4, <2>5 DEF Pointed, Restorable
<1>13. RunsOf(t)' = RunsOf(t) \cup {r} /\ r \notin RunsOf(t) \cup ended
  <2>1. RunsOf(t) = {s[i].run : i \in 1 .. n}
    BY <1>3 DEF RunsOf, s
  <2>2. RunsOf(t)' = {stack'[t][i].run : i \in 1 .. n + 1}
    BY <1>3, <1>6 DEF RunsOf
  <2>3. n + 1 \in 1 .. n + 1 /\ \A i \in 1 .. n : i \in 1 .. n + 1
    BY <1>3
  <2> QED  BY <1>5, <1>6, <1>7, <1>8, <2>1, <2>2, <2>3
<1>14. errors[r] = <<>> /\ recorded[r] = {} /\ raised[r] = {}
  BY <1>1, <1>13 DEF Listed
<1>15. Listed(t)'
  <2>1. ASSUME NEW i \in 1 .. n + 1, NEW m \in DOMAIN errors[stack'[t][i].run]
        PROVE  LET e == errors[stack'[t][i].run][m] IN
               /\ e.run = stack'[t][i].run /\ e.policy = stack'[t][i].policy
               /\ stack'[t][i].policy # None
    <3>1. CASE i \in 1 .. n
      BY <1>1, <1>3, <1>6, <2>1, <3>1 DEF Listed, s
    <3>2. CASE i = n + 1
      <4>1. stack'[t][i].run = r
        BY <1>6, <1>8, <3>2
      <4> QED  BY <1>14, <2>1, <4>1
    <3> QED  BY <1>7, <3>1, <3>2
  <2>2. \A q \in Run \ (ended \cup RunsOf(t)') : errors[q] = <<>> /\ recorded[q] = {} /\ raised[q] = {}
    BY <1>1, <1>13 DEF Listed
  <2> QED  BY <1>2, <1>3, <1>6, <2>1, <2>2 DEF Listed
<1>16. Accounted(t)'
  <2>1. OnList(r) = {} /\ Recorded(r) = {}
    BY <1>14 DEF OnList, Recorded
  <2> QED  BY <1>1, <1>2, <1>13, <1>14, <2>1 DEF Accounted, NoneLost, OnList, Recorded
<1>17. NoneMisattributed'
  BY <1>1, <1>2 DEF NoneMisattributed
<1> QED  BY <1>9, <1>10, <1>12, <1>15, <1>16, <1>17 DEF IInv

(* The runs on the stack have not ended.                                   *)
LEMMA RunsAreOn ==
  ASSUME NEW t, Thread = {t}, IInv(t)
  PROVE  /\ \A i \in Depth(t) : stack[t][i] \in Frame /\ stack[t][i].run \in Run \ ended
         /\ RunsOf(t) \subseteq Run \ ended
<1>1. stack[t] \in Seq(Frame) /\ Nested(t)
  BY DEF IInv, Shape
<1>2. \A i \in Depth(t) : stack[t][i] \in Frame
  BY <1>1 DEF Depth
<1>3. \A i \in Depth(t) : stack[t][i].run \in Run \ ended
  BY <1>1, <1>2 DEF Nested, Frame
<1> QED  BY <1>2, <1>3 DEF RunsOf

(* What does not move a run leaves these alone.                            *)
LEMMA UnmovedRuns ==
  ASSUME NEW t, IInv(t), stack'[t] \in Seq(Frame), Len(stack'[t]) = Len(stack[t]),
         \A i \in Depth(t) : /\ stack'[t][i].run = stack[t][i].run
                             /\ stack'[t][i].previous = stack[t][i].previous,
         UNCHANGED <<slot, ended, failed>>
  PROVE  /\ Depth(t)' = Depth(t) /\ RunsOf(t)' = RunsOf(t)
         /\ Nested(t)' /\ Pointed(t)' /\ Restorable(t)'
<1>1. Nested(t) /\ Pointed(t) /\ Restorable(t)
  BY DEF IInv
<1>2. Depth(t)' = Depth(t)
  BY DEF Depth
<1>3. RunsOf(t)' = RunsOf(t) /\ Nested(t)'
  BY <1>1, <1>2 DEF RunsOf, Nested
<1>4. Innermost(stack'[t]) = Innermost(stack[t])
  <2>1. CASE stack[t] = <<>>
    <3>1. stack'[t] = <<>>
      BY <2>1
    <3> QED  BY <2>1, <3>1
  <2>2. CASE stack[t] # <<>>
    BY <2>2 DEF Innermost, Depth
  <2> QED  BY <2>1, <2>2
<1>5. \A i \in Depth(t) : Outer(stack'[t], i) = Outer(stack[t], i)
  BY DEF Outer, Depth
<1>6. Pointed(t)' /\ Restorable(t)'
  BY <1>1, <1>2, <1>4, <1>5 DEF Pointed, Restorable
<1> QED  BY <1>2, <1>3, <1>6

(* The innermost run is on the stack once.                                 *)
LEMMA TopFacts ==
  ASSUME NEW t, Thread = {t}, IInv(t), stack[t] # <<>>
  PROVE  LET n == Len(stack[t]) IN
         /\ stack[t] \in Seq(Frame) /\ n \in Depth(t) /\ Top(t) = stack[t][n] /\ Top(t) \in Frame
         /\ Top(t).run \in Run \ ended /\ Top(t).run \in RunsOf(t) /\ Top(t).run # None
         /\ Innermost(stack[t]) = Top(t).run
         /\ \A i \in Depth(t) : stack[t][i].run = Top(t).run <=> i = n
         /\ \A m \in DOMAIN errors[Top(t).run] :
              /\ errors[Top(t).run][m].run = Top(t).run
              /\ errors[Top(t).run][m].policy = Top(t).policy
              /\ Matching(t)
<1>1. Shape /\ Nested(t) /\ Listed(t)
  BY DEF IInv
<1>2. stack[t] \in Seq(Frame)
  BY <1>1 DEF Shape
<1> DEFINE n == Len(stack[t])
<1>3. /\ n \in Depth(t) /\ Top(t) = stack[t][n] /\ Top(t) \in Frame
      /\ Innermost(stack[t]) = Top(t).run
  BY <1>2, StackFacts
<1> HIDE DEF n
<1>4. Top(t).run \in Run /\ Top(t).run \notin ended /\ Top(t).run # None
  BY <1>1, <1>3, RunAssumption DEF Nested, Frame
<1>5. \A i \in Depth(t) : stack[t][i].run = Top(t).run <=> i = n
  BY <1>1, <1>3 DEF Nested
<1>6. Top(t).run \in RunsOf(t)
  BY <1>3 DEF RunsOf
<1>7. \A m \in DOMAIN errors[Top(t).run] :
        /\ errors[Top(t).run][m].run = Top(t).run
        /\ errors[Top(t).run][m].policy = Top(t).policy
        /\ Top(t).policy # None
  BY <1>1, <1>3 DEF Listed
<1> QED  BY <1>2, <1>3, <1>4, <1>5, <1>6, <1>7 DEF n, Matching

(* A policy's turn begins with an empty list.                              *)
LEMMA ErrorsDispatch ==
  ASSUME NEW t, Thread = {t}, IInv(t), NEW p \in Policy, Dispatch(t, p)  PROVE IInv(t)'
<1> DEFINE s == stack[t]
           n == Len(s)
<1>1. /\ Shape /\ Listed(t) /\ Accounted(t) /\ NoneMisattributed
  BY DEF IInv
<1>2. /\ s # <<>> /\ ~Matching(t) /\ stack' = [stack EXCEPT ![t][n].policy = p]
      /\ UNCHANGED <<slot, errors, recorded, ended, raised, failed>>
  BY DEF Dispatch, history
<1>3. /\ s \in Seq(Frame) /\ n \in Depth(t) /\ Top(t) = s[n]
      /\ \A i \in Depth(t) : s[i].run = Top(t).run <=> i = n
      /\ Top(t) \in Frame /\ DOMAIN errors[Top(t).run] = {}
  BY <1>2, TopFacts
<1>4. /\ stack'[t] \in Seq(Frame) /\ Len(stack'[t]) = n /\ Depth(t) = 1 .. n /\ n \in Nat
      /\ \A i \in 1 .. n : stack'[t][i] = IF i = n THEN [s[n] EXCEPT !.policy = p] ELSE s[i]
  <2>1. stack'[t] = [s EXCEPT ![n].policy = p]
    BY <1>1, <1>2 DEF Shape
  <2>2. Depth(t) = 1 .. n /\ n \in Nat
    BY <1>3 DEF Depth
  <2>3. [s[n] EXCEPT !.policy = p] \in Frame
    <3>1. \A f \in Frame : [f EXCEPT !.policy = p] \in Frame
      BY DEF Frame
    <3> QED  BY <1>3, <3>1
  <2> HIDE DEF s
  <2>4. /\ [s EXCEPT ![n].policy = p] \in Seq(Frame) /\ Len([s EXCEPT ![n].policy = p]) = n
        /\ \A i \in 1 .. n : [s EXCEPT ![n].policy = p][i] =
                               IF i = n THEN [s[n] EXCEPT !.policy = p] ELSE s[i]
    BY <1>3, <2>2, <2>3
  <2> QED  BY <2>1, <2>2, <2>4
<1>5. \A i \in 1 .. n : /\ stack'[t][i].run = s[i].run /\ stack'[t][i].previous = s[i].previous
                        /\ i # n => stack'[t][i].policy = s[i].policy
  <2>1. \A i \in 1 .. n : s[i] \in Frame
    BY <1>3
  <2> QED  BY <1>4, <2>1 DEF Frame
<1>6. /\ Depth(t)' = Depth(t) /\ RunsOf(t)' = RunsOf(t)
      /\ Nested(t)' /\ Pointed(t)' /\ Restorable(t)'
  BY <1>2, <1>4, <1>5, UnmovedRuns
<1>7. Shape'
  <2>1. stack' \in [Thread -> Seq(Frame)]
    BY <1>1, <1>2, <1>4 DEF Shape
  <2> QED  BY <1>1, <1>2, <2>1 DEF Shape
<1>8. Listed(t)'
  <2>1. ASSUME NEW i \in 1 .. n, NEW m \in DOMAIN errors[stack'[t][i].run]
        PROVE  LET e == errors[stack'[t][i].run][m] IN
               /\ e.run = stack'[t][i].run /\ e.policy = stack'[t][i].policy
               /\ stack'[t][i].policy # None
    <3>1. i # n
      BY <1>3, <1>4, <1>5, <2>1
    <3>2. m \in DOMAIN errors[s[i].run]
      BY <1>5, <2>1
    <3>3. /\ errors[s[i].run][m].run = s[i].run /\ errors[s[i].run][m].policy = s[i].policy
          /\ s[i].policy # None
      BY <1>1, <1>4, <3>2 DEF Listed
    <3> QED  BY <1>5, <3>1, <3>3
  <2>2. \A q \in Run \ (ended \cup RunsOf(t)') : errors[q] = <<>> /\ recorded[q] = {} /\ raised[q] = {}
    BY <1>1, <1>6 DEF Listed
  <2> QED  BY <1>2, <1>4, <1>6, <2>1, <2>2 DEF Listed
<1>9. Accounted(t)' /\ NoneMisattributed'
  BY <1>1, <1>2, <1>6 DEF Accounted, NoneLost, OnList, Recorded, NoneMisattributed
<1> QED  BY <1>6, <1>7, <1>8, <1>9 DEF IInv

(* An error goes to the list of the innermost run, by the policy whose     *)
(* turn it is, or to that of a run that has ended; there is always a       *)
(* collector while a run is on.                                            *)
LEMMA ErrorsRaise ==
  ASSUME NEW t, Thread = {t}, IInv(t), stack[t] # <<>>, Raise(t)  PROVE IInv(t)'
<1>0. PICK r : r = Top(t).run
  OBVIOUS
<1> DEFINE e == [run |-> r, policy |-> Top(t).policy, n |-> Cardinality(raised[r])]
<1>1. /\ Shape /\ Nested(t) /\ Pointed(t) /\ Restorable(t)
      /\ Listed(t) /\ Accounted(t) /\ NoneMisattributed
  BY DEF IInv
<1>2. /\ stack[t] \in Seq(Frame) /\ Top(t) \in Frame /\ Top(t) = stack[t][Len(stack[t])]
      /\ r \in Run /\ r \notin ended /\ r \in RunsOf(t) /\ r # None /\ Innermost(stack[t]) = r
      /\ \A i \in Depth(t) : stack[t][i].run = r <=> i = Len(stack[t])
  BY <1>0, TopFacts
<1>3. slot \in ended \cup {r} /\ slot # None
  BY <1>1, <1>2, RunAssumption DEF Pointed, Shape
<1>4. /\ Matching(t) /\ Top(t).policy # None
      /\ raised' = [raised EXCEPT ![r] = @ \cup {e}]
      /\ errors' = [errors EXCEPT ![slot] = Append(@, e)]
      /\ UNCHANGED <<recorded, slot, stack, ended, failed>>
  BY <1>0, <1>3 DEF Raise, Matching
<1>5. e \in Error
  <2>1. Cardinality(raised[r]) \in Nat
    BY <1>1, <1>2, FS_CardinalityType DEF Shape
  <2> QED  BY <1>2, <2>1 DEF Error, Frame
<1>6. e.run = r /\ e.policy = Top(t).policy
  OBVIOUS
<1> HIDE DEF e
<1>7. /\ errors[slot] \in Seq(Error) /\ Append(errors[slot], e) \in Seq(Error)
      /\ errors'[slot] = Append(errors[slot], e)
      /\ \A q \in Run \ {slot} : errors'[q] = errors[q]
      /\ raised'[r] = raised[r] \cup {e} /\ \A q \in Run \ {r} : raised'[q] = raised[q]
  BY <1>1, <1>2, <1>3, <1>4, <1>5 DEF Shape
<1>8. \A m \in DOMAIN errors'[slot] : m \in DOMAIN errors[slot] \/ errors'[slot][m] = e
  <2>1. \A list \in Seq(Error) : \A m \in DOMAIN Append(list, e) :
          m \in DOMAIN list \/ Append(list, e)[m] = e
    BY <1>5
  <2> QED  BY <1>7, <2>1
<1>9. \A m \in DOMAIN errors[slot] : m \in DOMAIN errors'[slot] /\ errors'[slot][m] = errors[slot][m]
  <2>1. \A list \in Seq(Error) : \A m \in DOMAIN list :
          m \in DOMAIN Append(list, e) /\ Append(list, e)[m] = list[m]
    BY <1>5
  <2> QED  BY <1>7, <2>1
<1>10. \E m \in DOMAIN errors'[slot] : errors'[slot][m] = e
  <2>1. \A list \in Seq(Error) : \E m \in DOMAIN Append(list, e) : Append(list, e)[m] = e
    <3> TAKE list \in Seq(Error)
    <3>1. Len(list) + 1 \in DOMAIN Append(list, e) /\ Append(list, e)[Len(list) + 1] = e
      BY <1>5
    <3> QED  BY <3>1
  <2> QED  BY <1>7, <2>1
<1>11. /\ Depth(t)' = Depth(t) /\ RunsOf(t)' = RunsOf(t)
       /\ Nested(t)' /\ Pointed(t)' /\ Restorable(t)'
  BY <1>2, <1>4, UnmovedRuns
<1>12. Shape'
  <2>1. errors' \in [Run -> Seq(Error)]
    BY <1>1, <1>4, <1>7 DEF Shape
  <2>2. DOMAIN raised' = Run /\ \A q \in Run : IsFiniteSet(raised'[q])
    <3>1. DOMAIN raised' = Run
      BY <1>1, <1>4 DEF Shape
    <3>2. \A q \in Run : IsFiniteSet(raised[q])
      BY <1>1 DEF Shape
    <3>3. IsFiniteSet(raised[r] \cup {e})
      BY <1>2, <3>2, FS_AddElement
    <3> QED  BY <1>7, <3>1, <3>2, <3>3
  <2> QED  BY <1>1, <1>4, <2>1, <2>2 DEF Shape
<1>13. Listed(t)'
  <2>1. ASSUME NEW i \in Depth(t), NEW m \in DOMAIN errors'[stack[t][i].run]
        PROVE  /\ errors'[stack[t][i].run][m].run = stack[t][i].run
               /\ errors'[stack[t][i].run][m].policy = stack[t][i].policy
               /\ stack[t][i].policy # None
    <3> DEFINE q == stack[t][i].run
    <3>1. \A k \in DOMAIN errors[q] : /\ errors[q][k].run = q
                                      /\ errors[q][k].policy = stack[t][i].policy
                                      /\ stack[t][i].policy # None
      BY <1>1 DEF Listed
    <3>2. q \in Run /\ q \notin ended
      BY RunsAreOn
    <3>3. CASE q # slot
      <4>1. errors'[q] = errors[q]
        BY <1>7, <3>2, <3>3
      <4> QED  BY <2>1, <3>1, <4>1
    <3>4. CASE q = slot
      <4>1. q = r /\ stack[t][i] = Top(t)
        BY <1>2, <1>3, <3>2, <3>4
      <4>2. CASE m \in DOMAIN errors[q]
        BY <1>9, <3>1, <3>4, <4>2
      <4>3. CASE m \notin DOMAIN errors[q]
        <5>1. errors'[q][m] = e
          BY <1>8, <2>1, <3>4, <4>3
        <5> QED  BY <1>4, <1>6, <4>1, <5>1
      <4> QED  BY <4>2, <4>3
    <3> QED  BY <3>3, <3>4
  <2>2. ASSUME NEW q \in Run \ (ended \cup RunsOf(t))
        PROVE  errors'[q] = <<>> /\ recorded[q] = {} /\ raised'[q] = {}
    <3>1. q # slot /\ q # r
      BY <1>2, <1>3
    <3> QED  BY <1>1, <1>7, <3>1 DEF Listed
  <2> QED  BY <1>4, <1>11, <2>1, <2>2 DEF Listed
<1>14. Accounted(t)'
  <2> SUFFICES ASSUME ~failed  PROVE /\ \A q \in RunsOf(t) : (Recorded(q) \cup OnList(q) = raised[q])'
                                     /\ NoneLost'
    BY <1>4, <1>11 DEF Accounted
  <2>1. slot = r
    BY <1>1, <1>2 DEF Restorable
  <2>2. \A q : Recorded(q)' = Recorded(q)
    BY <1>4 DEF Recorded
  <2>3. OnList(r)' = OnList(r) \cup {e}
    BY <1>4, <1>8, <1>9, <1>10, <2>1 DEF OnList
  <2>4. \A q \in Run \ {r} : OnList(q)' = OnList(q)
    BY <1>7, <2>1 DEF OnList
  <2>5. /\ \A q \in RunsOf(t) : Recorded(q) \cup OnList(q) = raised[q]
        /\ \A q \in ended : Recorded(q) = raised[q]
    BY <1>1 DEF Accounted, NoneLost, Recorded
  <2>6. RunsOf(t) \subseteq Run /\ ended \subseteq Run
    BY <1>1, RunsAreOn DEF Shape
  <2>7. \A q \in RunsOf(t) : (Recorded(q) \cup OnList(q) = raised[q])'
    <3> TAKE q \in RunsOf(t)
    <3>1. CASE q = r
      <4>1. Recorded(r) \cup OnList(r) = raised[r]
        BY <1>2, <2>5
      <4>2. Recorded(r)' \cup OnList(r)' = raised'[r]
        BY <1>7, <2>2, <2>3, <4>1
      <4> QED  BY <3>1, <4>2
    <3>2. CASE q # r
      BY <1>7, <2>2, <2>4, <2>5, <2>6, <3>2
    <3> QED  BY <3>1, <3>2
  <2>8. \A q \in ended : Recorded(q)' = raised'[q]
    BY <1>2, <1>7, <2>2, <2>5, <2>6
  <2>9. NoneLost'
    BY <1>4, <2>8 DEF NoneLost, Recorded
  <2> QED  BY <2>7, <2>9
<1>15. NoneMisattributed'
  BY <1>1, <1>4 DEF NoneMisattributed
<1> QED  BY <1>11, <1>12, <1>13, <1>14, <1>15 DEF IInv

(* The end of a turn: the list goes on record under the policy whose turn  *)
(* it was, and is empty.                                                   *)
LEMMA ErrorsDrain ==
  ASSUME NEW t, Thread = {t}, IInv(t), stack[t] # <<>>, Drain(t)  PROVE IInv(t)'
<1> DEFINE s == stack[t]
           n == Len(s)
<1>0. PICK r, p : r = Top(t).run /\ p = Top(t).policy
  OBVIOUS
<1>1. /\ Shape /\ Nested(t) /\ Listed(t) /\ Accounted(t) /\ NoneMisattributed
  BY DEF IInv
<1>2. /\ s \in Seq(Frame) /\ n \in Depth(t) /\ Top(t) \in Frame /\ Top(t) = s[n]
      /\ r \in Run /\ r \notin ended /\ r \in RunsOf(t)
      /\ \A i \in Depth(t) : s[i].run = r <=> i = n
      /\ \A m \in DOMAIN errors[r] : errors[r][m].run = r /\ errors[r][m].policy = p
  BY <1>0, TopFacts
<1>3. /\ recorded' = [recorded EXCEPT ![r] = @ \cup {<<p, e>> : e \in OnList(r)}]
      /\ errors' = [errors EXCEPT ![r] = <<>>]
      /\ stack' = [stack EXCEPT ![t][n].policy = None]
      /\ UNCHANGED <<slot, ended, raised, failed>>
  BY <1>0 DEF Drain, history, OnList, Sequence!ToSet
<1>4. /\ stack'[t] \in Seq(Frame) /\ Len(stack'[t]) = n /\ Depth(t) = 1 .. n /\ n \in Nat
      /\ \A i \in 1 .. n : stack'[t][i] = IF i = n THEN [s[n] EXCEPT !.policy = None] ELSE s[i]
  <2>1. stack'[t] = [s EXCEPT ![n].policy = None]
    BY <1>1, <1>3 DEF Shape
  <2>2. Depth(t) = 1 .. n /\ n \in Nat
    BY <1>2 DEF Depth
  <2>3. [s[n] EXCEPT !.policy = None] \in Frame
    <3>1. \A f \in Frame : [f EXCEPT !.policy = None] \in Frame
      BY DEF Frame
    <3> QED  BY <1>2, <3>1
  <2> HIDE DEF s
  <2>4. /\ [s EXCEPT ![n].policy = None] \in Seq(Frame) /\ Len([s EXCEPT ![n].policy = None]) = n
        /\ \A i \in 1 .. n : [s EXCEPT ![n].policy = None][i] =
                               IF i = n THEN [s[n] EXCEPT !.policy = None] ELSE s[i]
    BY <1>2, <2>2, <2>3
  <2> QED  BY <2>1, <2>2, <2>4
<1>5. \A i \in 1 .. n : /\ stack'[t][i].run = s[i].run /\ stack'[t][i].previous = s[i].previous
                        /\ i # n => stack'[t][i].policy = s[i].policy
  <2>1. \A i \in 1 .. n : s[i] \in Frame
    BY <1>2
  <2> QED  BY <1>4, <2>1 DEF Frame
<1>6. /\ Depth(t)' = Depth(t) /\ RunsOf(t)' = RunsOf(t)
      /\ Nested(t)' /\ Pointed(t)' /\ Restorable(t)'
  BY <1>3, <1>4, <1>5, UnmovedRuns
<1>7. /\ errors'[r] = <<>> /\ recorded'[r] = recorded[r] \cup {<<p, e>> : e \in OnList(r)}
      /\ \A q \in Run \ {r} : errors'[q] = errors[q] /\ recorded'[q] = recorded[q]
  BY <1>1, <1>2, <1>3 DEF Shape
<1>8. Shape'
  <2>1. stack' \in [Thread -> Seq(Frame)]
    BY <1>1, <1>3, <1>4 DEF Shape
  <2>2. errors' \in [Run -> Seq(Error)]
    BY <1>1, <1>2, <1>3 DEF Shape
  <2> QED  BY <1>1, <1>3, <2>1, <2>2 DEF Shape
<1>9. Listed(t)'
  <2>1. ASSUME NEW i \in Depth(t), NEW m \in DOMAIN errors'[stack'[t][i].run]
        PROVE  LET e == errors'[stack'[t][i].run][m] IN
               /\ e.run = stack'[t][i].run /\ e.policy = stack'[t][i].policy
               /\ stack'[t][i].policy # None
    <3>1. i # n
      BY <1>2, <1>4, <1>5, <1>7, <2>1
    <3>2. s[i].run \in Run \ {r}
      BY <1>2, <3>1, RunsAreOn
    <3>3. errors'[stack'[t][i].run] = errors[s[i].run] /\ m \in DOMAIN errors[s[i].run]
      BY <1>4, <1>5, <1>7, <2>1, <3>2
    <3>4. /\ errors[s[i].run][m].run = s[i].run /\ errors[s[i].run][m].policy = s[i].policy
          /\ s[i].policy # None
      BY <1>1, <3>3 DEF Listed
    <3> QED  BY <1>4, <1>5, <3>1, <3>3, <3>4
  <2>2. \A q \in Run \ (ended \cup RunsOf(t)) : errors'[q] = <<>> /\ recorded'[q] = {} /\ raised[q] = {}
    BY <1>1, <1>2, <1>7 DEF Listed
  <2> QED  BY <1>3, <1>6, <2>1, <2>2 DEF Listed
<1>10. Accounted(t)'
  <2> SUFFICES ASSUME ~failed  PROVE /\ \A q \in RunsOf(t) : (Recorded(q) \cup OnList(q) = raised[q])'
                                     /\ NoneLost'
    BY <1>3, <1>6 DEF Accounted
  <2>1. /\ \A q \in RunsOf(t) : Recorded(q) \cup OnList(q) = raised[q]
        /\ \A q \in ended : Recorded(q) = raised[q]
    BY <1>1 DEF Accounted, NoneLost, Recorded
  <2>2. Recorded(r)' = Recorded(r) \cup OnList(r) /\ OnList(r)' = {}
    <3>1. Recorded(r)' = {entry[2] : entry \in recorded[r] \cup {<<p, e>> : e \in OnList(r)}}
      BY <1>7 DEF Recorded
    <3>2. OnList(r)' = {}
      BY <1>7 DEF OnList
    <3>3. ASSUME NEW earlier, NEW list
          PROVE  {entry[2] : entry \in earlier \cup {<<p, e>> : e \in list}}
                   = {entry[2] : entry \in earlier} \cup list
      <4>1. \A e \in list : <<p, e>>[2] = e
        OBVIOUS
      <4> DEFINE seconds == {entry[2] : entry \in earlier \cup {<<p, e>> : e \in list}}
      <4>2. \A e \in list : <<p, e>> \in earlier \cup {<<p, x>> : x \in list}
        OBVIOUS
      <4>3. list \subseteq seconds
        BY <4>1, <4>2
      <4>4. seconds \subseteq {entry[2] : entry \in earlier} \cup list
        BY <4>1
      <4>5. {entry[2] : entry \in earlier} \subseteq seconds
        OBVIOUS
      <4> QED  BY <4>3, <4>4, <4>5
    <3> QED  BY <3>1, <3>2, <3>3 DEF Recorded
  <2>3. \A q \in Run \ {r} : Recorded(q)' = Recorded(q) /\ OnList(q)' = OnList(q)
    BY <1>7 DEF Recorded, OnList
  <2>4. RunsOf(t) \subseteq Run /\ ended \subseteq Run
    BY <1>1, RunsAreOn DEF Shape
  <2>5. \A q \in RunsOf(t) : (Recorded(q) \cup OnList(q) = raised[q])'
    <3> TAKE q \in RunsOf(t)
    <3>1. CASE q = r
      BY <1>2, <1>3, <2>1, <2>2, <3>1
    <3>2. CASE q # r
      BY <1>3, <2>1, <2>3, <2>4, <3>2
    <3> QED  BY <3>1, <3>2
  <2>6. \A q \in ended : Recorded(q)' = raised'[q]
    BY <1>2, <1>3, <2>1, <2>3, <2>4
  <2> QED  BY <1>3, <2>5, <2>6 DEF NoneLost, Recorded
<1>11. NoneMisattributed'
  <2>1. ASSUME NEW q \in Run, NEW entry \in recorded'[q]
        PROVE  entry[2].run = q /\ entry[2].policy = entry[1]
    <3>1. CASE entry \in recorded[q]
      BY <1>1, <3>1 DEF NoneMisattributed
    <3>2. CASE entry \notin recorded[q]
      <4>1. q = r
        BY <1>7, <2>1, <3>2
      <4>2. PICK e \in OnList(r) : entry = <<p, e>>
        BY <1>7, <2>1, <3>2, <4>1
      <4>3. e.run = r /\ e.policy = p
        BY <1>2 DEF OnList
      <4> QED  BY <4>1, <4>2, <4>3
    <3> QED  BY <3>1, <3>2
  <2> QED  BY <2>1 DEF NoneMisattributed
<1> QED  BY <1>6, <1>8, <1>9, <1>10, <1>11 DEF IInv

(* A run ends outside a turn, with nothing on its list; when it returns,   *)
(* the slot is again what it was when the run began, and when it fails the *)
(* slot stays.                                                             *)
LEMMA ErrorsLeave ==
  ASSUME NEW t, Thread = {t}, IInv(t), Return(t) \/ Fail(t)  PROVE IInv(t)'
<1> DEFINE s == stack[t]
<1>0. PICK n, r : n = Len(s) /\ r = Top(t).run
  OBVIOUS
<1>1. /\ Shape /\ Nested(t) /\ Pointed(t) /\ Restorable(t)
      /\ Listed(t) /\ Accounted(t) /\ NoneMisattributed
  BY DEF IInv
<1>2. /\ s # <<>> /\ ~Matching(t) /\ stack' = [stack EXCEPT ![t] = Sequence!Front(@)]
      /\ ended' = ended \cup {r} /\ UNCHANGED <<errors, recorded, raised>>
  BY <1>0 DEF Return, Fail, Leave
<1>3. \/ slot' = s[n].previous /\ failed' = failed
      \/ slot' = slot /\ failed' = TRUE
  <2>1. Top(t) = s[n]
    BY <1>0, <1>2, TopFacts
  <2> QED  BY <2>1 DEF Return, Fail, Restored
<1>4. /\ s \in Seq(Frame) /\ n \in Depth(t) /\ Depth(t) = 1 .. n /\ s[n].run = r
      /\ s[n] \in Frame /\ n \in Nat /\ n >= 1
      /\ r \in Run /\ r \notin ended /\ r \in RunsOf(t) /\ Innermost(s) = r
      /\ \A i \in Depth(t) : s[i].run = r <=> i = n
      /\ DOMAIN errors[r] = {}
  <2>1. n \in Nat /\ n >= 1
    BY <1>0, <1>1, <1>2, StackFacts DEF Shape
  <2> QED  BY <1>0, <1>2, <2>1, TopFacts DEF Depth
<1>5. /\ stack'[t] \in Seq(Frame) /\ Len(stack'[t]) = n - 1
      /\ \A i \in 1 .. n - 1 : stack'[t][i] = s[i]
  <2>1. stack'[t] = Sequence!Front(s)
    BY <1>1, <1>2 DEF Shape
  <2> QED  BY <1>0, <1>2, <1>4, <2>1, StackFacts
<1>6. Depth(t)' = 1 .. n - 1 /\ \A i \in 1 .. n : i \in 1 .. n - 1 \/ i = n
  BY <1>4, <1>5 DEF Depth
<1>7. \A i \in 1 .. n - 1 : i \in Depth(t) /\ i # n /\ s[i].run # r
  BY <1>4
<1>8. RunsOf(t)' = RunsOf(t) \ {r}
  <2>1. RunsOf(t) = {s[i].run : i \in 1 .. n}
    BY <1>4 DEF RunsOf
  <2>2. RunsOf(t)' = {stack'[t][i].run : i \in 1 .. n - 1}
    BY <1>6 DEF RunsOf
  <2>3. RunsOf(t)' = {s[i].run : i \in 1 .. n - 1}
    BY <1>5, <2>2
  <2> QED  BY <1>4, <1>6, <1>7, <2>1, <2>3
<1>9. ended' \cup RunsOf(t)' = ended \cup RunsOf(t) /\ ended' \subseteq Run
  BY <1>1, <1>2, <1>4, <1>8 DEF Shape
<1>10. Shape'
  <2>1. stack' \in [Thread -> Seq(Frame)]
    BY <1>1, <1>2, <1>5 DEF Shape
  <2>2. slot' \in Run \cup {None} /\ failed' \in BOOLEAN
    <3>1. s[n].previous \in Run \cup {None}
      BY <1>4 DEF Frame
    <3> QED  BY <1>1, <1>3, <3>1 DEF Shape
  <2> QED  BY <1>1, <1>2, <1>9, <2>1, <2>2 DEF Shape
<1>11. Nested(t)'
  <2>1. \A i \in 1 .. n - 1 : stack'[t][i].run = s[i].run /\ s[i].run \notin ended'
    BY <1>2, <1>5, <1>7, RunsAreOn
  <2>2. \A i, j \in 1 .. n - 1 : s[i].run = s[j].run => i = j
    BY <1>1, <1>7 DEF Nested
  <2> QED  BY <1>6, <2>1, <2>2 DEF Nested
<1>12. /\ Innermost(stack'[t]) = Outer(s, n)
       /\ \A i \in 1 .. n - 1 : Outer(stack'[t], i) = Outer(s, i)
  <2>1. ASSUME NEW i \in 1 .. n - 1  PROVE Outer(stack'[t], i) = Outer(s, i)
    <3>1. i # 1 => i - 1 \in 1 .. n - 1
      BY <1>4
    <3> QED  BY <1>5, <3>1 DEF Outer
  <2>2. CASE n = 1
    <3>1. stack'[t] = <<>>
      BY <1>5, <2>2
    <3> QED  BY <2>1, <2>2, <3>1 DEF Outer, Innermost
  <2>3. CASE n # 1
    <3>1. stack'[t] # <<>> /\ n - 1 \in 1 .. n - 1
      BY <1>4, <1>5, <2>3
    <3>2. Innermost(stack'[t]) = s[n - 1].run
      BY <1>5, <3>1 DEF Innermost
    <3> QED  BY <2>1, <2>3, <3>2 DEF Outer
  <2> QED  BY <2>2, <2>3
<1>13. Pointed(t)'
  <2>1. s[n].previous \in ended \cup {Outer(s, n)}
    BY <1>1, <1>4 DEF Pointed
  <2>2. slot' \in ended' \cup {Innermost(stack'[t])}
    BY <1>1, <1>2, <1>3, <1>4, <1>12, <2>1 DEF Pointed
  <2>3. \A i \in 1 .. n - 1 : stack'[t][i].previous \in ended' \cup {Outer(stack'[t], i)}
    BY <1>1, <1>2, <1>5, <1>7, <1>12 DEF Pointed
  <2> QED  BY <1>6, <2>2, <2>3 DEF Pointed
<1>14. Restorable(t)'
  <2> SUFFICES ASSUME ~failed'
               PROVE  /\ slot' = Innermost(stack'[t])
                      /\ \A i \in 1 .. n - 1 : stack'[t][i].previous = Outer(stack'[t], i)
    BY <1>6 DEF Restorable
  <2>1. slot' = s[n].previous /\ \A i \in Depth(t) : s[i].previous = Outer(s, i)
    BY <1>1, <1>3 DEF Restorable
  <2> QED  BY <1>4, <1>5, <1>7, <1>12, <2>1
<1>15. Listed(t)'
  <2>1. ASSUME NEW i \in 1 .. n - 1, NEW m \in DOMAIN errors[stack'[t][i].run]
        PROVE  LET e == errors[stack'[t][i].run][m] IN
               /\ e.run = stack'[t][i].run /\ e.policy = stack'[t][i].policy
               /\ stack'[t][i].policy # None
    <3>1. i \in Depth(t) /\ stack'[t][i] = s[i] /\ m \in DOMAIN errors[s[i].run]
      BY <1>5, <1>7, <2>1
    <3>2. /\ errors[s[i].run][m].run = s[i].run /\ errors[s[i].run][m].policy = s[i].policy
          /\ s[i].policy # None
      BY <1>1, <3>1 DEF Listed
    <3> QED  BY <3>1, <3>2
  <2>2. \A q \in Run \ (ended' \cup RunsOf(t)') :
          errors[q] = <<>> /\ recorded[q] = {} /\ raised[q] = {}
    BY <1>1, <1>9 DEF Listed
  <2> QED  BY <1>2, <1>6, <2>1, <2>2 DEF Listed
<1>16. Accounted(t)'
  <2> SUFFICES ASSUME ~failed'  PROVE /\ \A q \in RunsOf(t)' : (Recorded(q) \cup OnList(q) = raised[q])'
                                      /\ NoneLost'
    BY DEF Accounted
  <2>1. /\ \A q \in RunsOf(t) : Recorded(q) \cup OnList(q) = raised[q]
        /\ \A q \in ended : Recorded(q) = raised[q]
    BY <1>1, <1>3 DEF Accounted, NoneLost, Recorded
  <2>2. OnList(r) = {}
    BY <1>4 DEF OnList
  <2>3. \A q : Recorded(q)' = Recorded(q) /\ OnList(q)' = OnList(q)
    BY <1>2 DEF Recorded, OnList
  <2>4. \A q \in ended' : Recorded(q)' = raised'[q]
    BY <1>2, <1>4, <2>1, <2>2, <2>3
  <2>5. \A q \in RunsOf(t)' : (Recorded(q) \cup OnList(q) = raised[q])'
    BY <1>2, <1>8, <2>1, <2>3
  <2> QED  BY <2>4, <2>5 DEF NoneLost, Recorded
<1>17. NoneMisattributed'
  BY <1>1, <1>2 DEF NoneMisattributed
<1> QED  BY <1>10, <1>11, <1>13, <1>14, <1>15, <1>16, <1>17 DEF IInv

(* A direct call finds at most the list of a run that has ended, and that  *)
(* only after a failure.                                                   *)
LEMMA ErrorsDirect ==
  ASSUME NEW t, Thread = {t}, IInv(t), DirectCall(t)  PROVE IInv(t)'
<1>1. /\ Shape /\ Nested(t) /\ Pointed(t) /\ Restorable(t)
      /\ Listed(t) /\ Accounted(t) /\ NoneMisattributed
  BY DEF IInv
<1>2. /\ stack[t] = <<>> /\ UNCHANGED <<slot, recorded, stack, ended, raised, failed>>
      /\ slot = None => errors' = errors
      /\ slot # None =>
           errors' = [errors EXCEPT ![slot] = Append(@, [run |-> None, policy |-> None, n |-> 0])]
  BY DEF DirectCall
<1>3. Depth(t) = {} /\ RunsOf(t) = {} /\ slot \in ended \cup {None}
  BY <1>1, <1>2 DEF Depth, RunsOf, Pointed, Innermost
<1>4. /\ Depth(t)' = Depth(t) /\ RunsOf(t)' = RunsOf(t)
      /\ Nested(t)' /\ Pointed(t)' /\ Restorable(t)'
  <2>1. stack'[t] \in Seq(Frame)
    BY <1>1, <1>2 DEF Shape
  <2> QED  BY <1>2, <2>1, UnmovedRuns
<1>5. Shape'
  <2>1. errors' \in [Run -> Seq(Error)]
    <3>1. [run |-> None, policy |-> None, n |-> 0] \in Error
      BY DEF Error
    <3>2. CASE slot = None
      BY <1>1, <1>2, <3>2 DEF Shape
    <3>3. CASE slot # None
      <4>1. slot \in Run /\ errors[slot] \in Seq(Error)
        BY <1>1, <3>3 DEF Shape
      <4>2. Append(errors[slot], [run |-> None, policy |-> None, n |-> 0]) \in Seq(Error)
        BY <3>1, <4>1
      <4> QED  BY <1>1, <1>2, <3>3, <4>2 DEF Shape
    <3> QED  BY <3>2, <3>3
  <2> QED  BY <1>1, <1>2, <2>1 DEF Shape
<1>6. \A q \in Run \ ended : errors'[q] = errors[q]
  <2>1. \A q \in Run \ ended : q # None
    BY RunAssumption
  <2> QED  BY <1>1, <1>2, <1>3, <2>1 DEF Shape
<1>7. Listed(t)'
  <2>1. \A q \in Run \ ended : errors'[q] = <<>> /\ recorded'[q] = {} /\ raised'[q] = {}
    BY <1>1, <1>2, <1>3, <1>6 DEF Listed
  <2> QED  BY <1>2, <1>3, <1>4, <2>1 DEF Listed
<1>8. Accounted(t)' /\ NoneMisattributed'
  BY <1>1, <1>2, <1>3, <1>4 DEF Accounted, NoneLost, NoneMisattributed
<1> QED  BY <1>4, <1>5, <1>7, <1>8 DEF IInv

(* The invariant holds in every state of a process with one engine thread. *)
LEMMA ErrorsInvariant == ASSUME NEW t, Thread = {t}  PROVE Spec => []IInv(t)
<1>1. Init => IInv(t)
  BY ErrorsInit
<1>2. IInv(t) /\ [Next]_vars => IInv(t)'
  <2> SUFFICES ASSUME IInv(t), [Next]_vars  PROVE IInv(t)'
    OBVIOUS
  <2>1. CASE UNCHANGED vars
    <3>1. UNCHANGED <<slot, errors, recorded, stack, ended, raised, failed>>
      BY <2>1 DEF vars, history
    <3>2. Depth(t)' = Depth(t) /\ RunsOf(t)' = RunsOf(t)
      BY <3>1 DEF Depth, RunsOf
    <3>3. Shape' /\ Nested(t)' /\ Pointed(t)' /\ Restorable(t)'
      BY <3>1, <3>2 DEF IInv, Shape, Nested, Pointed, Restorable
    <3>4. Listed(t)' /\ NoneMisattributed' /\ NoneLost' = NoneLost
      BY <3>1, <3>2 DEF IInv, Listed, NoneMisattributed, NoneLost
    <3>5. Accounted(t)'
      BY <3>1, <3>2, <3>4 DEF IInv, Accounted, OnList, Recorded
    <3> QED  BY <3>3, <3>4, <3>5 DEF IInv
  <2>2. CASE Next
    <3>1. CASE \E r \in Run : Begin(t, r)
      BY <3>1, ErrorsBegin
    <3>2. CASE \E p \in Policy : Dispatch(t, p)
      BY <3>2, ErrorsDispatch
    <3>3. CASE Raise(t)
      BY <3>3, ErrorsRaise DEF Raise, Matching
    <3>4. CASE Drain(t)
      BY <3>4, ErrorsDrain DEF Drain, Matching
    <3>5. CASE Return(t) \/ Fail(t)
      BY <3>5, ErrorsLeave
    <3>6. CASE DirectCall(t)
      BY <3>6, ErrorsDirect
    <3> QED  BY <2>2, <3>1, <3>2, <3>3, <3>4, <3>5, <3>6 DEF Next
  <2> QED  BY <2>1, <2>2
<1> QED  BY <1>1, <1>2, PTL DEF Spec

-----------------------------------------------------------------------------
(* The drain after each dispatch (Engine._handle_event): in a process with *)
(* one engine thread, an error is recorded by the run and for the policy   *)
(* that raised it, whatever runs are nested in predicates and sinks and    *)
(* whichever of them fail.                                                 *)
THEOREM ErrorsAreAttributed ==
  ASSUME NEW t, Thread = {t}  PROVE Spec => []NoneMisattributed
<1>1. IInv(t) => NoneMisattributed
  BY DEF IInv
<1> QED  BY <1>1, ErrorsInvariant, PTL

(* "Contain, record, continue": as long as every run inside another        *)
(* returns, a run that has ended has recorded every error raised in it and *)
(* no other.                                                               *)
THEOREM ErrorsAreRecorded ==
  ASSUME NEW t, Thread = {t}  PROVE Spec => []NoneLost
<1>1. IInv(t) => NoneLost
  BY DEF IInv, Accounted, NoneLost
<1> QED  BY <1>1, ErrorsInvariant, PTL

-----------------------------------------------------------------------------
(* The commands of one process, and what their steps modules are made of.  *)
CONSTANT Statements

(* A decorator passes an entry, alias() any alias.                         *)
IsEntry(e) == {"id", "kind", "phrasing", "signature", "observed"} \subseteq DOMAIN e
IsStatement(s) == \/ s.do = "register" /\ IsEntry(s.arg)
                  \/ s.do = "alias"
CommandsAreOf ==
  /\ \A s \in Statements : IsStatement(s)
  /\ \A n \in Nat : \A c \in Command(n) :
       /\ c.name \in {"run", "save", "diff"}
       /\ c.module.imports \in Seq(Statements) /\ c.module.builds \in Seq(Statements)

(* What a registry can hold, and what register() is called with.           *)
Passed(do) == {s.arg : s \in {t \in Statements : t.do = do}}
Entries == {[e EXCEPT !.observed = b] : e \in Passed("register"), b \in BOOLEAN}
Offered == Passed("register") \cup Entries
Registry == [entries : Seq(Entries), aliases : Seq(Passed("alias"))]
Result == [reg : Registry, ok : BOOLEAN]

Sound(reg) ==
  /\ reg \in Registry
  /\ \A i, j \in DOMAIN reg.entries : reg.entries[i].id = reg.entries[j].id => i = j
  /\ reg.aliases # <<>> => reg.entries # <<>>

Steps(reg) == {Content(reg.entries[i]) : i \in DOMAIN reg.entries}
Wordings(reg) == {reg.aliases[i] : i \in DOMAIN reg.aliases}

(* Nothing that was there has gone or changed.                             *)
Grown(old, new) ==
  /\ Len(old.entries) <= Len(new.entries)
  /\ \A i \in DOMAIN old.entries : Content(new.entries[i]) = Content(old.entries[i])
  /\ Len(old.aliases) <= Len(new.aliases)
  /\ \A i \in DOMAIN old.aliases : new.aliases[i] = old.aliases[i]

(* What came of adding the contents C and the aliases D.                   *)
Adds(old, C, D, r) ==
  /\ r \in Result /\ Sound(r.reg) /\ Grown(old, r.reg)
  /\ r.ok => Steps(r.reg) = Steps(old) \cup C /\ Wordings(r.reg) = Wordings(old) \cup D

(* From 0 up to N, one by one.                                             *)
LEMMA Climb ==
  ASSUME NEW N \in Nat, NEW S, 0 \in S, \A n \in 0 .. N : n \in S /\ n # N => n + 1 \in S
  PROVE  \A n \in 0 .. N : n \in S
<1> DEFINE Missed == {n \in 0 .. N : n \notin S}
           R == OpToRel(<, Nat)
<1> SUFFICES ASSUME Missed # {}  PROVE FALSE
  OBVIOUS
<1>1. Missed \subseteq Nat
  OBVIOUS
<1>2. PICK m \in Missed : \A n \in Missed : <<n, m>> \notin R
  BY <1>1, NatLessThanWellFounded, WFMin
<1>3. m \in 0 .. N /\ m \notin S /\ m # 0
  BY <1>2
<1>4. m - 1 \in 0 .. N /\ m - 1 # N /\ m - 1 + 1 = m /\ m - 1 < m
  BY <1>3
<1>5. m - 1 \in S
  <2>1. <<m - 1, m>> \in R
    BY <1>3, <1>4 DEF OpToRel
  <2> QED  BY <1>2, <1>4, <2>1
<1> QED  BY <1>3, <1>4, <1>5

(* An entry with its mark set either way is one, with the same content.    *)
LEMMA Marked ==
  ASSUME CommandsAreOf, NEW e \in Offered, NEW b \in BOOLEAN
  PROVE  LET m == [e EXCEPT !.observed = b]
         IN /\ m \in Entries /\ m.observed = b
            /\ m.id = e.id /\ m.kind = e.kind /\ m.phrasing = e.phrasing /\ m.signature = e.signature
            /\ Content(m) = Content(e)
<1> DEFINE m == [e EXCEPT !.observed = b]
<1>1. PICK a \in Passed("register") : e = a \/ \E c \in BOOLEAN : e = [a EXCEPT !.observed = c]
  BY DEF Offered, Entries
<1>2. IsEntry(a)
  BY <1>1 DEF Passed, CommandsAreOf, IsStatement
<1>3. IsEntry(e) /\ m = [a EXCEPT !.observed = b]
  <2>1. CASE e = a
    BY <1>2, <2>1
  <2>2. ASSUME NEW c \in BOOLEAN, e = [a EXCEPT !.observed = c]
        PROVE  IsEntry(e) /\ m = [a EXCEPT !.observed = b]
    <3>1. DOMAIN e = DOMAIN a
      BY <2>2
    <3>2. [[a EXCEPT !.observed = c] EXCEPT !.observed = b] = [a EXCEPT !.observed = b]
      OBVIOUS
    <3> QED  BY <1>2, <2>2, <3>1, <3>2 DEF IsEntry
  <2> QED  BY <1>1, <2>1, <2>2
<1>4. m \in Entries
  BY <1>1, <1>3 DEF Entries
<1>5. /\ m.observed = b
      /\ m.id = e.id /\ m.kind = e.kind /\ m.phrasing = e.phrasing /\ m.signature = e.signature
  BY <1>3 DEF IsEntry
<1>6. Content(m) = Content(e)
  <2> HIDE DEF m
  <2> QED  BY <1>5 DEF Content
<1> QED  BY <1>4, <1>5, <1>6

(* The empty registry.                                                     *)
LEMMA EmptyIs ==
  Sound(EmptyRegistry) /\ Steps(EmptyRegistry) = {} /\ Wordings(EmptyRegistry) = {}
BY DEF Sound, Registry, EmptyRegistry, Steps, Wordings

(* Growth is a preorder.                                                   *)
LEMMA GrownIs ==
  /\ \A r \in Registry : Grown(r, r)
  /\ \A r, s, t \in Registry : Grown(r, s) /\ Grown(s, t) => Grown(r, t)
<1>1. \A r \in Registry : Grown(r, r)
  BY DEF Grown, Registry
<1>2. ASSUME NEW r \in Registry, NEW s \in Registry, NEW t \in Registry, Grown(r, s), Grown(s, t)
      PROVE  Grown(r, t)
  <2>1. /\ Len(r.entries) \in Nat /\ Len(s.entries) \in Nat /\ Len(t.entries) \in Nat
        /\ Len(r.aliases) \in Nat /\ Len(s.aliases) \in Nat /\ Len(t.aliases) \in Nat
        /\ DOMAIN r.entries = 1 .. Len(r.entries) /\ DOMAIN s.entries = 1 .. Len(s.entries)
        /\ DOMAIN r.aliases = 1 .. Len(r.aliases) /\ DOMAIN s.aliases = 1 .. Len(s.aliases)
    BY DEF Registry
  <2>2. DOMAIN r.entries \subseteq DOMAIN s.entries /\ DOMAIN r.aliases \subseteq DOMAIN s.aliases
    BY <1>2, <2>1 DEF Grown
  <2> QED  BY <1>2, <2>1, <2>2 DEF Grown
<1> QED  BY <1>1, <1>2

(* An entry that is appended is in the registry, with all there was.       *)
LEMMA Appended ==
  ASSUME CommandsAreOf, NEW reg, Sound(reg), NEW e \in Offered,
         \A i \in DOMAIN reg.entries : reg.entries[i].id # e.id
  PROVE  LET new == [reg EXCEPT !.entries = Append(@, [e EXCEPT !.observed = FALSE])]
         IN /\ Sound(new) /\ Grown(reg, new) /\ new.entries # <<>>
            /\ Steps(new) = Steps(reg) \cup {Content(e)} /\ Wordings(new) = Wordings(reg)
<1> DEFINE m == [e EXCEPT !.observed = FALSE]
           s == reg.entries
           t == Append(s, m)
           new == [reg EXCEPT !.entries = t]
<1>1. m \in Entries /\ m.id = e.id /\ Content(m) = Content(e)
  BY Marked
<1> HIDE DEF m
<1>2. s \in Seq(Entries) /\ reg.aliases \in Seq(Passed("alias"))
  BY DEF Sound, Registry
<1>3. /\ t \in Seq(Entries) /\ Len(s) \in Nat /\ Len(t) = Len(s) + 1 /\ t # <<>>
      /\ DOMAIN s = 1 .. Len(s) /\ DOMAIN t = 1 .. Len(s) + 1
      /\ t[Len(s) + 1] = m /\ \A i \in 1 .. Len(s) : t[i] = s[i]
  BY <1>1, <1>2
<1>4. new \in Registry /\ new.entries = t /\ new.aliases = reg.aliases
  BY <1>3 DEF Sound, Registry
<1> HIDE DEF t, new, s
<1>5. \A i \in 1 .. Len(s) + 1 : i \in 1 .. Len(s) \/ i = Len(s) + 1
  BY <1>3
<1>6. \A i \in 1 .. Len(s) : s[i].id # e.id
  BY <1>3 DEF s
<1>7. Sound(new)
  <2>1. ASSUME NEW i \in DOMAIN t, NEW j \in DOMAIN t, t[i].id = t[j].id  PROVE i = j
    <3>1. \A x, y \in 1 .. Len(s) : s[x].id = s[y].id => x = y
      BY <1>3 DEF Sound, s
    <3>2. i \in 1 .. Len(s) + 1 /\ j \in 1 .. Len(s) + 1
      BY <1>3
    <3>3. CASE i \in 1 .. Len(s) /\ j \in 1 .. Len(s)
      BY <1>3, <2>1, <3>1, <3>3
    <3>4. CASE i = Len(s) + 1 /\ j \in 1 .. Len(s)
      BY <1>1, <1>3, <1>6, <2>1, <3>4
    <3>5. CASE i \in 1 .. Len(s) /\ j = Len(s) + 1
      BY <1>1, <1>3, <1>6, <2>1, <3>5
    <3> QED  BY <1>5, <3>2, <3>3, <3>4, <3>5
  <2> QED  BY <1>3, <1>4, <2>1 DEF Sound
<1>8. Grown(reg, new)
  <2>1. Len(reg.aliases) \in Nat
    BY <1>2
  <2> QED  BY <1>3, <1>4, <2>1 DEF Grown, s
<1>9. Steps(new) = Steps(reg) \cup {Content(e)}
  <2>1. Steps(new) = {Content(t[i]) : i \in 1 .. Len(s) + 1}
    BY <1>3, <1>4 DEF Steps
  <2>2. Steps(reg) = {Content(s[i]) : i \in 1 .. Len(s)}
    BY <1>3 DEF Steps, s
  <2>3. Len(s) + 1 \in 1 .. Len(s) + 1 /\ \A i \in 1 .. Len(s) : i \in 1 .. Len(s) + 1
    BY <1>3
  <2> QED  BY <1>1, <1>3, <1>5, <2>1, <2>2, <2>3
<1>10. Wordings(new) = Wordings(reg)
  BY <1>4 DEF Wordings
<1> QED  BY <1>3, <1>4, <1>7, <1>8, <1>9, <1>10 DEF t, new, s, m

(* register(): what it does, and that it leaves a registry with entries.   *)
LEMMA RegisterIs ==
  ASSUME CommandsAreOf, NEW reg, Sound(reg), NEW e \in Offered
  PROVE  LET r == Register(reg, e)
         IN Adds(reg, {Content(e)}, {}, r) /\ r.reg.entries # <<>>
<1> DEFINE r == Register(reg, e)
           s == reg.entries
           new == [reg EXCEPT !.entries = Append(@, [e EXCEPT !.observed = FALSE])]
<1>1. reg \in Registry /\ Grown(reg, reg)
  BY GrownIs DEF Sound
<1>2. CASE e.id \notin Ids(reg)
  <2>1. r = [reg |-> new, ok |-> TRUE]
    BY <1>2 DEF Register, Returns
  <2>2. \A i \in DOMAIN s : s[i].id # e.id
    BY <1>2 DEF Ids
  <2>3. /\ Sound(new) /\ Grown(reg, new) /\ new.entries # <<>>
        /\ Steps(new) = Steps(reg) \cup {Content(e)} /\ Wordings(new) = Wordings(reg)
    BY <2>2, Appended
  <2> HIDE DEF new
  <2> QED  BY <2>1, <2>3 DEF Adds, Result, Sound
<1>3. CASE e.id \in Ids(reg)
  <2> DEFINE i == CHOOSE i \in DOMAIN s : s[i].id = e.id
  <2>1. i \in DOMAIN s /\ s[i].id = e.id /\ EntryOf(reg, e.id) = s[i]
    BY <1>3 DEF Ids, EntryOf
  <2> HIDE DEF i
  <2>2. r = [reg |-> reg, ok |-> SameStep(s[i], e)]
    BY <1>3, <2>1 DEF Register, Returns, Raises, SameStep
  <2>3. SameStep(s[i], e) => Content(s[i]) = Content(e)
    BY <2>1 DEF SameStep, Content
  <2>4. SameStep(s[i], e) => Steps(reg) = Steps(reg) \cup {Content(e)}
    BY <2>1, <2>3 DEF Steps
  <2>5. SameStep(s[i], e) \in BOOLEAN
    BY DEF SameStep
  <2>6. s # <<>>
    BY <2>1
  <2> QED  BY <1>1, <2>2, <2>4, <2>5, <2>6 DEF Adds, Result
<1> QED  BY <1>2, <1>3

(* alias(), of a known id.                                                 *)
LEMMA AliasIs ==
  ASSUME NEW reg, Sound(reg), NEW a \in Passed("alias")
  PROVE  LET r == Alias(reg, a)
         IN Adds(reg, {}, {a}, r) /\ (r.ok => r.reg.entries # <<>>)
<1> DEFINE r == Alias(reg, a)
           new == [reg EXCEPT !.aliases = Append(@, a)]
<1>1. reg \in Registry /\ Grown(reg, reg)
  BY GrownIs DEF Sound
<1>2. CASE a.id \notin Ids(reg)
  BY <1>1, <1>2 DEF Alias, Raises, Adds, Result
<1>3. CASE a.id \in Ids(reg)
  <2>1. r = [reg |-> new, ok |-> TRUE] /\ reg.entries # <<>>
    BY <1>3 DEF Alias, Returns, Ids
  <2> DEFINE s == reg.aliases
             t == Append(s, a)
  <2>2. /\ t \in Seq(Passed("alias")) /\ Len(s) \in Nat /\ Len(t) = Len(s) + 1
        /\ DOMAIN s = 1 .. Len(s) /\ DOMAIN t = 1 .. Len(s) + 1
        /\ t[Len(s) + 1] = a /\ \A i \in 1 .. Len(s) : t[i] = s[i]
    BY <1>1 DEF Registry
  <2>3. new \in Registry /\ new.entries = reg.entries /\ new.aliases = t
    BY <1>1, <2>2 DEF Registry
  <2> HIDE DEF t, new, s
  <2>4. Sound(new)
    BY <2>1, <2>3 DEF Sound
  <2>5. Grown(reg, new)
    <3>1. Len(reg.entries) \in Nat
      BY <1>1 DEF Registry
    <3> QED  BY <2>2, <2>3, <3>1 DEF Grown, s
  <2>6. Wordings(new) = Wordings(reg) \cup {a} /\ Steps(new) = Steps(reg)
    <3>1. Wordings(new) = {t[i] : i \in 1 .. Len(s) + 1} /\ Wordings(reg) = {s[i] : i \in 1 .. Len(s)}
      BY <2>2, <2>3 DEF Wordings, s
    <3>2. /\ Len(s) + 1 \in 1 .. Len(s) + 1 /\ \A i \in 1 .. Len(s) : i \in 1 .. Len(s) + 1
          /\ \A i \in 1 .. Len(s) + 1 : i \in 1 .. Len(s) \/ i = Len(s) + 1
      BY <2>2
    <3>3. Wordings(new) = Wordings(reg) \cup {a}
      BY <2>2, <3>1, <3>2
    <3> QED  BY <2>3, <3>3 DEF Steps
  <2> QED  BY <2>1, <2>3, <2>4, <2>5, <2>6 DEF Adds, Result
<1> QED  BY <1>2, <1>3

(* copy_into() leaves out an alias that is there.                          *)
LEMMA AliasOnceIs ==
  ASSUME NEW reg, Sound(reg), NEW a \in Passed("alias")
  PROVE  LET r == AliasOnce(reg, a)
         IN Adds(reg, {}, {a}, r) /\ (r.ok => r.reg.entries # <<>>)
<1>1. CASE a \in ToSet(reg.aliases)
  <2>1. reg \in Registry /\ Grown(reg, reg)
    BY GrownIs DEF Sound
  <2>2. AliasOnce(reg, a) = [reg |-> reg, ok |-> TRUE]
    BY <1>1 DEF AliasOnce, Returns
  <2>3. Wordings(reg) = Wordings(reg) \cup {a}
    BY <1>1 DEF ToSet, Wordings
  <2>4. reg.aliases # <<>>
    BY <1>1 DEF ToSet
  <2> QED  BY <2>1, <2>2, <2>3, <2>4 DEF Adds, Result, Sound
<1>2. CASE a \notin ToSet(reg.aliases)
  BY <1>2, AliasIs DEF AliasOnce
<1> QED  BY <1>1, <1>2

-----------------------------------------------------------------------------
(* What InTurn defines by recursion, for an operation F given as a         *)
(* function: its result after each of the first m arguments.               *)
After(F, reg, args, m, a) ==
  a = [n \in 0 .. m |-> IF n = 0 THEN [reg |-> reg, ok |-> TRUE]
                        ELSE IF a[n - 1].ok THEN F[<<a[n - 1].reg, args[n]>>] ELSE a[n - 1]]

(* There are such results.                                                 *)
LEMMA AfterExists ==
  ASSUME NEW V, NEW A, NEW F \in [V \X A -> [reg : V, ok : BOOLEAN]],
         NEW reg \in V, NEW args \in Seq(A)
  PROVE  \E a \in [0 .. Len(args) -> [reg : V, ok : BOOLEAN]] : After(F, reg, args, Len(args), a)
<1> DEFINE N == Len(args)
           S == {m \in 0 .. N : \E a \in [0 .. m -> [reg : V, ok : BOOLEAN]] : After(F, reg, args, m, a)}
<1>1. N \in Nat /\ \A n \in 1 .. N : args[n] \in A
  OBVIOUS
<1>2. 0 \in S
  <2> DEFINE a == [n \in 0 .. 0 |-> [reg |-> reg, ok |-> TRUE]]
  <2>1. a \in [0 .. 0 -> [reg : V, ok : BOOLEAN]]
    OBVIOUS
  <2>2. After(F, reg, args, 0, a)
    BY DEF After
  <2> HIDE DEF a
  <2> QED  BY <1>1, <2>1, <2>2
<1>3. ASSUME NEW m \in 0 .. N, m \in S, m # N
      PROVE  m + 1 \in S
  <2>1. PICK a \in [0 .. m -> [reg : V, ok : BOOLEAN]] : After(F, reg, args, m, a)
    BY <1>3
  <2>2. \A n \in 0 .. m : a[n] = IF n = 0 THEN [reg |-> reg, ok |-> TRUE]
                                 ELSE IF a[n - 1].ok THEN F[<<a[n - 1].reg, args[n]>>] ELSE a[n - 1]
    BY <2>1 DEF After
  <2> DEFINE last == IF a[m].ok THEN F[<<a[m].reg, args[m + 1]>>] ELSE a[m]
             b == [n \in 0 .. m + 1 |-> IF n = m + 1 THEN last ELSE a[n]]
  <2>3. m \in Nat /\ m + 1 \in 1 .. N /\ \A n \in 0 .. m + 1 : n = m + 1 \/ n \in 0 .. m
    BY <1>1, <1>3
  <2>4. a[m] \in [reg : V, ok : BOOLEAN] /\ a[m].reg \in V
    BY <2>1, <2>3
  <2>5. last \in [reg : V, ok : BOOLEAN]
    BY <1>1, <2>3, <2>4
  <2>6. \A n \in 0 .. m : b[n] = a[n] /\ n # m + 1
    BY <2>3
  <2>7. b[m + 1] = IF b[m].ok THEN F[<<b[m].reg, args[m + 1]>>] ELSE b[m]
    <3>1. b[m + 1] = last
      BY <2>3
    <3>2. b[m] = a[m]
      BY <2>3, <2>6
    <3> HIDE DEF b
    <3> QED  BY <3>1, <3>2
  <2>8. b \in [0 .. m + 1 -> [reg : V, ok : BOOLEAN]]
    BY <2>1, <2>3, <2>5
  <2> HIDE DEF b, last
  <2>9. ASSUME NEW n \in 0 .. m + 1
        PROVE  b[n] = IF n = 0 THEN [reg |-> reg, ok |-> TRUE]
                      ELSE IF b[n - 1].ok THEN F[<<b[n - 1].reg, args[n]>>] ELSE b[n - 1]
    <3>1. CASE n = m + 1
      <4>1. n # 0 /\ n - 1 = m
        BY <2>3, <3>1
      <4> QED  BY <2>7, <3>1, <4>1
    <3>2. CASE n = 0
      <4>1. 0 \in 0 .. m
        BY <2>3
      <4>2. b[0] = a[0]
        BY <2>6, <4>1
      <4>3. a[0] = [reg |-> reg, ok |-> TRUE]
        BY <2>2, <4>1
      <4> QED  BY <3>2, <4>2, <4>3
    <3>3. CASE n # m + 1 /\ n # 0
      <4>1. n \in 0 .. m /\ n - 1 \in 0 .. m
        BY <2>3, <3>3
      <4> QED  BY <2>2, <2>6, <3>3, <4>1
    <3> QED  BY <3>1, <3>2, <3>3
  <2>10. After(F, reg, args, m + 1, b)
    <3>1. b = [n \in 0 .. m + 1 |-> b[n]]
      BY <2>8
    <3> QED  BY <2>9, <3>1 DEF After
  <2> QED  BY <2>3, <2>8, <2>10
<1> HIDE DEF S, N
<1>4. N \in Nat /\ N \in 0 .. N
  BY <1>1
<1>5. \A n \in 0 .. N : n \in S /\ n # N => n + 1 \in S
  BY <1>3
<1>6. N \in S
  BY ONLY <1>2, <1>4, <1>5, Climb
<1> QED  BY <1>6 DEF S, N

(* If each step adds its C and D, all of them together are added.          *)
LEMMA TurnsAdd ==
  ASSUME NEW reg, Sound(reg), NEW N \in Nat, NEW C, NEW D, NEW a,
         a[0] = [reg |-> reg, ok |-> TRUE],
         \A n \in 1 .. N : a[n - 1].ok /\ Sound(a[n - 1].reg) =>
                             Adds(a[n - 1].reg, C[n], D[n], a[n]) /\ (a[n].ok => a[n].reg.entries # <<>>),
         \A n \in 1 .. N : ~a[n - 1].ok => a[n] = a[n - 1]
  PROVE  /\ Adds(reg, UNION {C[n] : n \in 1 .. N}, UNION {D[n] : n \in 1 .. N}, a[N])
         /\ a[N].ok /\ N # 0 => a[N].reg.entries # <<>>
<1> DEFINE All(X, m) == UNION {X[n] : n \in 1 .. m}
           Good(m) == /\ Adds(reg, All(C, m), All(D, m), a[m])
                      /\ a[m].ok /\ m # 0 => a[m].reg.entries # <<>>
           S == {m \in 0 .. N : Good(m)}
<1>1. 0 \in S
  <2>1. All(C, 0) = {} /\ All(D, 0) = {}
    OBVIOUS
  <2>2. reg \in Registry /\ Grown(reg, reg)
    BY GrownIs DEF Sound
  <2> HIDE DEF All
  <2>3. Adds(reg, All(C, 0), All(D, 0), a[0])
    BY <2>1, <2>2 DEF Adds, Result
  <2> QED  BY <2>3
<1>2. ASSUME NEW m \in 0 .. N, m \in S, m # N
      PROVE  m + 1 \in S
  <2>1. m + 1 \in 1 .. N /\ m + 1 - 1 = m /\ m + 1 \in 0 .. N /\ m + 1 # 0
    BY <1>2
  <2>2. \A X : All(X, m + 1) = All(X, m) \cup X[m + 1]
    <3>1. 1 .. m + 1 = 1 .. m \cup {m + 1}
      BY <1>2
    <3> QED  BY <3>1
  <2> HIDE DEF All
  <2>3. Adds(reg, All(C, m), All(D, m), a[m])
    BY <1>2
  <2>4. CASE a[m].ok
    <3>1. /\ Adds(a[m].reg, C[m + 1], D[m + 1], a[m + 1])
          /\ a[m + 1].ok => a[m + 1].reg.entries # <<>>
      BY <2>1, <2>3, <2>4 DEF Adds
    <3>2. Grown(reg, a[m + 1].reg)
      <4>1. reg \in Registry /\ a[m].reg \in Registry /\ a[m + 1].reg \in Registry
        BY <2>3, <3>1 DEF Adds, Sound
      <4> QED  BY <2>3, <3>1, <4>1, GrownIs DEF Adds
    <3>3. Adds(reg, All(C, m + 1), All(D, m + 1), a[m + 1])
      BY <2>2, <2>3, <2>4, <3>1, <3>2 DEF Adds
    <3> QED  BY <2>1, <3>1, <3>3
  <2>5. CASE ~a[m].ok
    <3>1. a[m + 1] = a[m]
      BY <2>1, <2>5
    <3>2. Adds(reg, All(C, m + 1), All(D, m + 1), a[m + 1])
      BY <2>3, <2>5, <3>1 DEF Adds
    <3> QED  BY <2>1, <2>5, <3>1, <3>2
  <2> QED  BY <2>4, <2>5
<1> HIDE DEF S
<1>3. N \in S
  BY <1>1, <1>2, Climb
<1> QED  BY <1>3 DEF S

-----------------------------------------------------------------------------
SoundOnes == {r \in Registry : Sound(r)}

(* What a statement declares.                                              *)
StepOf(s) == IF s.do = "register" THEN {Content(s.arg)} ELSE {}
WordingOf(s) == IF s.do = "alias" THEN {s.arg} ELSE {}
StepsOf(st) == UNION {StepOf(st[n]) : n \in 1 .. Len(st)}
WordingsOf(st) == UNION {WordingOf(st[n]) : n \in 1 .. Len(st)}

(* A statement declares one step or one wording.                           *)
LEMMA StatementIs ==
  ASSUME CommandsAreOf, NEW reg, Sound(reg), NEW s \in Statements
  PROVE  LET r == Statement(reg, s)
         IN Adds(reg, StepOf(s), WordingOf(s), r) /\ (r.ok => r.reg.entries # <<>>)
<1>1. CASE s.do = "register"
  <2>1. s.arg \in Offered
    BY <1>1 DEF Offered, Passed
  <2>2. Statement(reg, s) = Register(reg, s.arg)
    BY <1>1 DEF Statement
  <2>3. StepOf(s) = {Content(s.arg)} /\ WordingOf(s) = {}
    BY <1>1 DEF StepOf, WordingOf
  <2> QED  BY <2>1, <2>2, <2>3, RegisterIs
<1>2. CASE s.do = "alias"
  <2>1. s.arg \in Passed("alias")
    BY <1>2 DEF Passed
  <2>2. Statement(reg, s) = Alias(reg, s.arg)
    BY <1>2 DEF Statement
  <2>3. StepOf(s) = {} /\ WordingOf(s) = {s.arg}
    BY <1>2 DEF StepOf, WordingOf
  <2> QED  BY <2>1, <2>2, <2>3, AliasIs
<1> QED  BY <1>1, <1>2 DEF CommandsAreOf, IsStatement

(* A steps module is executed.                                             *)
LEMMA ExecutedIs ==
  ASSUME CommandsAreOf, NEW reg, Sound(reg), NEW st \in Seq(Statements)
  PROVE  LET r == Executed(reg, st)
         IN /\ Adds(reg, StepsOf(st), WordingsOf(st), r)
            /\ r.ok /\ st # <<>> => r.reg.entries # <<>>
<1> DEFINE N == Len(st)
           Run1(a) == a = [n \in 0 .. N |->
                             IF n = 0 THEN [reg |-> reg, ok |-> TRUE]
                             ELSE IF a[n - 1].ok THEN Statement(a[n - 1].reg, st[n]) ELSE a[n - 1]]
           F == [x \in SoundOnes \X Statements |-> Statement(x[1], x[2])]
           b == CHOOSE a : Run1(a)
<1>1. N \in Nat /\ (N = 0 <=> st = <<>>) /\ \A n \in 1 .. N : st[n] \in Statements
  OBVIOUS
<1>2. \A g \in SoundOnes, s \in Statements : Statement(g, s) \in [reg : SoundOnes, ok : BOOLEAN]
  BY StatementIs DEF SoundOnes, Adds, Result
<1>3. F \in [SoundOnes \X Statements -> [reg : SoundOnes, ok : BOOLEAN]]
  BY <1>2
<1>4. \A g \in SoundOnes, s \in Statements : F[<<g, s>>] = Statement(g, s)
  OBVIOUS
<1>5. reg \in SoundOnes
  BY DEF SoundOnes, Sound
<1> HIDE DEF F, N
<1>6. PICK a \in [0 .. N -> [reg : SoundOnes, ok : BOOLEAN]] : After(F, reg, st, N, a)
  BY <1>3, <1>5, AfterExists DEF N
<1>7. Run1(a)
  <2>1. ASSUME NEW n \in 0 .. N, n # 0
        PROVE  F[<<a[n - 1].reg, st[n]>>] = Statement(a[n - 1].reg, st[n])
    <3>1. n - 1 \in 0 .. N /\ n \in 1 .. N
      BY <1>1, <2>1
    <3> QED  BY <1>1, <1>4, <1>6, <3>1
  <2> QED  BY <1>6, <2>1 DEF After
<1>8. Run1(b)
  BY <1>7
<1>9. Executed(reg, st) = b[N]
  BY DEF Executed, InTurn, Returns, N
<1> HIDE DEF b
<1>10. \A n \in 0 .. N : b[n] = IF n = 0 THEN [reg |-> reg, ok |-> TRUE]
                               ELSE IF b[n - 1].ok THEN Statement(b[n - 1].reg, st[n]) ELSE b[n - 1]
  BY <1>8
<1> DEFINE C == [n \in 1 .. N |-> StepOf(st[n])]
           D == [n \in 1 .. N |-> WordingOf(st[n])]
<1>11. ASSUME NEW n \in 1 .. N, b[n - 1].ok, Sound(b[n - 1].reg)
       PROVE  Adds(b[n - 1].reg, C[n], D[n], b[n]) /\ (b[n].ok => b[n].reg.entries # <<>>)
  <2>1. b[n] = Statement(b[n - 1].reg, st[n])
    BY <1>1, <1>10, <1>11
  <2>2. C[n] = StepOf(st[n]) /\ D[n] = WordingOf(st[n])
    OBVIOUS
  <2> HIDE DEF C, D
  <2>3. st[n] \in Statements
    BY <1>1
  <2>4. LET r == Statement(b[n - 1].reg, st[n])
        IN Adds(b[n - 1].reg, StepOf(st[n]), WordingOf(st[n]), r) /\ (r.ok => r.reg.entries # <<>>)
    BY <1>11, <2>3, StatementIs
  <2> QED  BY ONLY <2>1, <2>2, <2>4
<1>12. \A n \in 1 .. N : ~b[n - 1].ok => b[n] = b[n - 1]
  BY <1>1, <1>10
<1>13. b[0] = [reg |-> reg, ok |-> TRUE]
  <2>1. 0 \in 0 .. N
    BY <1>1
  <2> QED  BY ONLY <1>10, <2>1
<1>14. StepsOf(st) = UNION {C[n] : n \in 1 .. N} /\ WordingsOf(st) = UNION {D[n] : n \in 1 .. N}
  BY DEF StepsOf, WordingsOf, N
<1> HIDE DEF C, D, Run1
<1>15. N \in Nat /\ \A n \in 1 .. N : b[n - 1].ok /\ Sound(b[n - 1].reg) =>
         Adds(b[n - 1].reg, C[n], D[n], b[n]) /\ (b[n].ok => b[n].reg.entries # <<>>)
  BY <1>1, <1>11
<1>16. /\ Adds(reg, UNION {C[n] : n \in 1 .. N}, UNION {D[n] : n \in 1 .. N}, b[N])
       /\ b[N].ok /\ N # 0 => b[N].reg.entries # <<>>
  BY <1>12, <1>13, <1>15, TurnsAdd
<1> QED  BY <1>1, <1>9, <1>14, <1>16

(* The entries of a registry are registered in another.                    *)
LEMMA RegisteredIs ==
  ASSUME CommandsAreOf, NEW reg, Sound(reg), NEW st \in Seq(Entries)
  PROVE  Adds(reg, {Content(st[n]) : n \in 1 .. Len(st)}, {}, InTurn(Register, reg, st))
<1> DEFINE N == Len(st)
           Run1(a) == a = [n \in 0 .. N |->
                             IF n = 0 THEN [reg |-> reg, ok |-> TRUE]
                             ELSE IF a[n - 1].ok THEN Register(a[n - 1].reg, st[n]) ELSE a[n - 1]]
           F == [x \in SoundOnes \X Entries |-> Register(x[1], x[2])]
           b == CHOOSE a : Run1(a)
<1>1. N \in Nat /\ (N = 0 <=> st = <<>>) /\ \A n \in 1 .. N : st[n] \in Entries
  OBVIOUS
<1>2. \A g \in SoundOnes, s \in Entries : Register(g, s) \in [reg : SoundOnes, ok : BOOLEAN]
  BY RegisterIs DEF SoundOnes, Adds, Result, Offered
<1>3. F \in [SoundOnes \X Entries -> [reg : SoundOnes, ok : BOOLEAN]]
  BY <1>2
<1>4. \A g \in SoundOnes, s \in Entries : F[<<g, s>>] = Register(g, s)
  OBVIOUS
<1>5. reg \in SoundOnes
  BY DEF SoundOnes, Sound
<1> HIDE DEF F, N
<1>6. PICK a \in [0 .. N -> [reg : SoundOnes, ok : BOOLEAN]] : After(F, reg, st, N, a)
  BY <1>3, <1>5, AfterExists DEF N
<1>7. Run1(a)
  <2>1. ASSUME NEW n \in 0 .. N, n # 0
        PROVE  F[<<a[n - 1].reg, st[n]>>] = Register(a[n - 1].reg, st[n])
    <3>1. n - 1 \in 0 .. N /\ n \in 1 .. N
      BY <1>1, <2>1
    <3> QED  BY <1>1, <1>4, <1>6, <3>1
  <2> QED  BY <1>6, <2>1 DEF After
<1>8. Run1(b)
  BY <1>7
<1>9. InTurn(Register, reg, st) = b[N]
  BY DEF InTurn, Returns, N
<1> HIDE DEF b
<1>10. \A n \in 0 .. N : b[n] = IF n = 0 THEN [reg |-> reg, ok |-> TRUE]
                               ELSE IF b[n - 1].ok THEN Register(b[n - 1].reg, st[n]) ELSE b[n - 1]
  BY <1>8
<1> DEFINE C == [n \in 1 .. N |-> {Content(st[n])}]
           D == [n \in 1 .. N |-> {}]
<1>11. ASSUME NEW n \in 1 .. N, b[n - 1].ok, Sound(b[n - 1].reg)
       PROVE  Adds(b[n - 1].reg, C[n], D[n], b[n]) /\ (b[n].ok => b[n].reg.entries # <<>>)
  <2>1. b[n] = Register(b[n - 1].reg, st[n])
    BY <1>1, <1>10, <1>11
  <2>2. C[n] = {Content(st[n])} /\ D[n] = {}
    OBVIOUS
  <2> HIDE DEF C, D
  <2>3. st[n] \in Offered
    BY <1>1 DEF Offered
  <2>4. LET r == Register(b[n - 1].reg, st[n])
        IN Adds(b[n - 1].reg, {Content(st[n])}, {}, r) /\ (r.ok => r.reg.entries # <<>>)
    BY <1>11, <2>3, RegisterIs
  <2> QED  BY ONLY <2>1, <2>2, <2>4
<1>12. \A n \in 1 .. N : ~b[n - 1].ok => b[n] = b[n - 1]
  BY <1>1, <1>10
<1>13. b[0] = [reg |-> reg, ok |-> TRUE]
  <2>1. 0 \in 0 .. N
    BY <1>1
  <2> QED  BY ONLY <1>10, <2>1
<1>14. /\ {Content(st[n]) : n \in 1 .. Len(st)} = UNION {C[n] : n \in 1 .. N}
       /\ {} = UNION {D[n] : n \in 1 .. N}
  BY DEF N
<1> HIDE DEF C, D, Run1
<1>15. N \in Nat /\ \A n \in 1 .. N : b[n - 1].ok /\ Sound(b[n - 1].reg) =>
         Adds(b[n - 1].reg, C[n], D[n], b[n]) /\ (b[n].ok => b[n].reg.entries # <<>>)
  BY <1>1, <1>11
<1>16. /\ Adds(reg, UNION {C[n] : n \in 1 .. N}, UNION {D[n] : n \in 1 .. N}, b[N])
       /\ b[N].ok /\ N # 0 => b[N].reg.entries # <<>>
  BY <1>12, <1>13, <1>15, TurnsAdd
<1> QED  BY <1>1, <1>9, <1>14, <1>16

(* The aliases of a registry are copied.                                   *)
LEMMA AliasedIs ==
  ASSUME NEW reg, Sound(reg), NEW st \in Seq(Passed("alias"))
  PROVE  Adds(reg, {}, {st[n] : n \in 1 .. Len(st)}, InTurn(AliasOnce, reg, st))
<1> DEFINE N == Len(st)
           Run1(a) == a = [n \in 0 .. N |->
                             IF n = 0 THEN [reg |-> reg, ok |-> TRUE]
                             ELSE IF a[n - 1].ok THEN AliasOnce(a[n - 1].reg, st[n]) ELSE a[n - 1]]
           F == [x \in SoundOnes \X Passed("alias") |-> AliasOnce(x[1], x[2])]
           b == CHOOSE a : Run1(a)
<1>1. N \in Nat /\ (N = 0 <=> st = <<>>) /\ \A n \in 1 .. N : st[n] \in Passed("alias")
  OBVIOUS
<1>2. \A g \in SoundOnes, s \in Passed("alias") : AliasOnce(g, s) \in [reg : SoundOnes, ok : BOOLEAN]
  BY AliasOnceIs DEF SoundOnes, Adds, Result
<1>3. F \in [SoundOnes \X Passed("alias") -> [reg : SoundOnes, ok : BOOLEAN]]
  BY <1>2
<1>4. \A g \in SoundOnes, s \in Passed("alias") : F[<<g, s>>] = AliasOnce(g, s)
  OBVIOUS
<1>5. reg \in SoundOnes
  BY DEF SoundOnes, Sound
<1> HIDE DEF F, N
<1>6. PICK a \in [0 .. N -> [reg : SoundOnes, ok : BOOLEAN]] : After(F, reg, st, N, a)
  BY <1>3, <1>5, AfterExists DEF N
<1>7. Run1(a)
  <2>1. ASSUME NEW n \in 0 .. N, n # 0
        PROVE  F[<<a[n - 1].reg, st[n]>>] = AliasOnce(a[n - 1].reg, st[n])
    <3>1. n - 1 \in 0 .. N /\ n \in 1 .. N
      BY <1>1, <2>1
    <3> QED  BY <1>1, <1>4, <1>6, <3>1
  <2> QED  BY <1>6, <2>1 DEF After
<1>8. Run1(b)
  BY <1>7
<1>9. InTurn(AliasOnce, reg, st) = b[N]
  BY DEF InTurn, Returns, N
<1> HIDE DEF b
<1>10. \A n \in 0 .. N : b[n] = IF n = 0 THEN [reg |-> reg, ok |-> TRUE]
                               ELSE IF b[n - 1].ok THEN AliasOnce(b[n - 1].reg, st[n]) ELSE b[n - 1]
  BY <1>8
<1> DEFINE C == [n \in 1 .. N |-> {}]
           D == [n \in 1 .. N |-> {st[n]}]
<1>11. ASSUME NEW n \in 1 .. N, b[n - 1].ok, Sound(b[n - 1].reg)
       PROVE  Adds(b[n - 1].reg, C[n], D[n], b[n]) /\ (b[n].ok => b[n].reg.entries # <<>>)
  <2>1. b[n] = AliasOnce(b[n - 1].reg, st[n])
    BY <1>1, <1>10, <1>11
  <2>2. C[n] = {} /\ D[n] = {st[n]}
    OBVIOUS
  <2> HIDE DEF C, D
  <2>3. st[n] \in Passed("alias")
    BY <1>1
  <2>4. LET r == AliasOnce(b[n - 1].reg, st[n])
        IN Adds(b[n - 1].reg, {}, {st[n]}, r) /\ (r.ok => r.reg.entries # <<>>)
    BY <1>11, <2>3, AliasOnceIs
  <2> QED  BY ONLY <2>1, <2>2, <2>4
<1>12. \A n \in 1 .. N : ~b[n - 1].ok => b[n] = b[n - 1]
  BY <1>1, <1>10
<1>13. b[0] = [reg |-> reg, ok |-> TRUE]
  <2>1. 0 \in 0 .. N
    BY <1>1
  <2> QED  BY ONLY <1>10, <2>1
<1>14. /\ {st[n] : n \in 1 .. Len(st)} = UNION {D[n] : n \in 1 .. N}
       /\ {} = UNION {C[n] : n \in 1 .. N}
  BY DEF N
<1> HIDE DEF C, D, Run1
<1>15. N \in Nat /\ \A n \in 1 .. N : b[n - 1].ok /\ Sound(b[n - 1].reg) =>
         Adds(b[n - 1].reg, C[n], D[n], b[n]) /\ (b[n].ok => b[n].reg.entries # <<>>)
  BY <1>1, <1>11
<1>16. /\ Adds(reg, UNION {C[n] : n \in 1 .. N}, UNION {D[n] : n \in 1 .. N}, b[N])
       /\ b[N].ok /\ N # 0 => b[N].reg.entries # <<>>
  BY <1>12, <1>13, <1>15, TurnsAdd
<1> QED  BY <1>1, <1>9, <1>14, <1>16

(* copy_into()                                                             *)
LEMMA CopyIs ==
  ASSUME CommandsAreOf, NEW source, Sound(source), NEW target, Sound(target)
  PROVE  Adds(target, Steps(source), Wordings(source), CopyInto(source, target))
<1> DEFINE r == InTurn(Register, target, source.entries)
           q == InTurn(AliasOnce, r.reg, source.aliases)
<1>1. source.entries \in Seq(Entries) /\ source.aliases \in Seq(Passed("alias"))
  BY DEF Sound, Registry
<1>2. /\ DOMAIN source.entries = 1 .. Len(source.entries)
      /\ DOMAIN source.aliases = 1 .. Len(source.aliases)
  BY <1>1
<1>3. Adds(target, Steps(source), {}, r)
  BY <1>1, <1>2, RegisteredIs DEF Steps
<1>4. CopyInto(source, target) = IF r.ok THEN q ELSE r
  BY DEF CopyInto
<1>5. Adds(r.reg, {}, Wordings(source), q)
  <2>1. Sound(r.reg)
    BY <1>3 DEF Adds
  <2> HIDE DEF r
  <2>2. Adds(r.reg, {}, {source.aliases[n] : n \in 1 .. Len(source.aliases)}, q)
    BY <1>1, <2>1, AliasedIs
  <2>3. Wordings(source) = {source.aliases[n] : n \in 1 .. Len(source.aliases)}
    BY <1>2 DEF Wordings
  <2> HIDE DEF q
  <2> QED  BY <2>2, <2>3
<1> HIDE DEF r, q
<1>6. r.ok => Adds(target, Steps(source), Wordings(source), q)
  <2>1. Grown(target, q.reg)
    <3>1. target \in Registry /\ r.reg \in Registry /\ q.reg \in Registry
      BY <1>3, <1>5 DEF Adds, Sound
    <3> QED  BY <1>3, <1>5, <3>1, GrownIs DEF Adds
  <2> QED  BY <1>3, <1>5, <2>1 DEF Adds
<1>7. ~r.ok => Adds(target, Steps(source), Wordings(source), r)
  BY <1>3 DEF Adds
<1> QED  BY <1>4, <1>6, <1>7

(* _load_steps_module                                                      *)
LEMMA LoadIs ==
  ASSUME CommandsAreOf, NEW reg, Sound(reg), NEW m,
         m.imports \in Seq(Statements), m.builds \in Seq(Statements)
  PROVE  LET r == Load(m, reg)
         IN /\ r \in Result /\ Sound(r.reg) /\ Grown(reg, r.reg)
            /\ r.ok /\ m.imports # <<>> => Adds(reg, StepsOf(m.imports), WordingsOf(m.imports), r)
            /\ r.ok /\ m.imports = <<>> /\ reg.entries = <<>> =>
                 Adds(reg, StepsOf(m.builds), WordingsOf(m.builds), r)
<1> DEFINE imported == Executed(reg, m.imports)
           built == Executed(EmptyRegistry, m.builds)
           copied == CopyInto(built.reg, imported.reg)
           r == Load(m, reg)
<1>1. /\ Adds(reg, StepsOf(m.imports), WordingsOf(m.imports), imported)
      /\ imported.ok /\ m.imports # <<>> => imported.reg.entries # <<>>
  BY ExecutedIs
<1>2. Adds(EmptyRegistry, StepsOf(m.builds), WordingsOf(m.builds), built)
  BY ExecutedIs, EmptyIs
<1>3. Adds(imported.reg, Steps(built.reg), Wordings(built.reg), copied)
  BY <1>1, <1>2, CopyIs DEF Adds
<1>4. r = IF ~imported.ok \/ imported.reg.entries # <<>> THEN imported
          ELSE IF ~built.ok THEN [reg |-> imported.reg, ok |-> FALSE] ELSE copied
  BY DEF Load, Raises
<1> HIDE DEF imported, built, copied, r
<1>5. Grown(reg, copied.reg)
  <2>1. reg \in Registry /\ imported.reg \in Registry /\ copied.reg \in Registry
    BY <1>1, <1>3 DEF Adds, Sound
  <2> QED  BY <1>1, <1>3, <2>1, GrownIs DEF Adds
<1>6. r \in Result /\ Sound(r.reg) /\ Grown(reg, r.reg)
  BY <1>1, <1>3, <1>4, <1>5 DEF Adds, Result
<1>7. ASSUME r.ok, m.imports # <<>>
      PROVE  Adds(reg, StepsOf(m.imports), WordingsOf(m.imports), r)
  BY <1>1, <1>4, <1>7
<1>8. ASSUME r.ok, m.imports = <<>>, reg.entries = <<>>
      PROVE  Adds(reg, StepsOf(m.builds), WordingsOf(m.builds), r)
  <2>1. StepsOf(m.imports) = {} /\ WordingsOf(m.imports) = {}
    BY <1>8 DEF StepsOf, WordingsOf
  <2>2. Steps(reg) = {}
    BY <1>8 DEF Steps
  <2>3. CASE imported.ok /\ imported.reg.entries = <<>>
    <3>1. r = copied /\ built.ok
      BY <1>4, <1>8, <2>3
    <3>2. Steps(imported.reg) = Steps(reg) /\ Wordings(imported.reg) = Wordings(reg)
      BY <1>1, <2>1, <2>3 DEF Adds
    <3>3. Steps(built.reg) = StepsOf(m.builds) /\ Wordings(built.reg) = WordingsOf(m.builds)
      BY <1>2, <3>1, EmptyIs DEF Adds
    <3> QED  BY <1>3, <1>5, <3>1, <3>2, <3>3 DEF Adds
  <2>4. CASE imported.ok /\ imported.reg.entries # <<>>
    <3>1. Steps(imported.reg) = {}
      BY <1>1, <2>1, <2>2, <2>4 DEF Adds
    <3>2. 1 \in DOMAIN imported.reg.entries
      BY <1>1, <2>4 DEF Adds, Sound, Registry
    <3> QED  BY <3>1, <3>2 DEF Steps
  <2>5. CASE ~imported.ok
    BY <1>4, <1>8, <2>5
  <2> QED  BY <2>3, <2>4, <2>5
<1> QED  BY <1>6, <1>7, <1>8 DEF r


-----------------------------------------------------------------------------
(* mark_observed() marks, and nothing else.                                *)
LEMMA MarkIs ==
  ASSUME CommandsAreOf, NEW reg, Sound(reg), NEW types
  PROVE  LET new == MarkObserved(reg, types) IN Sound(new) /\ Grown(reg, new)
<1> DEFINE s == reg.entries
           mark(e) == [e EXCEPT !.observed = @ \/ e.signature.type \in types]
           t == [i \in DOMAIN s |-> mark(s[i])]
           new == [reg EXCEPT !.entries = t]
<1>1. s \in Seq(Entries) /\ DOMAIN s = 1 .. Len(s) /\ Len(s) \in Nat
      /\ reg.aliases \in Seq(Passed("alias")) /\ Len(reg.aliases) \in Nat
  BY DEF Sound, Registry
<1>2. ASSUME NEW i \in DOMAIN s
      PROVE  t[i] \in Entries /\ t[i].id = s[i].id /\ Content(t[i]) = Content(s[i])
  <2>1. s[i] \in Entries /\ s[i] \in Offered
    BY <1>1, <1>2 DEF Offered
  <2> DEFINE b == s[i].observed \/ s[i].signature.type \in types
  <2>2. b \in BOOLEAN
    OBVIOUS
  <2>3. t[i] = [s[i] EXCEPT !.observed = b]
    BY <1>2
  <2> HIDE DEF t, b, s
  <2> QED  BY <2>1, <2>2, <2>3, Marked
<1>3. t \in Seq(Entries) /\ Len(t) = Len(s) /\ DOMAIN t = DOMAIN s
  <2>1. DOMAIN t = 1 .. Len(s)
    BY <1>1
  <2> HIDE DEF t
  <2>2. t \in [1 .. Len(s) -> Entries]
    <3>1. t = [i \in DOMAIN s |-> t[i]]
      BY DEF t
    <3> QED  BY <1>1, <1>2, <3>1
  <2> QED  BY <1>1, <2>1, <2>2
<1>4. MarkObserved(reg, types) = new
  BY DEF MarkObserved
<1> HIDE DEF t, s
<1>5. new.entries = t /\ new.aliases = reg.aliases /\ new \in Registry
  BY <1>1, <1>3 DEF Sound, Registry, s
<1> HIDE DEF new
<1>6. Sound(new)
  <2>1. \A i, j \in DOMAIN s : s[i].id = s[j].id => i = j
    BY DEF Sound, s
  <2>2. ASSUME new.aliases # <<>>  PROVE new.entries # <<>>
    <3>1. s # <<>>
      BY <1>5, <2>2 DEF Sound, s
    <3>2. Len(s) # 0
      BY <1>1, <3>1
    <3> QED  BY <1>3, <1>5, <3>2
  <2> QED  BY <1>2, <1>3, <1>5, <2>1, <2>2 DEF Sound
<1>7. Grown(reg, new)
  BY <1>1, <1>2, <1>3, <1>5 DEF Grown, s
<1> QED  BY <1>4, <1>6, <1>7

-----------------------------------------------------------------------------
(* The commands, step by step.                                             *)
NoneIsOther == None \notin Registry /\ \A n \in Nat : None \notin Command(n)

InModule(m) == IF m.imports # <<>> THEN m.imports ELSE m.builds

(* What a module declares is what its statements do.                       *)
LEMMA DeclaredIs ==
  ASSUME CommandsAreOf, NEW m, m.imports \in Seq(Statements), m.builds \in Seq(Statements)
  PROVE  /\ Contents(Declared(m, "register")) = StepsOf(InModule(m))
         /\ Declared(m, "alias") = WordingsOf(InModule(m))
<1> DEFINE st == InModule(m)
           T(do) == {s.arg : s \in {t \in {st[n] : n \in 1 .. Len(st)} : t.do = do}}
<1>1. st \in Seq(Statements) /\ DOMAIN st = 1 .. Len(st)
  BY DEF InModule
<1>2. \A n \in 1 .. Len(st) : st[n] \in Statements
  BY <1>1
<1>3. \A do : Declared(m, do) = T(do)
  BY <1>1 DEF Declared, ToSet, InModule
<1> HIDE DEF st
<1>4. Contents(T("register")) = StepsOf(st)
  BY <1>2 DEF Contents, StepsOf, StepOf
<1>5. T("alias") = WordingsOf(st)
  BY <1>2 DEF WordingsOf, WordingOf
<1> QED  BY <1>3, <1>4, <1>5 DEF st

(* The reference's terms.                                                  *)
LEMMA PresentIs ==
  ASSUME NEW reg
  PROVE  Contents(ToSet(reg.entries)) = Steps(reg) /\ ToSet(reg.aliases) = Wordings(reg)
BY DEF Contents, ToSet, Steps, Wordings

(* What has grown has all the steps there were, and the aliases first.      *)
LEMMA GrownKeeps ==
  ASSUME NEW old \in Registry, NEW new \in Registry, Grown(old, new)
  PROVE  Steps(old) \subseteq Steps(new) /\ IsPrefix(old.aliases, new.aliases)
<1>1. /\ DOMAIN old.entries = 1 .. Len(old.entries) /\ DOMAIN new.entries = 1 .. Len(new.entries)
      /\ DOMAIN old.aliases = 1 .. Len(old.aliases)
      /\ Len(old.entries) \in Nat /\ Len(new.entries) \in Nat
      /\ Len(old.aliases) \in Nat /\ Len(new.aliases) \in Nat
      /\ old.aliases \in Seq(Passed("alias")) /\ new.aliases \in Seq(Passed("alias"))
  BY DEF Registry
<1>2. DOMAIN old.entries \subseteq DOMAIN new.entries
  BY <1>1 DEF Grown
<1>3. Steps(old) \subseteq Steps(new)
  BY <1>2 DEF Steps, Grown
<1> DEFINE n == Len(old.aliases)
           s == SubSeq(old.aliases, 1, n)
           t == SubSeq(new.aliases, 1, n)
<1>4. n <= Len(new.aliases) /\ \A i \in 1 .. n : new.aliases[i] = old.aliases[i]
  BY <1>1 DEF Grown
<1>5. s = [i \in 1 .. n |-> old.aliases[i]] /\ t = [i \in 1 .. n |-> new.aliases[i]]
  BY <1>1, <1>4
<1>6. s = t
  BY <1>4, <1>5
<1> QED  BY <1>3, <1>4, <1>6 DEF IsPrefix

AsDeclared ==
  LET st == InModule(call.module)
  IN IF saved # None THEN Steps(registry) = StepsOf(st) /\ Wordings(registry) = WordingsOf(st)
     ELSE call.module.imports # <<>> \/ before.entries = <<>> =>
            StepsOf(st) \subseteq Steps(registry) /\ WordingsOf(st) \subseteq Wordings(registry)

(* Between commands the default registry is presented; inside one, save    *)
(* and diff have put it aside and a run has added to it.                   *)
CommandInv ==
  /\ calls \in Nat /\ Sound(registry) /\ Sound(before)
  /\ \/ /\ stage = "done" /\ saved = None
        /\ call # None => IF call.name = "run" THEN Grown(before, registry) ELSE registry = before
     \/ /\ stage \in {"begun", "loaded", "compiled"} /\ call.name \in {"run", "save", "diff"}
        /\ call.module.imports \in Seq(Statements) /\ call.module.builds \in Seq(Statements)
        /\ IF call.name = "run"
           THEN saved = None /\ Grown(before, registry) /\ (stage = "begun" => registry = before)
           ELSE saved = before /\ (stage = "begun" => registry = EmptyRegistry)
        /\ stage = "loaded" => AsDeclared

(* It holds of a command that is called.                                   *)
LEMMA CallKeeps ==
  ASSUME CommandsAreOf, NoneIsOther, CommandInv, NEW c \in Command(calls + 1), Call(c)
  PROVE  CommandInv'
<1>1. /\ c.name \in {"run", "save", "diff"}
      /\ c.module.imports \in Seq(Statements) /\ c.module.builds \in Seq(Statements)
  <2>1. calls + 1 \in Nat
    BY DEF CommandInv
  <2> QED  BY <2>1 DEF CommandsAreOf
<1>2. /\ stage = "done" /\ saved = None /\ stage' = "begun" /\ call' = c /\ before' = registry
      /\ calls' \in Nat /\ Sound(registry) /\ Grown(registry, registry)
  BY GrownIs DEF CommandInv, Call, Sound
<1>3. IF c.name = "run" THEN registry' = registry /\ saved' = None
      ELSE saved' = registry /\ registry' = EmptyRegistry
  BY <1>2 DEF Call, EnterIsolated
<1>4. Sound(registry') /\ Sound(before')
  BY <1>2, <1>3, EmptyIs
<1> QED  BY <1>1, <1>2, <1>3, <1>4 DEF CommandInv

(* It holds when its steps module has been loaded, or has not.             *)
LEMMA LoadKeeps ==
  ASSUME CommandsAreOf, NoneIsOther, CommandInv, LoadSteps
  PROVE  CommandInv'
<1> DEFINE m == call.module
           st == InModule(m)
           r == Load(m, registry)
<1>1. /\ stage = "begun" /\ call.name \in {"run", "save", "diff"}
      /\ m.imports \in Seq(Statements) /\ m.builds \in Seq(Statements)
      /\ calls \in Nat /\ Sound(registry) /\ Sound(before)
      /\ IF call.name = "run" THEN saved = None /\ registry = before
         ELSE saved = before /\ registry = EmptyRegistry
  BY DEF CommandInv, LoadSteps
<1>2. before # None
  BY <1>1 DEF NoneIsOther, Sound
<1>3. UNCHANGED <<call, before, calls>>
  BY DEF LoadSteps
<1>4. /\ Sound(r.reg) /\ Grown(registry, r.reg)
      /\ r.ok /\ m.imports # <<>> => Adds(registry, StepsOf(m.imports), WordingsOf(m.imports), r)
      /\ r.ok /\ m.imports = <<>> /\ registry.entries = <<>> =>
           Adds(registry, StepsOf(m.builds), WordingsOf(m.builds), r)
  BY <1>1, LoadIs
<1>5. CASE r.ok
  <2>1. registry' = r.reg /\ saved' = saved /\ stage' = "loaded"
    BY <1>5 DEF LoadSteps
  <2> HIDE DEF r
  <2>2. m.imports # <<>> \/ registry.entries = <<>> =>
          Steps(r.reg) = Steps(registry) \cup StepsOf(st) /\ Wordings(r.reg) = Wordings(registry) \cup WordingsOf(st)
    BY <1>4, <1>5 DEF Adds, InModule
  <2> HIDE DEF st
  <2>3. AsDeclared'
    <3>1. CASE call.name = "run"
      <4>1. saved' = None /\ before' = registry
        BY <1>1, <1>3, <2>1, <3>1
      <4> QED  BY <1>3, <2>1, <2>2, <4>1 DEF AsDeclared, st
    <3>2. CASE call.name # "run"
      <4>1. saved' # None /\ registry = EmptyRegistry
        BY <1>1, <1>2, <2>1, <3>2
      <4>2. Steps(registry) = {} /\ Wordings(registry) = {} /\ registry.entries = <<>>
        BY <4>1, EmptyIs DEF EmptyRegistry
      <4> QED  BY <1>3, <2>1, <2>2, <4>1, <4>2 DEF AsDeclared, st
    <3> QED  BY <3>1, <3>2
  <2>4. Sound(registry') /\ Sound(before')
    BY <1>1, <1>3, <1>4, <2>1
  <2>5. IF call'.name = "run" THEN saved' = None /\ Grown(before', registry') ELSE saved' = before'
    BY <1>1, <1>3, <1>4, <2>1
  <2> QED  BY <1>1, <1>3, <2>1, <2>3, <2>4, <2>5 DEF CommandInv
<1>6. CASE ~r.ok
  <2>1. stage' = "done" /\ LeaveIsolated(r.reg, FALSE)
    BY <1>6 DEF LoadSteps
  <2> HIDE DEF r
  <2>2. IF call.name = "run" THEN registry' = r.reg /\ saved' = None
        ELSE registry' = before /\ saved' = None
    BY <1>1, <1>2, <2>1 DEF LeaveIsolated
  <2>3. Sound(registry') /\ Sound(before')
    BY <1>1, <1>3, <1>4, <2>2
  <2>4. IF call'.name = "run" THEN Grown(before', registry') ELSE registry' = before'
    BY <1>1, <1>3, <1>4, <2>2
  <2> QED  BY <1>1, <1>3, <2>1, <2>2, <2>3, <2>4 DEF CommandInv
<1> QED  BY <1>5, <1>6

(* It holds whatever step is taken.                                        *)
LEMMA CommandKeeps ==
  ASSUME CommandsAreOf, NoneIsOther, CommandInv, [CommandNext]_commandVars
  PROVE  CommandInv'
<1> DEFINE Rest(s) ==
      /\ call.name \in {"run", "save", "diff"}
      /\ call.module.imports \in Seq(Statements) /\ call.module.builds \in Seq(Statements)
      /\ IF call.name = "run" THEN saved = None /\ Grown(before, registry) ELSE saved = before
<1>1. calls \in Nat /\ Sound(registry) /\ Sound(before)
  BY DEF CommandInv
<1>2. before # None
  BY <1>1 DEF NoneIsOther, Sound
<1>3. stage \in {"loaded", "compiled"} => Rest(0)
  BY DEF CommandInv
<1>4. ASSUME NEW c \in Command(calls + 1), Call(c)  PROVE CommandInv'
  BY <1>4, CallKeeps
<1>5. CASE LoadSteps
  BY <1>5, LoadKeeps
<1>6. CASE Compile
  <2>1. /\ stage = "loaded" /\ stage' = "compiled"
        /\ UNCHANGED <<registry, saved, call, before, calls>>
    BY <1>6 DEF Compile
  <2> QED  BY <1>1, <1>3, <2>1 DEF CommandInv
<1>7. CASE FinishRun
  <2> DEFINE marked == MarkObserved(registry, TypesIn(call.trace))
  <2>1. /\ stage = "compiled" /\ call.name = "run" /\ stage' = "done"
        /\ registry' = registry \/ registry' = marked
        /\ UNCHANGED <<saved, call, before, calls>>
    BY <1>7 DEF FinishRun
  <2>2. Sound(marked) /\ Grown(registry, marked)
    BY <1>1, MarkIs
  <2> HIDE DEF marked
  <2>3. Sound(registry') /\ Grown(registry, registry')
    BY <1>1, <2>1, <2>2, GrownIs DEF Sound
  <2>4. Grown(before, registry')
    <3>1. before \in Registry /\ registry \in Registry /\ registry' \in Registry
      BY <1>1, <2>3 DEF Sound
    <3> QED  BY <1>3, <2>1, <2>3, <3>1, GrownIs
  <2> QED  BY <1>1, <1>3, <2>1, <2>3, <2>4 DEF CommandInv
<1>8. CASE FinishCatalog
  <2>1. /\ stage \in {"loaded", "compiled"} /\ call.name \in {"save", "diff"} /\ stage' = "done"
        /\ LeaveIsolated(registry, TRUE) /\ UNCHANGED <<call, before, calls>>
    BY <1>8 DEF FinishCatalog
  <2>2. registry' = before /\ saved' = None
    BY <1>2, <1>3, <2>1 DEF LeaveIsolated
  <2> QED  BY <1>1, <2>1, <2>2 DEF CommandInv
<1>9. CASE UNCHANGED commandVars
  <2>1. UNCHANGED <<registry, saved, call, stage, before, calls>>
    BY <1>9 DEF commandVars
  <2> QED  BY <2>1 DEF CommandInv, AsDeclared
<1> QED  BY <1>4, <1>5, <1>6, <1>7, <1>8, <1>9 DEF CommandNext

(* So it always holds.                                                     *)
LEMMA CommandInvariant ==
  ASSUME CommandsAreOf, NoneIsOther
  PROVE  CommandSpec => []CommandInv
<1>1. CommandInit => CommandInv
  BY EmptyIs DEF CommandInit, CommandInv
<1>2. CommandInv /\ [CommandNext]_commandVars => CommandInv'
  BY CommandKeeps
<1> QED  BY <1>1, <1>2, PTL DEF CommandSpec

(* Whatever modules the commands load, and in whatever order: save and     *)
(* diff leave the default registry as they found it, a run leaves every    *)
(* id with the step it had, once, and every alias in its place             *)
(* (__main__.main, registry.StepRegistry).                                 *)
THEOREM RegistrationsLast ==
  ASSUME CommandsAreOf, NoneIsOther
  PROVE  CommandSpec => []RegistrationsEndure
<1>1. CommandInv => RegistrationsEndure
  <2> SUFFICES ASSUME CommandInv, stage = "done", call # None
               PROVE  IF call.name = "run"
                      THEN /\ Contents(ToSet(before.entries)) \subseteq Contents(ToSet(registry.entries))
                           /\ \A i, j \in DOMAIN registry.entries :
                                registry.entries[i].id = registry.entries[j].id => i = j
                           /\ IsPrefix(before.aliases, registry.aliases)
                      ELSE registry = before
    BY DEF RegistrationsEndure
  <2>1. CASE call.name = "run"
    <3>1. Grown(before, registry) /\ Sound(before) /\ Sound(registry)
      BY <2>1 DEF CommandInv
    <3>2. before \in Registry /\ registry \in Registry
      BY <3>1 DEF Sound
    <3>3. Steps(before) \subseteq Steps(registry) /\ IsPrefix(before.aliases, registry.aliases)
      BY <3>1, <3>2, GrownKeeps
    <3>4. Contents(ToSet(before.entries)) \subseteq Contents(ToSet(registry.entries))
      BY <3>3, PresentIs
    <3> QED  BY <2>1, <3>1, <3>3, <3>4 DEF Sound
  <2>2. CASE call.name # "run"
    BY <2>2 DEF CommandInv
  <2> QED  BY <2>1, <2>2
<1> QED  BY <1>1, CommandInvariant, PTL

(* Save and diff see the steps and wordings of their module and no others, *)
(* whatever was loaded before; and a run that gets past loading has all of *)
(* its module's, unless the module has a build_registry() and the registry *)
(* is in use (__main__._load_steps_module, registry.isolated).             *)
THEOREM ModulesLoadAsDeclared ==
  ASSUME CommandsAreOf, NoneIsOther
  PROVE  CommandSpec => []LoadedAsDeclared
<1>1. CommandInv => LoadedAsDeclared
  <2> SUFFICES ASSUME CommandInv, stage = "loaded"  PROVE LoadedAsDeclared
    BY DEF LoadedAsDeclared
  <2>1. /\ AsDeclared
        /\ call.module.imports \in Seq(Statements) /\ call.module.builds \in Seq(Statements)
    BY DEF CommandInv
  <2>2. /\ Contents(Declared(call.module, "register")) = StepsOf(InModule(call.module))
        /\ Declared(call.module, "alias") = WordingsOf(InModule(call.module))
    BY <2>1, DeclaredIs
  <2>3. Contents(ToSet(registry.entries)) = Steps(registry) /\ ToSet(registry.aliases) = Wordings(registry)
    BY PresentIs
  <2> QED  BY <2>1, <2>2, <2>3 DEF AsDeclared, LoadedAsDeclared
<1> QED  BY <1>1, CommandInvariant, PTL

(* A policy that diff does not warn of has, for each of its predicates, an *)
(* event in the trace for which it holds (__main__._warn_if_uncheckable).  *)
THEOREM UnwarnedIsChecked == CommandSpec => []UnwarnedCanBeSeen
<1>1. UnwarnedCanBeSeen
  <2> DEFINE types == TypesIn(call.trace)
             values == ValuesIn(call.trace)
  <2>1. ASSUME NEW policies \in outcome, NEW i \in DOMAIN policies,
               Uncheckable(policies[i], types, values) = {},
               NEW r \in Predicates(policies[i].monitor)
        PROVE  \E e \in call.trace :
                 e.type = r.signature.type /\ (r.filler = <<>> \/ e.value = r.filler)
    <3>1. /\ r.signature.type \in types
          /\ r.filler = <<>> \/ <<r.signature.type, r.filler>> \in values
      BY <2>1 DEF Uncheckable
    <3> QED  BY <3>1 DEF TypesIn, ValuesIn
  <2> QED  BY <2>1 DEF UnwarnedCanBeSeen
<1> QED  BY <1>1, PTL

-----------------------------------------------------------------------------
(* What Chosen defines by recursion.                                       *)
Choosing(s, places, m, a) ==
  a = [n \in 0 .. m |-> IF n = 0 THEN <<>>
                        ELSE IF n \in places THEN Append(a[n - 1], s[n]) ELSE a[n - 1]]

(* The members of s at the places up to n, in a sequence.                  *)
Picked(s, places, n, c) ==
  /\ Len(c) = Cardinality(places \cap (1 .. n))
  /\ {c[k] : k \in 1 .. Len(c)} = {s[i] : i \in places \cap (1 .. n)}

(* Such a sequence of choices exists.                                      *)
LEMMA ChoosingExists ==
  ASSUME NEW T, NEW s \in Seq(T), NEW places
  PROVE  \E a \in [0 .. Len(s) -> Seq(T)] : Choosing(s, places, Len(s), a)
<1> DEFINE N == Len(s)
           S == {m \in 0 .. N : \E a \in [0 .. m -> Seq(T)] : Choosing(s, places, m, a)}
<1>1. N \in Nat /\ \A n \in 1 .. N : s[n] \in T
  OBVIOUS
<1>2. 0 \in S
  <2> DEFINE a == [n \in 0 .. 0 |-> <<>>]
  <2>1. a \in [0 .. 0 -> Seq(T)] /\ \A n \in 0 .. 0 : n = 0 /\ a[n] = <<>>
    OBVIOUS
  <2> HIDE DEF a
  <2>2. Choosing(s, places, 0, a)
    <3>1. a = [n \in 0 .. 0 |-> <<>>]
      BY DEF a
    <3>2. \A n \in 0 .. 0 : <<>> = IF n = 0 THEN <<>> ELSE IF n \in places THEN Append(a[n - 1], s[n]) ELSE a[n - 1]
      OBVIOUS
    <3> QED  BY <3>1, <3>2 DEF Choosing
  <2> QED  BY <1>1, <2>1, <2>2
<1>3. ASSUME NEW m \in 0 .. N, m \in S, m # N
      PROVE  m + 1 \in S
  <2>1. PICK a \in [0 .. m -> Seq(T)] : Choosing(s, places, m, a)
    BY <1>3
  <2>2. \A n \in 0 .. m : a[n] = IF n = 0 THEN <<>>
                                 ELSE IF n \in places THEN Append(a[n - 1], s[n]) ELSE a[n - 1]
    BY <2>1 DEF Choosing
  <2> DEFINE last == IF m + 1 \in places THEN Append(a[m], s[m + 1]) ELSE a[m]
             b == [n \in 0 .. m + 1 |-> IF n = m + 1 THEN last ELSE a[n]]
  <2>3. m \in Nat /\ m + 1 \in 1 .. N /\ \A n \in 0 .. m + 1 : n = m + 1 \/ n \in 0 .. m
    BY <1>1, <1>3
  <2>4. a[m] \in Seq(T) /\ s[m + 1] \in T
    BY <1>1, <2>1, <2>3
  <2>5. last \in Seq(T)
    BY <2>4
  <2>6. \A n \in 0 .. m : b[n] = a[n] /\ n # m + 1
    BY <2>3
  <2>7. b[m + 1] = IF m + 1 \in places THEN Append(b[m], s[m + 1]) ELSE b[m]
    <3>1. b[m + 1] = last /\ b[m] = a[m]
      BY <2>3, <2>6
    <3> HIDE DEF b
    <3> QED  BY <3>1
  <2>8. b \in [0 .. m + 1 -> Seq(T)]
    BY <2>1, <2>3, <2>5
  <2> HIDE DEF b, last
  <2>9. ASSUME NEW n \in 0 .. m + 1
        PROVE  b[n] = IF n = 0 THEN <<>>
                      ELSE IF n \in places THEN Append(b[n - 1], s[n]) ELSE b[n - 1]
    <3>1. CASE n = m + 1
      <4>1. n # 0 /\ n - 1 = m
        BY <2>3, <3>1
      <4> QED  BY <2>7, <3>1, <4>1
    <3>2. CASE n = 0
      <4>1. 0 \in 0 .. m
        BY <2>3
      <4>2. b[0] = a[0] /\ a[0] = <<>>
        BY <2>2, <2>6, <4>1
      <4> QED  BY <3>2, <4>2
    <3>3. CASE n # m + 1 /\ n # 0
      <4>1. n \in 0 .. m /\ n - 1 \in 0 .. m
        BY <2>3, <3>3
      <4> QED  BY <2>2, <2>6, <3>3, <4>1
    <3> QED  BY <3>1, <3>2, <3>3
  <2>10. Choosing(s, places, m + 1, b)
    <3>1. b = [n \in 0 .. m + 1 |-> b[n]]
      BY <2>8
    <3> QED  BY <2>9, <3>1 DEF Choosing
  <2> QED  BY <2>3, <2>8, <2>10
<1> HIDE DEF S, N
<1>4. N \in Nat /\ N \in 0 .. N
  BY <1>1
<1>5. \A n \in 0 .. N : n \in S /\ n # N => n + 1 \in S
  BY <1>3
<1>6. N \in S
  BY ONLY <1>2, <1>4, <1>5, Climb
<1> QED  BY <1>6 DEF S, N

(* What is chosen of a list: what stands at the places, one for each.      *)
LEMMA ChosenIs ==
  ASSUME NEW T, NEW s \in Seq(T), NEW places, places \subseteq 1 .. Len(s)
  PROVE  /\ Chosen(s, places) \in Seq(T) /\ IsFiniteSet(places)
         /\ Len(Chosen(s, places)) = Cardinality(places)
         /\ {Chosen(s, places)[k] : k \in 1 .. Len(Chosen(s, places))} = {s[i] : i \in places}
<1> DEFINE N == Len(s)
           a == CHOOSE a : Choosing(s, places, N, a)
           Q(n) == places \cap (1 .. n)
           S == {m \in 0 .. N : a[m] \in Seq(T) /\ IsFiniteSet(Q(m)) /\ Picked(s, places, m, a[m])}
<1>1. N \in Nat /\ \A n \in 1 .. N : s[n] \in T
  OBVIOUS
<1>2. Choosing(s, places, N, a)
  BY ChoosingExists
<1>3. Chosen(s, places) = a[N]
  BY DEF Chosen, Choosing
<1> HIDE DEF a
<1>4. \A n \in 0 .. N : a[n] = IF n = 0 THEN <<>>
                               ELSE IF n \in places THEN Append(a[n - 1], s[n]) ELSE a[n - 1]
  BY <1>2 DEF Choosing
<1> HIDE DEF N
<1>5. 0 \in S
  <2>1. 0 \in 0 .. N /\ a[0] = <<>>
    BY <1>1, <1>4
  <2>2. Q(0) = {}
    OBVIOUS
  <2>3. IsFiniteSet(Q(0)) /\ Cardinality(Q(0)) = 0
    BY <2>2, FS_EmptySet
  <2>4. a[0] \in Seq(T) /\ Len(a[0]) = 0 /\ {a[0][k] : k \in 1 .. 0} = {}
    BY <2>1
  <2>5. Picked(s, places, 0, a[0])
    BY <2>2, <2>3, <2>4 DEF Picked
  <2> QED  BY <2>1, <2>3, <2>4, <2>5
<1>6. ASSUME NEW m \in 0 .. N, m \in S, m # N
      PROVE  m + 1 \in S
  <2>1. m + 1 \in 1 .. N /\ m + 1 \in 0 .. N /\ m + 1 # 0 /\ m + 1 - 1 = m /\ s[m + 1] \in T /\ m \in Nat
    BY <1>1, <1>6
  <2>2. a[m] \in Seq(T) /\ IsFiniteSet(Q(m)) /\ Picked(s, places, m, a[m])
    BY <1>6
  <2>3. a[m + 1] = IF m + 1 \in places THEN Append(a[m], s[m + 1]) ELSE a[m]
    BY <1>4, <2>1
  <2>4. CASE m + 1 \in places
    <3> DEFINE c == a[m]
               n == Len(c)
               d == Append(c, s[m + 1])
    <3>1. a[m + 1] = d
      BY <2>3, <2>4
    <3>2. Q(m + 1) = Q(m) \cup {m + 1} /\ m + 1 \notin Q(m)
      BY <2>1, <2>4
    <3>3. IsFiniteSet(Q(m + 1)) /\ Cardinality(Q(m + 1)) = Cardinality(Q(m)) + 1
      <4> HIDE DEF Q
      <4>1. /\ IsFiniteSet(Q(m) \cup {m + 1})
            /\ Cardinality(Q(m) \cup {m + 1}) =
                 IF m + 1 \in Q(m) THEN Cardinality(Q(m)) ELSE Cardinality(Q(m)) + 1
        BY <2>2, FS_AddElement
      <4> QED  BY <3>2, <4>1
    <3>4. n \in Nat /\ d \in Seq(T) /\ Len(d) = n + 1 /\ d[n + 1] = s[m + 1] /\ \A k \in 1 .. n : d[k] = c[k]
      BY <2>1, <2>2
    <3> HIDE DEF d, n, c
    <3>5. \A k \in 1 .. n + 1 : k \in 1 .. n \/ k = n + 1
      BY <3>4
    <3>6. {c[k] : k \in 1 .. n} = {s[i] : i \in Q(m)} /\ n = Cardinality(Q(m))
      BY <2>2 DEF Picked, c, n
    <3>7. {d[k] : k \in 1 .. n + 1} = {c[k] : k \in 1 .. n} \cup {s[m + 1]}
      <4>1. n + 1 \in 1 .. n + 1 /\ \A k \in 1 .. n : k \in 1 .. n + 1
        BY <3>4
      <4> QED  BY <3>4, <3>5, <4>1
    <3>8. {d[k] : k \in 1 .. n + 1} = {s[i] : i \in Q(m + 1)}
      <4> HIDE DEF Q
      <4> QED  BY <3>2, <3>6, <3>7
    <3>9. Picked(s, places, m + 1, d)
      BY <3>3, <3>4, <3>6, <3>8 DEF Picked
    <3> QED  BY <2>1, <3>1, <3>3, <3>4, <3>9
  <2>5. CASE m + 1 \notin places
    <3>1. a[m + 1] = a[m]
      BY <2>3, <2>5
    <3>2. Q(m + 1) = Q(m)
      <4>1. \A k : k \in 1 .. m + 1 <=> k \in 1 .. m \/ k = m + 1
        BY <2>1
      <4> QED  BY <2>5, <4>1
    <3>3. Picked(s, places, m + 1, a[m])
      BY <2>2, <3>2 DEF Picked
    <3> QED  BY <2>1, <2>2, <3>1, <3>2, <3>3
  <2> QED  BY <2>4, <2>5
<1> HIDE DEF S
<1>7. N \in Nat /\ N \in 0 .. N
  BY <1>1
<1>8. \A n \in 0 .. N : n \in S /\ n # N => n + 1 \in S
  BY <1>6
<1>9. N \in S
  BY ONLY <1>5, <1>7, <1>8, Climb
<1>10. a[N] \in Seq(T) /\ IsFiniteSet(Q(N)) /\ Picked(s, places, N, a[N])
  BY <1>9 DEF S
<1>11. Q(N) = places
  BY DEF N
<1> QED  BY <1>3, <1>10, <1>11 DEF Picked

(* The first word of a text, and a text that is not empty.                 *)
LEMMA FirstIs ==
  ASSUME NEW T, NEW t \in Seq(T), t # <<>>
  PROVE  SubSeq(t, 1, 1) = <<t[1]>>
<1>1. 1 \in 1 .. Len(t) /\ t[1] \in T
  OBVIOUS
<1>2. SubSeq(t, 1, 1) \in Seq(T) /\ Len(SubSeq(t, 1, 1)) = 1 /\ SubSeq(t, 1, 1)[1] = t[1]
  BY <1>1
<1>3. <<t[1]>> \in Seq(T) /\ Len(<<t[1]>>) = 1 /\ <<t[1]>>[1] = t[1]
  BY <1>1
<1>4. \A i \in 1 .. 1 : i = 1
  OBVIOUS
<1> QED  BY <1>2, <1>3, <1>4, SeqEqual

(* What stands between two places of a text is one of its parts.           *)
LEMMA PartIs ==
  ASSUME NEW t, NEW i \in DOMAIN t, NEW j \in DOMAIN t, SubSeq(t, i, j) # <<>>
  PROVE  SubSeq(t, i, j) \in Parts(t)
<1> DEFINE F(k, l) == SubSeq(t, k, l)
<1>1. F(i, j) \in {F(k, l) : k, l \in DOMAIN t}
  <2> HIDE DEF F
  <2> QED  OBVIOUS
<1>2. F(i, j) # <<>>
  OBVIOUS
<1>3. Parts(t) = {F(k, l) : k, l \in DOMAIN t} \ {<<>>}
  BY DEF Parts
<1>4. F(i, j) \in Parts(t)
  <2> HIDE DEF F
  <2> QED  BY <1>1, <1>2, <1>3
<1> QED  BY <1>4

(* A text with a length has words.                                         *)
LEMMA Lasting ==
  ASSUME NEW T, NEW t \in Seq(T), Len(t) # 0
  PROVE  t # <<>>
OBVIOUS

(* A phrasing without a placeholder says itself.                           *)
LEMMA WithIs ==
  ASSUME NEW T, NEW t \in Seq(T), t # <<>>, \A i \in DOMAIN t : t[i] # Blank, NEW f
  PROVE  With(t, f) = t
<1> DEFINE N == Len(t)
           x == [i \in 1 .. N |-> <<t[i]>>]
           Flat(g) == g = [i \in 1 .. N |-> IF i = 1 THEN x[i] ELSE g[i - 1] \o x[i]]
           g == CHOOSE g : Flat(g)
           h == [i \in 1 .. N |-> SubSeq(t, 1, i)]
           S == {m \in 0 .. N : m = 0 \/ g[m] = SubSeq(t, 1, m)}
<1>1. N \in Nat /\ N # 0 /\ DOMAIN t = 1 .. N /\ \A i \in 1 .. N : t[i] \in T
  OBVIOUS
<1>2. \A i \in 1 .. N : h[i] = IF i = 1 THEN x[i] ELSE h[i - 1] \o x[i]
  <2> TAKE i \in 1 .. N
  <2>1. h[i] = SubSeq(t, 1, i) /\ x[i] = <<t[i]>>
    OBVIOUS
  <2>2. CASE i = 1
    <3>1. SubSeq(t, 1, 1) = <<t[1]>>
      BY FirstIs
    <3> QED  BY <2>1, <2>2, <3>1
  <2>3. CASE i # 1
    <3>1. i - 1 \in 1 .. N
      BY <2>3
    <3>2. h[i - 1] = SubSeq(t, 1, i - 1)
      BY <3>1
    <3>3. SubSeq(t, 1, i) = SubSeq(t, 1, i - 1) \o <<t[i]>>
      BY <1>1, SubSeqRecursiveSecond
    <3> HIDE DEF h, x
    <3> QED  BY <2>1, <2>3, <3>2, <3>3
  <2> QED  BY <2>2, <2>3
<1>3. Flat(h)
  <2> DEFINE y == [i \in 1 .. N |-> IF i = 1 THEN x[i] ELSE h[i - 1] \o x[i]]
  <2>1. \A i \in 1 .. N : h[i] = y[i]
    BY <1>2
  <2>2. h = [i \in 1 .. N |-> h[i]] /\ y = [i \in 1 .. N |-> y[i]]
    OBVIOUS
  <2> HIDE DEF h, y
  <2>3. h = y
    BY <2>1, <2>2
  <2> QED  BY <2>3 DEF y
<1> HIDE DEF h
<1>4. Flat(g)
  <2> HIDE DEF Flat
  <2> QED  BY <1>3
<1>5. With(t, f) = g[N]
  <2>1. [i \in DOMAIN t |-> IF t[i] = Blank THEN f ELSE <<t[i]>>] = x
    BY <1>1
  <2>2. Len(x) = N
    BY <1>1
  <2> HIDE DEF x
  <2>3. FlattenSeq(x) = g[N]
    BY <1>1, <2>2 DEF FlattenSeq
  <2> QED  BY <2>1, <2>3 DEF With
<1> HIDE DEF g
<1>6. \A i \in 1 .. N : g[i] = IF i = 1 THEN x[i] ELSE g[i - 1] \o x[i]
  <2> HIDE DEF x
  <2> QED  BY <1>4
<1> HIDE DEF Flat
<1>7. 0 \in S
  BY <1>1
<1>8. ASSUME NEW m \in 0 .. N, m \in S, m # N
      PROVE  m + 1 \in S
  <2>5. m \in 0 .. N /\ m # N
    BY <1>8
  <2>1. m + 1 \in 1 .. N /\ m + 1 \in 0 .. N /\ m + 1 - 1 = m
    <3>1. N \in Nat
      BY <1>1
    <3> HIDE DEF N
    <3> QED  BY ONLY <2>5, <3>1
  <2>4. x[m + 1] = <<t[m + 1]>>
    BY <2>1
  <2> HIDE DEF x, N
  <2>2. CASE m = 0
    <3>1. g[1] = <<t[1]>>
      BY <1>6, <2>1, <2>2, <2>4
    <3>2. SubSeq(t, 1, 1) = <<t[1]>>
      BY FirstIs
    <3> QED  BY <2>1, <2>2, <3>1, <3>2
  <2>3. CASE m # 0
    <3>1. g[m] = SubSeq(t, 1, m) /\ m + 1 # 1
      BY <1>8, <2>3
    <3>2. g[m + 1] = g[m] \o <<t[m + 1]>>
      <4>1. g[m + 1] = IF m + 1 = 1 THEN x[m + 1] ELSE g[m + 1 - 1] \o x[m + 1]
        BY <1>6, <2>1
      <4> QED  BY <2>1, <2>4, <3>1, <4>1
    <3>3. SubSeq(t, 1, m + 1) = SubSeq(t, 1, m) \o <<t[m + 1]>>
      BY <1>1, <2>1, SubSeqRecursiveSecond DEF N
    <3> QED  BY <2>1, <3>1, <3>2, <3>3
  <2> QED  BY <2>2, <2>3
<1> HIDE DEF S, N
<1>9. N \in Nat /\ N \in 0 .. N
  BY <1>1
<1>10. \A n \in 0 .. N : n \in S /\ n # N => n + 1 \in S
  BY <1>8
<1>11. N \in S
  BY ONLY <1>7, <1>9, <1>10, Climb
<1>12. g[N] = SubSeq(t, 1, N)
  BY <1>1, <1>11 DEF S
<1>13. SubSeq(t, 1, N) = t
  BY SubSeqFull DEF N
<1> QED  BY <1>5, <1>12, <1>13

-----------------------------------------------------------------------------
(* Texts: a form at the end, and a word between two texts.                 *)
LEMMA EndIs ==
  ASSUME NEW T, NEW a \in Seq(T), a # <<>>, NEW w \in T
  PROVE  LET t == a \o <<w>>
         IN t \in Seq(T) /\ t # <<>> /\ Len(t) > 1 /\ Last(t) = w /\ Front(t) = a /\ Len(t) - 1 = Len(a)
            /\ \A i \in 1 .. Len(a) : t[i] = a[i]
<1> DEFINE t == a \o <<w>>
           N == Len(a)
<1>1. N \in Nat /\ N # 0 /\ \A i \in 1 .. N : a[i] \in T
  OBVIOUS
<1>2. t \in Seq(T) /\ Len(t) = N + 1 /\ t[N + 1] = w /\ \A i \in 1 .. N : t[i] = a[i]
  OBVIOUS
<1>3. SubSeq(t, 1, N) = a
  <2>1. SubSeq(t, 1, N) = [i \in 1 .. N |-> t[i]]
    BY <1>1, <1>2
  <2>2. a = [i \in 1 .. N |-> a[i]]
    OBVIOUS
  <2> HIDE DEF t, N
  <2> QED  BY <1>2, <2>1, <2>2
<1> HIDE DEF t
<1>4. Len(t) - 1 = N /\ Len(t) > 1 /\ t # <<>>
  BY <1>1, <1>2
<1> QED  BY <1>2, <1>3, <1>4 DEF Last, Front, t

(* A text of several words is one of its parts and its last word.          *)
LEMMA EndSplits ==
  ASSUME NEW T, NEW t \in Seq(T), Len(t) > 1
  PROVE  /\ Front(t) \in Parts(t) /\ Front(t) \in Seq(T) /\ Front(t) # <<>> /\ Last(t) \in T
         /\ Front(t) \o <<Last(t)>> = t
<1> DEFINE N == Len(t)
           a == SubSeq(t, 1, N - 1)
<1>1. N \in Nat /\ N - 1 \in 1 .. N /\ 1 \in 1 .. N /\ DOMAIN t = 1 .. N /\ N \in 1 .. N
  OBVIOUS
<1>2. a \in Seq(T) /\ Len(a) = N - 1 /\ t[N] \in T
  BY <1>1
<1>3. a # <<>>
  <2>1. Len(a) # 0
    BY <1>1, <1>2
  <2> HIDE DEF a
  <2> QED  BY <1>2, <2>1, Lasting
<1>4. a \in Parts(t)
  <2>1. 1 \in DOMAIN t /\ N - 1 \in DOMAIN t
    BY <1>1
  <2> HIDE DEF N
  <2> QED  BY <1>3, <2>1, PartIs
<1>5. a \o <<t[N]>> = t
  <2>1. SubSeq(t, 1, N) = SubSeq(t, 1, N - 1) \o <<t[N]>>
    BY <1>1, SubSeqRecursiveSecond
  <2>2. SubSeq(t, 1, N) = t
    BY SubSeqFull
  <2> QED  BY <2>1, <2>2
<1> QED  BY <1>2, <1>3, <1>4, <1>5 DEF Front, Last

(* A text is a part of itself.                                             *)
LEMMA WholeIsPart ==
  ASSUME NEW T, NEW t \in Seq(T), t # <<>>
  PROVE  t \in Parts(t)
<1>1. 1 \in DOMAIN t /\ Len(t) \in DOMAIN t
  OBVIOUS
<1>2. SubSeq(t, 1, Len(t)) = t
  BY SubSeqFull
<1> QED  BY <1>1, <1>2 DEF Parts

(* Parts are texts.                                                        *)
LEMMA PartsAre ==
  ASSUME NEW T, NEW t \in Seq(T), NEW a \in Parts(t)
  PROVE  a \in Seq(T) /\ a # <<>>
<1>1. PICK i \in DOMAIN t, j \in DOMAIN t : a = SubSeq(t, i, j)
  BY DEF Parts
<1>2. i \in 1 .. Len(t) /\ j \in 1 .. Len(t) /\ \A k \in 1 .. Len(t) : t[k] \in T
  OBVIOUS
<1>3. \A k \in i .. j : t[k] \in T
  BY <1>2
<1>4. SubSeq(t, i, j) \in Seq(T)
  BY <1>2, <1>3, SubSeqProperties
<1> QED  BY <1>1, <1>4 DEF Parts

(* The first place of a word between two texts.                            *)
FirstCut(t, w, i) == i \in Cuts(t, w) /\ \A j \in Cuts(t, w) : i <= j

(* The first cut is where a text is split.                                 *)
LEMMA FirstCutIs ==
  ASSUME NEW t, NEW w, NEW i, FirstCut(t, w, i), Len(t) \in Nat
  PROVE  SplitAt(t, w) = <<SubSeq(t, 1, i - 1), SubSeq(t, i + 1, Len(t))>>
<1> DEFINE k == CHOOSE k \in Cuts(t, w) : \A j \in Cuts(t, w) : k <= j
<1>1. i \in Cuts(t, w) /\ \A j \in Cuts(t, w) : i <= j
  BY DEF FirstCut
<1>2. k \in Cuts(t, w) /\ \A j \in Cuts(t, w) : k <= j
  BY <1>1
<1> HIDE DEF k
<1>3. i \in Nat /\ k \in Nat /\ i <= k /\ k <= i
  BY <1>1, <1>2 DEF Cuts
<1>4. k = i
  BY <1>3
<1>5. SplitAt(t, w) = <<SubSeq(t, 1, k - 1), SubSeq(t, k + 1, Len(t))>>
  BY DEF SplitAt, k
<1> QED  BY <1>4, <1>5

(* A text that can be cut is a part, the word, and a part.                 *)
LEMMA CutSplits ==
  ASSUME NEW T, NEW t \in Seq(T), NEW w, Cuts(t, w) # {}
  PROVE  \E a, b \in Parts(t) : SplitAt(t, w) = <<a, b>> /\ (a \o <<w>>) \o b = t /\ w \in T
<1> DEFINE C == Cuts(t, w)
           N == Len(t)
           R == OpToRel(<, Nat)
<1>1. C \subseteq Nat /\ N \in Nat /\ DOMAIN t = 1 .. N
  BY DEF Cuts
<1>2. PICK i \in C : \A n \in C : <<n, i>> \notin R
  BY <1>1, NatLessThanWellFounded, WFMin
<1>3. \A n \in C : i <= n
  <2> TAKE n \in C
  <2>1. ~(n < i)
    BY <1>1, <1>2 DEF OpToRel
  <2>2. n \in Nat /\ i \in Nat
    BY <1>1, <1>2
  <2> QED  BY <2>1, <2>2
<1>4. FirstCut(t, w, i)
  BY <1>2, <1>3 DEF FirstCut
<1> DEFINE a == SubSeq(t, 1, i - 1)
           b == SubSeq(t, i + 1, N)
<1>5. SplitAt(t, w) = <<a, b>>
  BY <1>1, <1>4, FirstCutIs
<1>6. i \in 2 .. N - 1 /\ t[i] = w
  BY <1>2 DEF Cuts
<1>7. /\ i \in 1 .. N /\ i - 1 \in 1 .. N /\ i + 1 \in 1 .. N /\ 1 \in 1 .. N /\ N \in 1 .. N /\ t[i] \in T
      /\ \A k \in 1 .. N : t[k] \in T
  BY <1>1, <1>6
<1>8. a \in Seq(T) /\ Len(a) = i - 1 /\ b \in Seq(T) /\ Len(b) = N - i
  BY <1>6, <1>7
<1>9. a # <<>> /\ b # <<>>
  <2>1. Len(a) # 0 /\ Len(b) # 0
    <3> HIDE DEF a, b, N
    <3> QED  BY <1>1, <1>6, <1>8
  <2> HIDE DEF a, b
  <2> QED  BY <1>8, <2>1, Lasting
<1>10. a \in Parts(t) /\ b \in Parts(t)
  <2>1. 1 \in DOMAIN t /\ i - 1 \in DOMAIN t /\ i + 1 \in DOMAIN t /\ N \in DOMAIN t
    BY <1>1, <1>7
  <2> HIDE DEF N
  <2> QED  BY <1>9, <2>1, PartIs
<1>11. a \o <<w>> = SubSeq(t, 1, i)
  BY <1>6, <1>7, SubSeqRecursiveSecond
<1>12. SubSeq(t, 1, i) \o b = t
  <2>1. 1 \in 1 .. Len(t) + 1 /\ i \in 1 - 1 .. Len(t) /\ N \in i .. Len(t)
    BY <1>1, <1>6
  <2>2. SubSeq(t, 1, i) \o SubSeq(t, i + 1, N) = SubSeq(t, 1, N)
    BY <2>1, ConcatAdjacentSubSeq
  <2> QED  BY <2>2, SubSeqFull
<1> QED  BY <1>5, <1>6, <1>7, <1>10, <1>11, <1>12

(* Two texts with a word between them that the first lacks are split       *)
(* there.                                                                  *)
LEMMA CutIs ==
  ASSUME NEW T, NEW a \in Seq(T), NEW b \in Seq(T), a # <<>>, b # <<>>, NEW w \in T,
         \A i \in DOMAIN a : a[i] # w
  PROVE  LET t == (a \o <<w>>) \o b
         IN t \in Seq(T) /\ Cuts(t, w) # {} /\ SplitAt(t, w) = <<a, b>>
            /\ Len(t) > 1 /\ Last(t) = Last(b)
<1> DEFINE t == (a \o <<w>>) \o b
           m == Len(a)
           n == Len(b)
<1>1. m \in Nat /\ n \in Nat /\ m # 0 /\ n # 0 /\ DOMAIN a = 1 .. m
  OBVIOUS
<1>2. t \in Seq(T) /\ Len(t) = m + 1 + n
  OBVIOUS
<1>3. /\ \A i \in 1 .. m : t[i] = a[i]
      /\ t[m + 1] = w
      /\ \A i \in 1 .. n : t[m + 1 + i] = b[i]
  OBVIOUS
<1> HIDE DEF t
<1>4. FirstCut(t, w, m + 1)
  <2>1. m + 1 \in Cuts(t, w)
    BY <1>1, <1>2, <1>3 DEF Cuts
  <2>2. \A j \in Cuts(t, w) : m + 1 <= j
    <3> SUFFICES ASSUME NEW j \in Cuts(t, w), ~(m + 1 <= j)  PROVE FALSE
      OBVIOUS
    <3>1. j \in 1 .. m /\ t[j] = w
      BY <1>1, <1>2 DEF Cuts
    <3> QED  BY <1>1, <1>3, <3>1
  <2> QED  BY <2>1, <2>2 DEF FirstCut
<1>5. SplitAt(t, w) = <<SubSeq(t, 1, m), SubSeq(t, m + 2, m + 1 + n)>>
  <2>1. SplitAt(t, w) = <<SubSeq(t, 1, (m + 1) - 1), SubSeq(t, (m + 1) + 1, Len(t))>>
    BY <1>1, <1>2, <1>4, FirstCutIs
  <2>2. (m + 1) - 1 = m /\ (m + 1) + 1 = m + 2
    BY <1>1
  <2> QED  BY <1>2, <2>1, <2>2
<1>6. SubSeq(t, 1, m) = a
  <2> DEFINE x == SubSeq(t, 1, m)
  <2>1. x \in Seq(T) /\ Len(x) = m /\ \A i \in 1 .. m : x[i] = t[i]
    BY <1>1, <1>2
  <2> HIDE DEF x
  <2>2. x = a
    BY <1>3, <2>1, SeqEqual
  <2> QED  BY <2>2 DEF x
<1>7. SubSeq(t, m + 2, m + 1 + n) = b
  <2> DEFINE x == SubSeq(t, m + 2, m + 1 + n)
  <2>1. /\ m + 2 \in 1 .. Len(t) /\ m + 1 + n \in 1 .. Len(t) /\ m + 2 <= m + 1 + n
        /\ (m + 1 + n) - (m + 2) + 1 = n
        /\ \A i \in m + 2 .. m + 1 + n : i \in 1 .. Len(t)
    BY <1>1, <1>2
  <2>2. \A i \in m + 2 .. m + 1 + n : t[i] \in T
    BY <1>2, <2>1
  <2>3. x \in Seq(T) /\ Len(x) = n /\ \A i \in 1 .. n : x[i] = t[m + 2 + i - 1]
    BY <2>1, <2>2, SubSeqProperties
  <2> HIDE DEF x
  <2>4. \A i \in 1 .. n : m + 2 + i - 1 = m + 1 + i
    BY <1>1
  <2>5. \A i \in 1 .. n : x[i] = b[i]
    BY <1>3, <2>3, <2>4
  <2>6. x = b
    BY <2>3, <2>5, SeqEqual
  <2> QED  BY <2>6 DEF x
<1>8. Len(t) > 1 /\ t[Len(t)] = b[n]
  BY <1>1, <1>2, <1>3
<1>9. Cuts(t, w) # {}
  BY <1>4 DEF FirstCut
<1> QED  BY <1>2, <1>5, <1>6, <1>7, <1>8, <1>9 DEF Last, t

(* A text without a word is not cut there, with a form at its end or not.  *)
LEMMA Uncut ==
  ASSUME NEW T, NEW a \in Seq(T), NEW w, \A i \in DOMAIN a : a[i] # w
  PROVE  Cuts(a, w) = {} /\ \A v \in T : a # <<>> => Cuts(a \o <<v>>, w) = {}
<1>1. Len(a) \in Nat /\ DOMAIN a = 1 .. Len(a)
  OBVIOUS
<1>2. Cuts(a, w) = {}
  BY <1>1 DEF Cuts
<1>3. ASSUME NEW v \in T, a # <<>>  PROVE Cuts(a \o <<v>>, w) = {}
  <2> DEFINE t == a \o <<v>>
  <2>1. Len(t) - 1 = Len(a) /\ \A i \in 1 .. Len(a) : t[i] = a[i]
    BY <1>3, EndIs
  <2> HIDE DEF t
  <2>2. \A i \in 2 .. Len(t) - 1 : i \in 1 .. Len(a)
    BY <1>1, <2>1
  <2>3. Cuts(t, w) = {}
    BY <1>1, <2>1, <2>2 DEF Cuts
  <2> QED  BY <2>3 DEF t
<1> QED  BY <1>2, <1>3

-----------------------------------------------------------------------------
(* All phrasings are texts over some words.                                *)
PhrasingsAreOf(Word) ==
  /\ FormWords \subseteq Word
  /\ \A s \in Statements : s.arg.phrasing \in Seq(Word)
  /\ \A a, b, c, d, e :
       None # [step |-> a, func |-> b, signature |-> c, phrasing |-> d, filler |-> e]

(* A text that stands for one predicate, and that predicate.               *)
Clear(reg, t) == Cardinality(Resolve(reg, t)) = 1
Meant(reg, t) == CHOOSE r \in Resolve(reg, t) : TRUE
Free(t) == \A i \in DOMAIN t : t[i] \notin FormWords

(* The predicate a clear text stands for is said by that text.             *)
Reads(reg, Word) ==
  \A t \in Seq(Word) \ {<<>>} : Clear(reg, t) =>
    /\ Resolve(reg, t) = {Meant(reg, t)} /\ Said(Meant(reg, t)) = t /\ Meant(reg, t) # None
    /\ Plain(reg) => Free(t)

(* Phrasings are texts.                                                    *)
LEMMA PhrasingsAre ==
  ASSUME CommandsAreOf, NEW Word, PhrasingsAreOf(Word), NEW reg, Sound(reg), NEW e \in ToSet(reg.entries)
  PROVE  \E n \in Nat : DOMAIN Phrasings(reg, e) = 1 .. n /\ \A i \in 1 .. n : Phrasings(reg, e)[i] \in Seq(Word)
<1> DEFINE A == Passed("alias")
           I == {i \in DOMAIN reg.aliases : reg.aliases[i].id = e.id}
           mine == Chosen(reg.aliases, I)
           said == [i \in DOMAIN mine |-> mine[i].phrasing]
           n == Len(mine)
<1>1. reg.aliases \in Seq(A) /\ reg.entries \in Seq(Entries)
  BY DEF Sound, Registry
<1>2. I \subseteq 1 .. Len(reg.aliases)
  BY <1>1
<1> HIDE DEF I
<1>3. mine \in Seq(A)
  BY <1>1, <1>2, ChosenIs
<1>4. \A a \in A : a.phrasing \in Seq(Word)
  BY DEF Passed, PhrasingsAreOf
<1>5. Phrasings(reg, e) = <<e.phrasing>> \o said
  BY DEF Phrasings, I
<1> HIDE DEF mine
<1>6. said \in Seq(Seq(Word)) /\ n \in Nat /\ Len(said) = n
  <2>1. DOMAIN mine = 1 .. n /\ \A i \in 1 .. n : mine[i] \in A
    BY <1>3
  <2>2. n \in Nat
    BY <1>3
  <2>3. said \in [1 .. n -> Seq(Word)]
    BY <1>4, <2>1
  <2> HIDE DEF said, n
  <2> QED  BY <2>2, <2>3
<1> HIDE DEF said, n
<1>7. e.phrasing \in Seq(Word)
  <2>1. e \in Entries
    BY <1>1 DEF ToSet
  <2>2. PICK a \in Passed("register"), b \in BOOLEAN : e = [a EXCEPT !.observed = b]
    BY <2>1 DEF Entries
  <2>3. a \in Offered
    BY <2>2 DEF Offered
  <2>4. e.phrasing = a.phrasing
    BY <2>2, <2>3, Marked
  <2>5. a.phrasing \in Seq(Word)
    BY <2>2 DEF Passed, PhrasingsAreOf
  <2> QED  BY <2>4, <2>5
<1> DEFINE all == <<e.phrasing>> \o said
<1>8. all \in Seq(Seq(Word))
  BY <1>6, <1>7
<1> HIDE DEF all
<1>9. DOMAIN all = 1 .. Len(all) /\ Len(all) \in Nat /\ \A i \in 1 .. Len(all) : all[i] \in Seq(Word)
  BY <1>8
<1> QED  BY <1>5, <1>9 DEF all

(* What a resolution says, by the phrasing of which entry.                 *)
LEMMA ResolutionIs ==
  ASSUME CommandsAreOf, NEW Word, PhrasingsAreOf(Word), NEW reg, Sound(reg), NEW t \in Seq(Word), t # <<>>,
         NEW r \in Resolve(reg, t)
  PROVE  /\ Said(r) = t /\ r # None
         /\ \E e \in ToSet(reg.entries) : \E ph \in ToSet(Phrasings(reg, e)) :
              Blank \notin ToSet(ph) => ph = t
<1> DEFINE Fit(e) == {i \in DOMAIN Phrasings(reg, e) : Fillers(Phrasings(reg, e)[i], t) # {}}
           First(e) == CHOOSE i \in Fit(e) : \A j \in Fit(e) : i <= j
           Res(e) == Resolution(e, Phrasings(reg, e)[First(e)], t)
<1>1. PICK e \in ToSet(reg.entries) : Fit(e) # {} /\ r = Res(e)
  BY DEF Resolve
<1> DEFINE all == Phrasings(reg, e)
           k == First(e)
<1>2. PICK n \in Nat : DOMAIN all = 1 .. n /\ \A i \in 1 .. n : all[i] \in Seq(Word)
  BY PhrasingsAre
<1>3. k \in Fit(e)
  <2> DEFINE R == OpToRel(<, Nat)
             M == Fit(e)
  <2>1. M \subseteq Nat /\ M # {}
    <3>1. M \subseteq DOMAIN all
      OBVIOUS
    <3>2. DOMAIN all \subseteq Nat
      <4> HIDE DEF all
      <4> QED  BY <1>2
    <3>3. M # {}
      BY <1>1
    <3> QED  BY ONLY <3>1, <3>2, <3>3
  <2> HIDE DEF M
  <2>2. PICK i \in M : \A j \in M : <<j, i>> \notin R
    BY <2>1, NatLessThanWellFounded, WFMin
  <2>3. \A j \in M : i <= j
    <3> TAKE j \in M
    <3>1. ~(j < i) /\ j \in Nat /\ i \in Nat
      BY <2>1, <2>2 DEF OpToRel
    <3> QED  BY <3>1
  <2>4. (CHOOSE x \in M : \A j \in M : x <= j) \in M
    BY <2>2, <2>3
  <2> QED  BY <2>4 DEF M
<1> DEFINE ph == all[k]
           F == Fillers(ph, t)
           f == CHOOSE f \in F : TRUE
<1>4. k \in 1 .. n /\ F # {} /\ ph \in Seq(Word)
  BY <1>2, <1>3
<1>5. f \in F
  BY <1>4
<1>6. r = [step |-> e.id, func |-> e.func, signature |-> e.signature, phrasing |-> ph, filler |-> f]
  BY <1>1 DEF Resolution
<1>7. r # None
  BY <1>6 DEF PhrasingsAreOf
<1>8. ph \in ToSet(Phrasings(reg, e))
  BY <1>2, <1>4 DEF ToSet
<1> HIDE DEF f, ph, k, all, First, Fit
<1>9. Said(r) = With(ph, f)
  BY <1>6 DEF Said
<1>10. CASE Blank \in ToSet(ph)
  <2>1. With(ph, f) = t
    BY <1>5, <1>10 DEF Fillers
  <2> QED  BY <1>7, <1>8, <1>9, <1>10, <2>1
<1>11. CASE Blank \notin ToSet(ph)
  <2>1. ph = t
    BY <1>5, <1>11 DEF Fillers
  <2>2. \A i \in DOMAIN t : t[i] # Blank
    BY <1>11, <2>1 DEF ToSet
  <2>3. With(t, f) = t
    BY <2>2, WithIs
  <2> QED  BY <1>7, <1>8, <1>9, <2>1, <2>3
<1> QED  BY <1>10, <1>11

(* There are finitely many.                                                *)
LEMMA ResolveIsFinite ==
  ASSUME NEW reg, Sound(reg), NEW t
  PROVE  IsFiniteSet(Resolve(reg, t))
<1> DEFINE all(e) == Phrasings(reg, e)
           matching(e) == {i \in DOMAIN all(e) : Fillers(all(e)[i], t) # {}}
           Res(e) == Resolution(e, all(e)[CHOOSE i \in matching(e) : \A j \in matching(e) : i <= j], t)
           D == {i \in DOMAIN reg.entries : matching(reg.entries[i]) # {}}
<1>1. reg.entries \in Seq(Entries)
  BY DEF Sound, Registry
<1>2. DOMAIN reg.entries = 1 .. Len(reg.entries) /\ Len(reg.entries) \in Nat
  BY <1>1
<1>3. IsFiniteSet(1 .. Len(reg.entries))
  BY <1>2, FS_Interval
<1>4. IsFiniteSet(D)
  <2>1. D \subseteq 1 .. Len(reg.entries)
    BY <1>2
  <2> HIDE DEF D
  <2> QED  BY <1>3, <2>1, FS_Subset
<1>5. IsFiniteSet({Res(reg.entries[i]) : i \in D})
  <2> DEFINE f == [i \in D |-> Res(reg.entries[i])]
  <2> HIDE DEF D, Res
  <2>1. IsFiniteSet({f[i] : i \in D})
    <3> DEFINE R == {f[i] : i \in D}
    <3>1. f \in Surjection(D, R)
      BY DEF Surjection
    <3> HIDE DEF f, R
    <3>2. IsFiniteSet(R)
      BY <1>4, <3>1, FS_Surjection
    <3> QED  BY <3>2 DEF R
  <2>2. {f[i] : i \in D} = {Res(reg.entries[i]) : i \in D}
    OBVIOUS
  <2> QED  BY <2>1, <2>2
<1>6. Resolve(reg, t) = UNION {IF matching(e) = {} THEN {} ELSE {Res(e)} : e \in ToSet(reg.entries)}
  BY DEF Resolve
<1>7. Resolve(reg, t) = {Res(reg.entries[i]) : i \in D}
  <2>1. \A e : e \in ToSet(reg.entries) <=> \E i \in DOMAIN reg.entries : e = reg.entries[i]
    BY DEF ToSet
  <2> HIDE DEF matching, Res
  <2> QED  BY <1>6, <2>1
<1> QED  BY <1>5, <1>7

(* So it is for every registry that statements can make.                   *)
LEMMA ReadsIs ==
  ASSUME CommandsAreOf, NEW Word, PhrasingsAreOf(Word), NEW reg, Sound(reg)
  PROVE  Reads(reg, Word)
<1> SUFFICES ASSUME NEW t \in Seq(Word) \ {<<>>}, Clear(reg, t)
             PROVE  /\ Resolve(reg, t) = {Meant(reg, t)} /\ Said(Meant(reg, t)) = t /\ Meant(reg, t) # None
                    /\ Plain(reg) => Free(t)
  BY DEF Reads
<1>1. PICK r : Resolve(reg, t) = {r}
  BY ResolveIsFinite, FS_Singleton DEF Clear
<1>2. Meant(reg, t) = r
  BY <1>1 DEF Meant
<1>3. /\ Said(r) = t /\ r # None
      /\ \E e \in ToSet(reg.entries) : \E ph \in ToSet(Phrasings(reg, e)) :
           Blank \notin ToSet(ph) => ph = t
  BY <1>1, ResolutionIs
<1>4. ASSUME Plain(reg)  PROVE Free(t)
  <2>1. PICK e \in ToSet(reg.entries) : \E ph \in ToSet(Phrasings(reg, e)) :
           Blank \notin ToSet(ph) => ph = t
    BY <1>3
  <2>2. PICK ph \in ToSet(Phrasings(reg, e)) : Blank \notin ToSet(ph) => ph = t
    BY <2>1
  <2>3. ToSet(ph) \cap (FormWords \cup {Blank}) = {}
    BY <1>4 DEF Plain
  <2>4. ph = t
    BY <2>2, <2>3
  <2> QED  BY <2>3, <2>4 DEF Free, ToSet
<1> QED  BY <1>1, <1>2, <1>3, <1>4

-----------------------------------------------------------------------------
(* A scenario over some words.                                             *)
Lines(Word) == [type : {"given", "when", "then"}, text : Seq(Word) \ {<<>>}]
IsScenario(scenario, Word) == scenario.steps \in Seq(Lines(Word))

(* The lines of a Given, a When and a Then, those that are there; and the  *)
(* layout of a scenario with these.                                        *)
There(g, w, h) == {x \in {Line("given", g), Line("when", w), Line("then", h)} : x.text # <<>>}
Number(text) == IF text = <<>> THEN 0 ELSE 1
Layout(scenario, g, w, h) ==
  /\ Len(scenario.steps) = Number(g) + Number(w) + Number(h)
  /\ ToSet(scenario.steps) = There(g, w, h)
Only(scenario, type, text) ==
  IF text = <<>> THEN OfType(scenario, type) = <<>>
  ELSE Len(OfType(scenario, type)) = 1 /\ OfType(scenario, type)[1] = Line(type, text)
Shape3(scenario, g, w, h) ==
  Only(scenario, "given", g) /\ Only(scenario, "when", w) /\ Only(scenario, "then", h)

(* These lines are finitely many, one for each text that is there.         *)
LEMMA ThereAre ==
  ASSUME NEW g, NEW w, NEW h
  PROVE  IsFiniteSet(There(g, w, h)) /\ Cardinality(There(g, w, h)) = Number(g) + Number(w) + Number(h)
<1> DEFINE O(type, text) == IF text = <<>> THEN {} ELSE {Line(type, text)}
           A == O("given", g)
           B == O("when", w)
           C == O("then", h)
<1>1. There(g, w, h) = (A \cup B) \cup C
  BY DEF There, Line
<1>2. \A type, text : IsFiniteSet(O(type, text)) /\ Cardinality(O(type, text)) = Number(text)
  <2> TAKE type, text
  <2>1. CASE text = <<>>
    BY <2>1, FS_EmptySet DEF Number
  <2>2. CASE text # <<>>
    BY <2>2, FS_Singleton DEF Number
  <2> QED  BY <2>1, <2>2
<1>3. A \cap B = {} /\ (A \cup B) \cap C = {}
  BY DEF Line
<1> HIDE DEF O
<1>4. /\ IsFiniteSet(A) /\ Cardinality(A) = Number(g)
      /\ IsFiniteSet(B) /\ Cardinality(B) = Number(w)
      /\ IsFiniteSet(C) /\ Cardinality(C) = Number(h)
  BY <1>2
<1> HIDE DEF A, B, C
<1>5. \A x : Number(x) \in Nat
  BY DEF Number
<1>6. /\ IsFiniteSet(A \cup B)
      /\ Cardinality(A \cup B) = Cardinality(A) + Cardinality(B) - Cardinality(A \cap B)
  BY <1>4, FS_Union
<1>7. Cardinality({}) = 0
  BY FS_EmptySet
<1>8. Cardinality(A \cup B) = Number(g) + Number(w)
  <2>1. Cardinality(A \cap B) = 0
    BY <1>3, <1>7
  <2>2. Number(g) \in Nat /\ Number(w) \in Nat
    BY <1>5
  <2> QED  BY <1>4, <1>6, <2>1, <2>2
<1> DEFINE D == A \cup B
<1>9. IsFiniteSet(D \cup C) /\ Cardinality(D \cup C) = Cardinality(D) + Cardinality(C) - Cardinality(D \cap C)
  <2>1. IsFiniteSet(D)
    BY <1>6
  <2> HIDE DEF D
  <2> QED  BY <1>4, <2>1, FS_Union
<1>10. Cardinality(D \cup C) = Number(g) + Number(w) + Number(h)
  <2>1. Cardinality(D \cap C) = 0
    BY <1>3, <1>7
  <2>2. Number(g) \in Nat /\ Number(w) \in Nat /\ Number(h) \in Nat
    BY <1>5
  <2>3. Cardinality(D) = Number(g) + Number(w)
    BY <1>8
  <2> HIDE DEF D
  <2> QED  BY <1>4, <1>9, <2>1, <2>2, <2>3
<1> QED  BY <1>1, <1>9, <1>10

(* The lines of a type.                                                    *)
OfTypeIs(scenario, type, Word) ==
  /\ OfType(scenario, type) \in Seq(Lines(Word))
  /\ ToSet(OfType(scenario, type)) = {x \in ToSet(scenario.steps) : x.type = type}

(* The lines of the three types are all the lines.                         *)
LEMMA SplitIs ==
  ASSUME NEW Word, NEW sc, IsScenario(sc, Word)
  PROVE  /\ \A type : OfTypeIs(sc, type, Word)
         /\ Len(OfType(sc, "given")) + Len(OfType(sc, "when")) + Len(OfType(sc, "then")) = Len(sc.steps)
<1> DEFINE s == sc.steps
           L == Lines(Word)
           N == Len(s)
           I(type) == {i \in DOMAIN s : s[i].type = type}
<1>1. s \in Seq(L) /\ N \in Nat /\ DOMAIN s = 1 .. N /\ \A i \in 1 .. N : s[i] \in L
  BY DEF IsScenario
<1>2. \A type : OfType(sc, type) = Chosen(s, I(type))
  BY DEF OfType
<1> HIDE DEF L
<1>3. ASSUME NEW type
      PROVE  OfTypeIs(sc, type, Word) /\ IsFiniteSet(I(type)) /\ Len(OfType(sc, type)) = Cardinality(I(type))
  <2> DEFINE c == Chosen(s, I(type))
  <2>1. I(type) \subseteq 1 .. N
    BY <1>1
  <2>2. /\ c \in Seq(L) /\ IsFiniteSet(I(type)) /\ Len(c) = Cardinality(I(type))
        /\ {c[k] : k \in 1 .. Len(c)} = {s[i] : i \in I(type)}
    <3> HIDE DEF I, s
    <3> QED  BY <1>1, <2>1, ChosenIs DEF N
  <2> HIDE DEF c
  <2>3. ToSet(c) = {s[i] : i \in I(type)}
    <3>1. DOMAIN c = 1 .. Len(c)
      BY <2>2
    <3> QED  BY <2>2, <3>1 DEF ToSet
  <2>4. {s[i] : i \in I(type)} = {x \in ToSet(s) : x.type = type}
    BY DEF ToSet
  <2> QED  BY <1>2, <2>2, <2>3, <2>4 DEF OfTypeIs, L, c
<1> DEFINE A == I("given")
           B == I("when")
           C == I("then")
<1>4. A \cap B = {} /\ (A \cup B) \cap C = {} /\ (A \cup B) \cup C = 1 .. N
  <2>1. \A i \in 1 .. N : s[i].type \in {"given", "when", "then"}
    BY <1>1 DEF L, Lines
  <2> QED  BY <1>1, <2>1
<1>5. IsFiniteSet(A) /\ IsFiniteSet(B) /\ IsFiniteSet(C)
  BY <1>3
<1>6. /\ Len(OfType(sc, "given")) = Cardinality(A)
      /\ Len(OfType(sc, "when")) = Cardinality(B)
      /\ Len(OfType(sc, "then")) = Cardinality(C)
  BY <1>3
<1> HIDE DEF A, B, C, N
<1>7. Cardinality({}) = 0 /\ Cardinality(1 .. N) = N
  <2>1. Cardinality(1 .. N) = IF 1 > N THEN 0 ELSE N - 1 + 1
    BY <1>1, FS_Interval
  <2> QED  BY <1>1, <2>1, FS_EmptySet
<1>8. /\ IsFiniteSet(A \cup B)
      /\ Cardinality(A \cup B) = Cardinality(A) + Cardinality(B) - Cardinality(A \cap B)
  BY <1>5, FS_Union
<1> DEFINE D == A \cup B
<1>9. Cardinality(D \cup C) = Cardinality(D) + Cardinality(C) - Cardinality(D \cap C)
  <2>1. IsFiniteSet(D)
    BY <1>8
  <2> HIDE DEF D
  <2> QED  BY <1>5, <2>1, FS_Union
<1>10. Cardinality(A) \in Nat /\ Cardinality(B) \in Nat /\ Cardinality(C) \in Nat
  BY <1>5, FS_CardinalityType
<1>11. Cardinality(A) + Cardinality(B) + Cardinality(C) = N
  <2>1. Cardinality(A \cap B) = 0 /\ Cardinality(D \cap C) = 0 /\ Cardinality(D \cup C) = N
    BY <1>4, <1>7
  <2>2. Cardinality(D) = Cardinality(A) + Cardinality(B)
    BY <1>8, <1>10, <2>1
  <2> HIDE DEF D
  <2> QED  BY <1>9, <1>10, <2>1, <2>2
<1> QED  BY <1>3, <1>6, <1>11 DEF N

(* A scenario laid out so has just these lines.                            *)
LEMMA LaidOut ==
  ASSUME NEW Word, NEW sc, IsScenario(sc, Word),
         NEW g \in Seq(Word), NEW w \in Seq(Word), NEW h \in Seq(Word)
  PROVE  Layout(sc, g, w, h) <=> Shape3(sc, g, w, h)
<1> DEFINE G == OfType(sc, "given")
           W == OfType(sc, "when")
           T == OfType(sc, "then")
           Own(type, text) == IF text = <<>> THEN {} ELSE {Line(type, text)}
           steps == ToSet(sc.steps)
<1>1. /\ OfTypeIs(sc, "given", Word) /\ OfTypeIs(sc, "when", Word) /\ OfTypeIs(sc, "then", Word)
      /\ Len(G) + Len(W) + Len(T) = Len(sc.steps)
  BY SplitIs
<1>2. \A x \in steps : x.type \in {"given", "when", "then"}
  <2>1. \A x \in steps : x \in Lines(Word)
    BY DEF IsScenario, ToSet
  <2> QED  BY <2>1 DEF Lines
<1>3. There(g, w, h) = Own("given", g) \cup Own("when", w) \cup Own("then", h)
  BY DEF There, Line
<1>4. \A type, text : \A x \in Own(type, text) : x.type = type
  BY DEF Line
<1>5. steps = There(g, w, h) <=>
        /\ {x \in steps : x.type = "given"} = Own("given", g)
        /\ {x \in steps : x.type = "when"} = Own("when", w)
        /\ {x \in steps : x.type = "then"} = Own("then", h)
  <2> HIDE DEF Own, steps
  <2> QED  BY <1>2, <1>3, <1>4
<1>6. ASSUME NEW type, OfTypeIs(sc, type, Word), NEW text
      PROVE  /\ Len(OfType(sc, type)) \in Nat
             /\ {x \in steps : x.type = type} = Own(type, text) => Len(OfType(sc, type)) >= Number(text)
             /\ Only(sc, type, text) <=> /\ {x \in steps : x.type = type} = Own(type, text)
                                         /\ Len(OfType(sc, type)) = Number(text)
  <2> DEFINE c == OfType(sc, type)
             S == {x \in steps : x.type = type}
  <2>1. c \in Seq(Lines(Word)) /\ ToSet(c) = S
    BY <1>6 DEF OfTypeIs
  <2> HIDE DEF c, S
  <2>2. /\ Len(c) \in Nat /\ DOMAIN c = 1 .. Len(c) /\ (c = <<>> <=> Len(c) = 0)
        /\ ToSet(c) = {c[k] : k \in 1 .. Len(c)}
    BY <2>1 DEF ToSet
  <2>3. Len(c) = 1 => S = {c[1]}
    BY <2>1, <2>2
  <2>4. Len(c) = 0 <=> S = {}
    <3>1. Len(c) = 0 => S = {}
      BY <2>1, <2>2
    <3>2. Len(c) # 0 => 1 \in 1 .. Len(c)
      BY <2>2
    <3>3. Len(c) # 0 => c[1] \in S
      BY <2>1, <2>2, <3>2
    <3> QED  BY <3>1, <3>3
  <2>5. CASE text = <<>>
    BY <2>2, <2>4, <2>5 DEF Only, Number, c, S
  <2>6. CASE text # <<>>
    <3>1. Own(type, text) = {Line(type, text)} /\ Number(text) = 1
      BY <2>6 DEF Number
    <3>2. Only(sc, type, text) <=> Len(c) = 1 /\ c[1] = Line(type, text)
      BY <2>6 DEF Only, c
    <3>3. S = Own(type, text) => Len(c) >= 1
      BY <2>2, <2>4, <3>1
    <3>4. Len(c) = 1 => (c[1] = Line(type, text) <=> S = Own(type, text))
      BY <2>3, <3>1
    <3> QED  BY <2>2, <3>1, <3>2, <3>3, <3>4 DEF c, S
  <2> QED  BY <2>5, <2>6
<1>7. /\ Len(G) \in Nat /\ Len(W) \in Nat /\ Len(T) \in Nat
      /\ Number(g) \in Nat /\ Number(w) \in Nat /\ Number(h) \in Nat
  BY <1>1, <1>6 DEF Number
<1> HIDE DEF Own, steps, G, W, T
<1>8. ASSUME Layout(sc, g, w, h)  PROVE Shape3(sc, g, w, h)
  <2>1. /\ {x \in steps : x.type = "given"} = Own("given", g)
        /\ {x \in steps : x.type = "when"} = Own("when", w)
        /\ {x \in steps : x.type = "then"} = Own("then", h)
        /\ Len(sc.steps) = Number(g) + Number(w) + Number(h)
    BY <1>5, <1>8 DEF Layout, steps
  <2>2. Len(G) >= Number(g) /\ Len(W) >= Number(w) /\ Len(T) >= Number(h)
    BY <1>1, <1>6, <2>1 DEF G, W, T
  <2>3. Len(G) = Number(g) /\ Len(W) = Number(w) /\ Len(T) = Number(h)
    BY <1>1, <1>7, <2>1, <2>2
  <2> QED  BY <1>1, <1>6, <2>1, <2>3 DEF Shape3, G, W, T
<1>9. ASSUME Shape3(sc, g, w, h)  PROVE Layout(sc, g, w, h)
  <2>1. /\ {x \in steps : x.type = "given"} = Own("given", g) /\ Len(G) = Number(g)
        /\ {x \in steps : x.type = "when"} = Own("when", w) /\ Len(W) = Number(w)
        /\ {x \in steps : x.type = "then"} = Own("then", h) /\ Len(T) = Number(h)
    BY <1>1, <1>6, <1>9 DEF Shape3, G, W, T
  <2> QED  BY <1>1, <1>5, <2>1 DEF Layout, steps
<1> QED  BY <1>8, <1>9

(* A list of at most one line is one of these.                             *)
LEMMA OnlyIs ==
  ASSUME NEW Word, NEW sc, IsScenario(sc, Word), NEW type, Len(OfType(sc, type)) <= 1
  PROVE  \E text \in Seq(Word) : Only(sc, type, text) /\ (text = <<>> <=> OfType(sc, type) = <<>>)
<1> DEFINE c == OfType(sc, type)
<1>1. c \in Seq(Lines(Word)) /\ ToSet(c) = {x \in ToSet(sc.steps) : x.type = type}
  BY SplitIs DEF OfTypeIs
<1>2. CASE c = <<>>
  <2>1. <<>> \in Seq(Word)
    OBVIOUS
  <2> QED  BY <1>2, <2>1 DEF Only
<1>3. CASE c # <<>>
  <2> HIDE DEF c
  <2>1. Len(c) = 1 /\ 1 \in DOMAIN c
    <3>1. Len(c) \in Nat /\ DOMAIN c = 1 .. Len(c) /\ Len(c) # 0
      BY <1>1, <1>3
    <3>2. Len(c) <= 1
      BY DEF c
    <3> QED  BY <3>1, <3>2
  <2>2. c[1] \in Lines(Word) /\ c[1].type = type
    BY <1>1, <2>1 DEF ToSet
  <2>3. c[1] = Line(type, c[1].text) /\ c[1].text \in Seq(Word) /\ c[1].text # <<>>
    BY <2>2 DEF Lines, Line
  <2> QED  BY <1>3, <2>1, <2>3 DEF Only, c
<1> QED  BY <1>2, <1>3

-----------------------------------------------------------------------------
(* What texts resolve to, one by one: nothing unless each is clear.        *)
LEMMA EachIs ==
  ASSUME NEW reg
  PROVE  /\ ResolveEach(reg, <<>>) = {<<>>}
         /\ \A a : ResolveEach(reg, <<a>>) = IF Clear(reg, a) THEN {<<Meant(reg, a)>>} ELSE {}
         /\ \A a, b : ResolveEach(reg, <<a, b>>) =
              IF Clear(reg, a) /\ Clear(reg, b) THEN {<<Meant(reg, a), Meant(reg, b)>>} ELSE {}
<1> DEFINE M(x) == Meant(reg, x)
           K(x) == Clear(reg, x)
<1>1. \A texts : ResolveEach(reg, texts) =
        IF \E i \in DOMAIN texts : ~K(texts[i]) THEN {} ELSE {[i \in DOMAIN texts |-> M(texts[i])]}
  BY DEF ResolveEach, Clear, Meant
<1> HIDE DEF M, K
<1>2. ResolveEach(reg, <<>>) = {<<>>}
  <2>1. DOMAIN <<>> = {} /\ [i \in DOMAIN <<>> |-> M((<<>>)[i])] = <<>>
    OBVIOUS
  <2> QED  BY <1>1, <2>1
<1>3. ASSUME NEW a  PROVE ResolveEach(reg, <<a>>) = IF K(a) THEN {<<M(a)>>} ELSE {}
  <2> DEFINE x == <<a>>
             y == [i \in DOMAIN x |-> M(x[i])]
  <2>1. DOMAIN x = {1} /\ x[1] = a
    OBVIOUS
  <2>2. y = <<M(a)>>
    OBVIOUS
  <2> HIDE DEF x
  <2>3. ResolveEach(reg, x) = IF K(a) THEN {y} ELSE {}
    BY <1>1, <2>1
  <2> HIDE DEF y
  <2> QED  BY <2>2, <2>3 DEF x
<1>4. ASSUME NEW a, NEW b
      PROVE  ResolveEach(reg, <<a, b>>) = IF K(a) /\ K(b) THEN {<<M(a), M(b)>>} ELSE {}
  <2> DEFINE x == <<a, b>>
             y == [i \in DOMAIN x |-> M(x[i])]
  <2>1. DOMAIN x = {1, 2} /\ x[1] = a /\ x[2] = b
    OBVIOUS
  <2>2. y = <<M(a), M(b)>>
    OBVIOUS
  <2> HIDE DEF x
  <2>3. ResolveEach(reg, x) = IF K(a) /\ K(b) THEN {y} ELSE {}
    BY <1>1, <2>1
  <2> HIDE DEF y
  <2> QED  BY <2>2, <2>3 DEF x
<1> QED  BY <1>2, <1>3, <1>4 DEF M, K

(* What is read off the texts of a scenario, and the policy it becomes.    *)
Single(text) == IF text = <<>> THEN <<>> ELSE <<text>>
Used(t, r, s) == ToSet(t) \cup ToSet(r) \cup ToSet(s)
Fits(reg, g, w, h, o, t, r, s) ==
  /\ o \in Operator(h)
  /\ g # <<>> => o = "never happens"
  /\ o \in SelfContained <=> w = <<>>
  /\ o \in DOMAIN Window => Window[o] # Infinite
  /\ t \in ResolveEach(reg, Single(w))
  /\ r \in ResolveEach(reg, Operands(o, h))
  /\ s \in ResolveEach(reg, IF g = <<>> THEN <<>> ELSE ScopeTexts(g))
  /\ SingleKey(Used(t, r, s))
Becomes(scenario, h, o, t, r, s) ==
  [id |-> scenario.name, monitor |-> MonitorOf(o, t, r, s),
   key |-> (CHOOSE u \in Used(t, r, s) : TRUE).signature.key,
   types |-> {u.signature.type : u \in Used(t, r, s)},
   uses |-> {u.step : u \in Used(t, r, s)},
   deadline |-> o \in DOMAIN Window,
   failing |-> CHOOSE i \in DOMAIN scenario.steps : scenario.steps[i] = Line("then", h)]

(* A scenario of that shape compiles to what fits, and to nothing else     *)
(* (compile_scenario).                                                     *)
LEMMA CompileIs ==
  ASSUME NEW reg, NEW sc, NEW g, NEW w, NEW h, h # <<>>, Shape3(sc, g, w, h)
  PROVE  \A p : p \in CompileScenario(reg, sc) <=>
           \E o, t, r, s : Fits(reg, g, w, h, o, t, r, s) /\ p = Becomes(sc, h, o, t, r, s)
<1> DEFINE G == OfType(sc, "given")
           W == OfType(sc, "when")
           T == OfType(sc, "then")
           texts == [i \in DOMAIN W |-> W[i].text]
           scope == IF G = <<>> THEN <<>> ELSE ScopeTexts(G[1].text)
           Made(o, t, r, s) ==
             [id |-> sc.name, monitor |-> MonitorOf(o, t, r, s),
              key |-> (CHOOSE u \in Used(t, r, s) : TRUE).signature.key,
              types |-> {u.signature.type : u \in Used(t, r, s)},
              uses |-> {u.step : u \in Used(t, r, s)},
              deadline |-> o \in DOMAIN Window,
              failing |-> CHOOSE i \in DOMAIN sc.steps : sc.steps[i] = T[1]]
           Built(o, t, r, s) == IF ~SingleKey(Used(t, r, s)) THEN {} ELSE {Made(o, t, r, s)}
           Parsed(o) ==
             IF ~ShapeOk(o, G, W) THEN {}
             ELSE UNION {Built(o, t, r, s) :
                    t \in ResolveEach(reg, texts),
                    r \in ResolveEach(reg, Operands(o, T[1].text)),
                    s \in ResolveEach(reg, scope)}
<1>1. CompileScenario(reg, sc) = IF Len(T) # 1 THEN {} ELSE UNION {Parsed(o) : o \in Operator(T[1].text)}
  BY DEF CompileScenario, Used
<1>2. Len(T) = 1 /\ T[1] = Line("then", h) /\ T[1].text = h
  BY DEF Shape3, Only, Line
<1>3. IF w = <<>> THEN W = <<>> ELSE Len(W) = 1 /\ W[1] = Line("when", w)
  BY DEF Shape3, Only
<1>4. IF g = <<>> THEN G = <<>> ELSE Len(G) = 1 /\ G[1] = Line("given", g)
  BY DEF Shape3, Only
<1>5. \A o, t, r, s : Made(o, t, r, s) = Becomes(sc, h, o, t, r, s)
  BY <1>2 DEF Becomes
<1> HIDE DEF Made
<1>6. ASSUME NEW o, NEW p
      PROVE  p \in Parsed(o) <=>
               /\ ShapeOk(o, G, W)
               /\ \E t \in ResolveEach(reg, texts), r \in ResolveEach(reg, Operands(o, h)), s \in ResolveEach(reg, scope) :
                    SingleKey(Used(t, r, s)) /\ p = Becomes(sc, h, o, t, r, s)
  <2> DEFINE TS == ResolveEach(reg, texts)
             RS == ResolveEach(reg, Operands(o, T[1].text))
             SS == ResolveEach(reg, scope)
  <2>1. \A t, r, s : p \in Built(o, t, r, s) <=>
                       SingleKey(Used(t, r, s)) /\ p = Becomes(sc, h, o, t, r, s)
    BY <1>5
  <2>2. RS = ResolveEach(reg, Operands(o, h))
    BY <1>2
  <2>3. Parsed(o) = IF ~ShapeOk(o, G, W) THEN {} ELSE UNION {Built(o, t, r, s) : t \in TS, r \in RS, s \in SS}
    OBVIOUS
  <2> HIDE DEF Built, TS, RS, SS, Parsed, G, W, T
  <2>4. p \in UNION {Built(o, t, r, s) : t \in TS, r \in RS, s \in SS} <=>
          \E t \in TS, r \in RS, s \in SS : p \in Built(o, t, r, s)
    OBVIOUS
  <2>5. p \in Parsed(o) <=> /\ ShapeOk(o, G, W)
                            /\ \E t \in TS, r \in RS, s \in SS : p \in Built(o, t, r, s)
    BY <2>3, <2>4
  <2>6. p \in Parsed(o) <=>
          /\ ShapeOk(o, G, W)
          /\ \E t \in TS, r \in RS, s \in SS : SingleKey(Used(t, r, s)) /\ p = Becomes(sc, h, o, t, r, s)
    BY <2>1, <2>5
  <2> QED  BY <2>2, <2>6 DEF TS, SS
<1>11. \A p : p \in CompileScenario(reg, sc) <=> \E o \in Operator(h) : p \in Parsed(o)
  <2> HIDE DEF Parsed, T
  <2>1. CompileScenario(reg, sc) = UNION {Parsed(o) : o \in Operator(h)}
    BY <1>1, <1>2
  <2> QED  BY <2>1
<1> HIDE DEF Parsed, G, W, T
<1>7. \A o : ShapeOk(o, G, W) <=>
        /\ g # <<>> => o = "never happens"
        /\ o \in SelfContained <=> w = <<>>
        /\ o \in DOMAIN Window => Window[o] # Infinite
  <2>1. Len(G) <= 1 /\ (G # <<>> <=> g # <<>>)
    <3>1. Len(<<>>) = 0 /\ 0 <= 1 /\ 1 <= 1 /\ 0 # 1
      OBVIOUS
    <3> QED  BY <1>4, <3>1
  <2>2. (W = <<>> <=> w = <<>>) /\ (Len(W) = 1 <=> w # <<>>)
    <3>1. Len(<<>>) = 0 /\ 0 # 1
      OBVIOUS
    <3> QED  BY <1>3, <3>1
  <2> QED  BY <2>1, <2>2 DEF ShapeOk
<1>8. scope = IF g = <<>> THEN <<>> ELSE ScopeTexts(g)
  <2>1. CASE g = <<>>
    BY <1>4, <2>1
  <2>2. CASE g # <<>>
    <3>1. G # <<>> /\ G[1].text = g
      <4>1. Len(<<>>) = 0 /\ 0 # 1
        OBVIOUS
      <4> QED  BY <1>4, <2>2, <4>1 DEF Line
    <3> QED  BY <2>2, <3>1
  <2> QED  BY <2>1, <2>2
<1>9. ResolveEach(reg, texts) = ResolveEach(reg, Single(w))
  <2> DEFINE Each(D, x) == IF \E i \in D : Cardinality(Resolve(reg, x[i].text)) # 1 THEN {}
                           ELSE {[i \in D |-> CHOOSE r \in Resolve(reg, x[i].text) : TRUE]}
  <2>1. CASE w = <<>>
    <3>1. texts = <<>>
      BY <1>3, <2>1
    <3> QED  BY <2>1, <3>1 DEF Single
  <2>2. CASE w # <<>>
    <3>1. texts = <<w>>
      <4>1. Len(W) = 1 /\ W[1] = Line("when", w) /\ W[1].text = w
        BY <1>3, <2>2 DEF Line
      <4>2. DOMAIN W = {1}
        BY <4>1
      <4> QED  BY <4>1, <4>2
    <3> QED  BY <2>2, <3>1 DEF Single
  <2> QED  BY <2>1, <2>2
<1> HIDE DEF texts, scope
<1>10. \A o, p : p \in Parsed(o) <=>
        /\ g # <<>> => o = "never happens"
        /\ o \in SelfContained <=> w = <<>>
        /\ o \in DOMAIN Window => Window[o] # Infinite
        /\ \E t, r, s : /\ t \in ResolveEach(reg, Single(w))
                        /\ r \in ResolveEach(reg, Operands(o, h))
                        /\ s \in ResolveEach(reg, IF g = <<>> THEN <<>> ELSE ScopeTexts(g))
                        /\ SingleKey(Used(t, r, s)) /\ p = Becomes(sc, h, o, t, r, s)
  <2> TAKE o, p
  <2> DEFINE RS == ResolveEach(reg, Operands(o, h))
             TS == ResolveEach(reg, texts)
             SS == ResolveEach(reg, scope)
  <2>1. p \in Parsed(o) <=>
          /\ g # <<>> => o = "never happens"
          /\ o \in SelfContained <=> w = <<>>
          /\ o \in DOMAIN Window => Window[o] # Infinite
          /\ \E t \in TS, r \in RS, s \in SS :
               SingleKey(Used(t, r, s)) /\ p = Becomes(sc, h, o, t, r, s)
    BY <1>6, <1>7
  <2>2. TS = ResolveEach(reg, Single(w)) /\ SS = ResolveEach(reg, IF g = <<>> THEN <<>> ELSE ScopeTexts(g))
    BY <1>8, <1>9
  <2> HIDE DEF RS, TS, SS
  <2>3. (\E t \in TS, r \in RS, s \in SS :
            SingleKey(Used(t, r, s)) /\ p = Becomes(sc, h, o, t, r, s)) <=>
          \E t, r, s : t \in TS /\ r \in RS /\ s \in SS /\ SingleKey(Used(t, r, s)) /\ p = Becomes(sc, h, o, t, r, s)
    OBVIOUS
  <2> QED  BY <2>1, <2>2, <2>3 DEF RS
<1> QED
  <2> TAKE p
  <2>1. \A o : o \in Operator(h) /\ p \in Parsed(o) <=>
               \E t, r, s : Fits(reg, g, w, h, o, t, r, s) /\ p = Becomes(sc, h, o, t, r, s)
    <3> TAKE o
    <3>1. p \in Parsed(o) <=>
            /\ g # <<>> => o = "never happens"
            /\ o \in SelfContained <=> w = <<>>
            /\ o \in DOMAIN Window => Window[o] # Infinite
            /\ \E t, r, s : /\ t \in ResolveEach(reg, Single(w))
                            /\ r \in ResolveEach(reg, Operands(o, h))
                            /\ s \in ResolveEach(reg, IF g = <<>> THEN <<>> ELSE ScopeTexts(g))
                            /\ SingleKey(Used(t, r, s)) /\ p = Becomes(sc, h, o, t, r, s)
      BY <1>10
    <3> QED  BY <3>1, Zenon DEF Fits
  <2> QED  BY <1>11, <2>1

(* What compiles has at most a Given, at most a When and one Then.         *)
LEMMA CompiledHasShape ==
  ASSUME NEW Word, NEW sc, IsScenario(sc, Word), NEW reg, CompileScenario(reg, sc) # {}
  PROVE  \E g, w, h \in Seq(Word) : h # <<>> /\ Shape3(sc, g, w, h)
<1> DEFINE G == OfType(sc, "given")
           W == OfType(sc, "when")
           T == OfType(sc, "then")
<1>1. Len(T) = 1 /\ \E o : ShapeOk(o, G, W)
  BY DEF CompileScenario
<1>2. Len(G) <= 1 /\ (W = <<>> \/ Len(W) = 1)
  BY <1>1 DEF ShapeOk
<1>3. Len(W) <= 1 /\ Len(T) <= 1 /\ T # <<>>
  <2>1. Len(<<>>) = 0 /\ 0 <= 1 /\ 1 <= 1 /\ 0 # 1
    OBVIOUS
  <2> HIDE DEF W, T
  <2> QED  BY <1>1, <1>2, <2>1
<1>4. PICK g \in Seq(Word) : Only(sc, "given", g)
  BY <1>2, OnlyIs
<1>5. PICK w \in Seq(Word) : Only(sc, "when", w)
  BY <1>3, OnlyIs
<1>6. PICK h \in Seq(Word) : Only(sc, "then", h) /\ (h = <<>> <=> T = <<>>)
  BY <1>3, OnlyIs
<1> QED  BY <1>3, <1>4, <1>5, <1>6 DEF Shape3

-----------------------------------------------------------------------------
(* The words of a deadline are forms of their own, one for each number.    *)
WindowsAreForms ==
  /\ DOMAIN Window \cap (SelfContained \cup {"previously", "before", "until"}) = {}
  /\ \A v, w \in DOMAIN Window : Window[v] = Window[w] => v = w

(* The monitor of each form.                                               *)
LEMMA NoWindow ==
  ASSUME WindowsAreForms
  PROVE  \A o \in {"never happens", "has happened", "always holds", "since", "before", "previously"} :
           o \notin DOMAIN Window
BY DEF WindowsAreForms, SelfContained, Early

(* ... never, without a scope,                                             *)
LEMMA NeverOf ==
  ASSUME WindowsAreForms
  PROVE  \A t, p : MonitorOf("never happens", t, <<p>>, <<>>) = [kind |-> "never", bad |-> p]
<1>1. "never happens" \notin DOMAIN Window
  BY NoWindow
<1> QED  BY <1>1 DEF MonitorOf

(* ... never, in the scope that the Given resolved to,                     *)
LEMMA ScopeOf ==
  ASSUME WindowsAreForms
  PROVE  \A t, p, s : s # <<>> => MonitorOf("never happens", t, <<p>>, s) =
           [kind |-> "scoped_never", open |-> s[1], close |-> IF Len(s) = 2 THEN s[2] ELSE None, bad |-> p]
<1>1. "never happens" \notin DOMAIN Window
  BY NoWindow
<1> QED  BY <1>1 DEF MonitorOf

(* ... which nothing closes,                                               *)
LEMMA ScopedOf ==
  ASSUME WindowsAreForms
  PROVE  \A t, p, q : MonitorOf("never happens", t, <<p>>, <<q>>) =
                         [kind |-> "scoped_never", open |-> q, close |-> None, bad |-> p]
<1> TAKE t, p, q
<1>1. <<q>> # <<>> /\ <<q>>[1] = q /\ Len(<<q>>) # 2
  OBVIOUS
<1> DEFINE s == <<q>>
<1> HIDE DEF s
<1>2. s # <<>> => MonitorOf("never happens", t, <<p>>, s) =
        [kind |-> "scoped_never", open |-> s[1], close |-> IF Len(s) = 2 THEN s[2] ELSE None, bad |-> p]
  BY ScopeOf
<1> QED  BY <1>1, <1>2 DEF s
ClosedAs(t, p, q, c) ==
  MonitorOf("never happens", t, <<p>>, <<q, c>>) = [kind |-> "scoped_never", open |-> q, close |-> c, bad |-> p]

(* ... or which a second predicate closes,                                 *)
LEMMA ClosedOf ==
  ASSUME WindowsAreForms
  PROVE  \A t, p, q, c : ClosedAs(t, p, q, c)
<1> SUFFICES ASSUME NEW t, NEW p, NEW q, NEW c
             PROVE  MonitorOf("never happens", t, <<p>>, <<q, c>>) =
                      [kind |-> "scoped_never", open |-> q, close |-> c, bad |-> p]
  BY DEF ClosedAs
<1>1. <<q, c>> # <<>> /\ <<q, c>>[1] = q /\ <<q, c>>[2] = c /\ Len(<<q, c>>) = 2
  OBVIOUS
<1> DEFINE s == <<q, c>>
<1> HIDE DEF s
<1>2. s # <<>> => MonitorOf("never happens", t, <<p>>, s) =
        [kind |-> "scoped_never", open |-> s[1], close |-> IF Len(s) = 2 THEN s[2] ELSE None, bad |-> p]
  BY ScopeOf
<1> QED  BY <1>1, <1>2 DEF s

(* ... once,                                                               *)
LEMMA OnceOf ==
  ASSUME WindowsAreForms
  PROVE  \A t, p, s : MonitorOf("has happened", t, <<p>>, s) = [kind |-> "once", good |-> p]
<1>1. "has happened" \notin DOMAIN Window
  BY NoWindow
<1> QED  BY <1>1 DEF MonitorOf

(* ... historically,                                                       *)
LEMMA HistoricallyOf ==
  ASSUME WindowsAreForms
  PROVE  \A t, p, s : MonitorOf("always holds", t, <<p>>, s) = [kind |-> "historically", phi |-> p]
<1>1. "always holds" \notin DOMAIN Window
  BY NoWindow
<1> QED  BY <1>1 DEF MonitorOf

(* ... since,                                                              *)
LEMMA SinceOf ==
  ASSUME WindowsAreForms
  PROVE  \A t, p, q, s : MonitorOf("since", t, <<p, q>>, s) = [kind |-> "since", phi |-> p, psi |-> q]
<1>1. "since" \notin DOMAIN Window
  BY NoWindow
<1> QED  BY <1>1 DEF MonitorOf

(* ... before and previously,                                              *)
LEMMA PriorOf ==
  ASSUME WindowsAreForms, NEW k \in {"before", "previously"}
  PROVE  \A q, p, s : MonitorOf(k, <<q>>, <<p>>, s) = [kind |-> k, prior |-> p, trigger |-> q]
<1>1. k \notin DOMAIN Window
  BY DEF WindowsAreForms
<1>2. CASE k = "before"
  BY <1>1, <1>2 DEF MonitorOf
<1>3. CASE k = "previously"
  BY <1>1, <1>3 DEF MonitorOf
<1> QED  BY <1>2, <1>3

(* ... and within.                                                         *)
LEMMA WithinOf ==
  ASSUME WindowsAreForms, NEW o \in DOMAIN Window
  PROVE  \A q, p, s : MonitorOf(o, <<q>>, <<p>>, s) =
                        [kind |-> "within", trigger |-> q, response |-> p, seconds |-> Window[o]]
<1>1. o \notin {"never happens", "has happened", "always holds", "since", "before", "previously"}
  BY DEF WindowsAreForms, SelfContained, Early
<1> QED  BY <1>1 DEF MonitorOf

-----------------------------------------------------------------------------
(* A monitor with its predicates and the lines that it is written with.    *)
Means(m, used, lines) ==
  /\ Predicates(m) = used /\ Written(m) = lines
  /\ \A P : used \subseteq P => m \in MonitorsOver(P)

(* The fields of a monitor that hold predicates.                           *)
PredicateFields == {"bad", "open", "close", "good", "phi", "psi", "trigger", "response", "prior"}

(* The predicates of a monitor, by its fields.                             *)
LEMMA PredicatesAre ==
  ASSUME NEW m
  PROVE  Predicates(m) = {m[f] : f \in DOMAIN m \cap PredicateFields} \ {None}
BY DEF Predicates, PredicateFields

(* Never, without a scope.                                                 *)
LEMMA NeverMeans ==
  ASSUME NEW p, p # None
  PROVE  Means([kind |-> "never", bad |-> p], {p}, {Line("then", Said(p) \o <<"never happens">>)})
<1> DEFINE m == [kind |-> "never", bad |-> p]
<1>1. DOMAIN m \cap PredicateFields = {"bad"} /\ m.bad = p /\ m.kind = "never"
  BY DEF PredicateFields
<1>2. \A P : {p} \subseteq P => m \in MonitorsOver(P)
  BY DEF MonitorsOver
<1> HIDE DEF m
<1>3. Predicates(m) = {p}
  BY <1>1, PredicatesAre
<1>4. Written(m) = {Line("then", Said(p) \o <<"never happens">>)}
  BY <1>1 DEF Written
<1> QED  BY <1>2, <1>3, <1>4 DEF Means, m

(* Once.                                                                   *)
LEMMA OnceMeans ==
  ASSUME NEW p, p # None
  PROVE  Means([kind |-> "once", good |-> p], {p}, {Line("then", Said(p) \o <<"has happened">>)})
<1> DEFINE m == [kind |-> "once", good |-> p]
<1>1. DOMAIN m \cap PredicateFields = {"good"} /\ m.good = p /\ m.kind = "once"
  BY DEF PredicateFields
<1>2. \A P : {p} \subseteq P => m \in MonitorsOver(P)
  BY DEF MonitorsOver
<1> HIDE DEF m
<1>3. Predicates(m) = {p}
  BY <1>1, PredicatesAre
<1>4. Written(m) = {Line("then", Said(p) \o <<"has happened">>)}
  BY <1>1 DEF Written
<1> QED  BY <1>2, <1>3, <1>4 DEF Means, m

(* Historically.                                                           *)
LEMMA HistoricallyMeans ==
  ASSUME NEW p, p # None
  PROVE  Means([kind |-> "historically", phi |-> p], {p}, {Line("then", Said(p) \o <<"always holds">>)})
<1> DEFINE m == [kind |-> "historically", phi |-> p]
<1>1. DOMAIN m \cap PredicateFields = {"phi"} /\ m.phi = p /\ m.kind = "historically"
  BY DEF PredicateFields
<1>2. \A P : {p} \subseteq P => m \in MonitorsOver(P)
  BY DEF MonitorsOver
<1> HIDE DEF m
<1>3. Predicates(m) = {p}
  BY <1>1, PredicatesAre
<1>4. Written(m) = {Line("then", Said(p) \o <<"always holds">>)}
  BY <1>1 DEF Written
<1> QED  BY <1>2, <1>3, <1>4 DEF Means, m

(* Since.                                                                  *)
LEMMA SinceMeans ==
  ASSUME NEW p, NEW q, p # None, q # None
  PROVE  Means([kind |-> "since", phi |-> p, psi |-> q], {p, q},
               {Line("then", Said(p) \o <<"since">> \o Said(q))})
<1> DEFINE m == [kind |-> "since", phi |-> p, psi |-> q]
<1>1. DOMAIN m \cap PredicateFields = {"phi", "psi"} /\ m.phi = p /\ m.psi = q /\ m.kind = "since"
  BY DEF PredicateFields
<1>2. \A P : {p, q} \subseteq P => m \in MonitorsOver(P)
  <2>1. \A P : {[kind |-> "since", phi |-> x, psi |-> y] : x, y \in P} \subseteq MonitorsOver(P)
    BY DEF MonitorsOver
  <2>2. \A P : {p, q} \subseteq P => m \in {[kind |-> "since", phi |-> x, psi |-> y] : x, y \in P}
    OBVIOUS
  <2> HIDE DEF m
  <2> QED  BY <2>1, <2>2
<1> HIDE DEF m
<1>3. Predicates(m) = {p, q}
  BY <1>1, PredicatesAre
<1>4. Written(m) = {Line("then", Said(p) \o <<"since">> \o Said(q))}
  BY <1>1 DEF Written
<1> QED  BY <1>2, <1>3, <1>4 DEF Means, m

(* Never, in a scope that may be closed.                                   *)
LEMMA ScopedMeans ==
  ASSUME NEW p, NEW q, NEW c, p # None, q # None
  PROVE  Means([kind |-> "scoped_never", open |-> q, close |-> c, bad |-> p], {p, q, c} \ {None},
               {Line("given", IF c = None THEN Said(q) ELSE Said(q) \o <<"until">> \o Said(c)),
                Line("then", Said(p) \o <<"never happens">>)})
<1> DEFINE m == [kind |-> "scoped_never", open |-> q, close |-> c, bad |-> p]
<1>1. /\ DOMAIN m \cap PredicateFields = {"bad", "open", "close"}
      /\ m.bad = p /\ m.open = q /\ m.close = c /\ m.kind = "scoped_never"
  BY DEF PredicateFields
<1>2. \A P : {p, q, c} \ {None} \subseteq P => m \in MonitorsOver(P)
  <2>1. \A P : {[kind |-> "scoped_never", open |-> x, close |-> z, bad |-> y] : x, y \in P, z \in P \cup {None}}
                 \subseteq MonitorsOver(P)
    BY DEF MonitorsOver
  <2>2. \A P : p \in P /\ q \in P /\ c \in P \cup {None} =>
          m \in {[kind |-> "scoped_never", open |-> x, close |-> z, bad |-> y] : x, y \in P, z \in P \cup {None}}
    OBVIOUS
  <2> HIDE DEF m
  <2>3. \A P : {p, q, c} \ {None} \subseteq P => p \in P /\ q \in P /\ c \in P \cup {None}
    OBVIOUS
  <2> QED  BY <2>1, <2>2, <2>3
<1> HIDE DEF m
<1>3. Predicates(m) = {p, q, c} \ {None}
  <2>1. {m[f] : f \in {"bad", "open", "close"}} = {p, q, c}
    BY <1>1
  <2> QED  BY <1>1, <2>1, PredicatesAre
<1>4. Written(m) = {Line("given", IF c = None THEN Said(q) ELSE Said(q) \o <<"until">> \o Said(c)),
                    Line("then", Said(p) \o <<"never happens">>)}
  BY <1>1 DEF Written
<1> QED  BY <1>2, <1>3, <1>4 DEF Means, m

(* Before and previously.                                                  *)
LEMMA PriorMeans ==
  ASSUME NEW k \in {"before", "previously"}, NEW p, NEW q, p # None, q # None
  PROVE  Means([kind |-> k, prior |-> p, trigger |-> q], {p, q},
               {Line("when", Said(q)), Line("then", Said(p) \o <<k>>)})
<1> DEFINE m == [kind |-> k, prior |-> p, trigger |-> q]
<1>1. DOMAIN m \cap PredicateFields = {"prior", "trigger"} /\ m.prior = p /\ m.trigger = q /\ m.kind = k
  BY DEF PredicateFields
<1>2. \A P : {p, q} \subseteq P => m \in MonitorsOver(P)
  <2> DEFINE K == {"before", "previously"}
  <2>1. \A P : {[kind |-> j, prior |-> x, trigger |-> y] : j \in K, x, y \in P} \subseteq MonitorsOver(P)
    BY DEF MonitorsOver
  <2> HIDE DEF K
  <2>2. \A P : {p, q} \subseteq P => m \in {[kind |-> j, prior |-> x, trigger |-> y] : j \in K, x, y \in P}
    <3>1. k \in K
      BY DEF K
    <3> QED  BY <3>1
  <2> HIDE DEF m
  <2> QED  BY <2>1, <2>2
<1> HIDE DEF m
<1>3. Predicates(m) = {p, q}
  BY <1>1, PredicatesAre
<1>4. Written(m) = {Line("when", Said(q)), Line("then", Said(p) \o <<k>>)}
  <2>1. CASE k = "before"
    BY <1>1, <2>1 DEF Written
  <2>2. CASE k = "previously"
    BY <1>1, <2>2 DEF Written
  <2> QED  BY <2>1, <2>2
<1> QED  BY <1>2, <1>3, <1>4 DEF Means, m

(* Within: the word of the deadline is the one of its number.              *)
LEMMA WithinMeans ==
  ASSUME WindowsAreForms, NEW o \in DOMAIN Window, Window[o] # Infinite, NEW p, NEW q, p # None, q # None
  PROVE  Means([kind |-> "within", trigger |-> q, response |-> p, seconds |-> Window[o]], {p, q},
               {Line("when", Said(q)), Line("then", Said(p) \o <<o>>)})
<1> DEFINE n == Window[o]
           N == {Window[v] : v \in DOMAIN Window} \ {Infinite}
           m == [kind |-> "within", trigger |-> q, response |-> p, seconds |-> n]
<1>5. n \in N
  OBVIOUS
<1>6. (CHOOSE v \in DOMAIN Window : Window[v] = n) = o
  BY DEF WindowsAreForms
<1> HIDE DEF n
<1>1. /\ DOMAIN m \cap PredicateFields = {"response", "trigger"}
      /\ m.response = p /\ m.trigger = q /\ m.seconds = n /\ m.kind = "within"
  BY DEF PredicateFields
<1>2. \A P : {p, q} \subseteq P => m \in MonitorsOver(P)
  <2>1. \A P : {[kind |-> "within", trigger |-> x, response |-> y, seconds |-> z] : x, y \in P, z \in N}
                 \subseteq MonitorsOver(P)
    BY DEF MonitorsOver
  <2> HIDE DEF N
  <2>2. \A P : {p, q} \subseteq P =>
          m \in {[kind |-> "within", trigger |-> x, response |-> y, seconds |-> z] : x, y \in P, z \in N}
    BY <1>5
  <2> HIDE DEF m
  <2> QED  BY <2>1, <2>2
<1> HIDE DEF m
<1>3. Predicates(m) = {p, q}
  BY <1>1, PredicatesAre
<1>4. Written(m) = {Line("when", Said(q)), Line("then", Said(p) \o <<o>>)}
  BY <1>1, <1>6 DEF Written
<1> QED  BY <1>2, <1>3, <1>4 DEF Means, m, n

-----------------------------------------------------------------------------
(* The lines of each.                                                      *)
LEMMA AloneThere == \A h : h # <<>> => There(<<>>, <<>>, h) = {Line("then", h)}
BY DEF There, Line

(* ... with a Given,                                                       *)
LEMMA GivenThere == \A g, h : g # <<>> /\ h # <<>> => There(g, <<>>, h) = {Line("given", g), Line("then", h)}
BY DEF There, Line

(* ... and with a When.                                                    *)
LEMMA WhenThere == \A w, h : w # <<>> /\ h # <<>> => There(<<>>, w, h) = {Line("when", w), Line("then", h)}
BY DEF There, Line

(* The members of short sequences.                                         *)
LEMMA UsedIs ==
  /\ ToSet(<<>>) = {}
  /\ \A a : ToSet(<<a>>) = {a}
  /\ \A a, b : ToSet(<<a, b>>) = {a, b}
<1>1. ToSet(<<>>) = {}
  BY DEF ToSet
<1>2. ASSUME NEW a  PROVE ToSet(<<a>>) = {a}
  <2>1. DOMAIN <<a>> = {1} /\ <<a>>[1] = a
    OBVIOUS
  <2> QED  BY <2>1 DEF ToSet
<1>3. ASSUME NEW a, NEW b  PROVE ToSet(<<a, b>>) = {a, b}
  <2>1. DOMAIN <<a, b>> = {1, 2} /\ <<a, b>>[1] = a /\ <<a, b>>[2] = b
    OBVIOUS
  <2> QED  BY <2>1 DEF ToSet
<1> QED  BY <1>1, <1>2, <1>3

-----------------------------------------------------------------------------
(* A clear text, with what it stands for; and predicates that the parts of *)
(* a scenario stand for.                                                   *)
Good(reg, x) == Clear(reg, x) /\ Said(Meant(reg, x)) = x /\ Meant(reg, x) # None
Stands(reg, x, u) == Clear(reg, x) /\ u = Meant(reg, x)
FromParts(reg, g, w, h, used) ==
  /\ IsFiniteSet(used)
  /\ \A u \in used : \E x \in Parts(g) \cup Parts(w) \cup Parts(h) : Stands(reg, x, u)

(* Three predicates are finitely many.                                     *)
LEMMA FewAreFinite ==
  ASSUME NEW a, NEW b, NEW c
  PROVE  IsFiniteSet({a, b, c}) /\ IsFiniteSet({a, b}) /\ IsFiniteSet({a})
<1>1. IsFiniteSet({a}) /\ IsFiniteSet({b}) /\ IsFiniteSet({c})
  BY FS_Singleton
<1>2. IsFiniteSet({a} \cup {b})
  BY <1>1, FS_Union
<1>3. IsFiniteSet(({a} \cup {b}) \cup {c})
  BY <1>1, <1>2, FS_Union
<1>4. {a} \cup {b} = {a, b} /\ ({a} \cup {b}) \cup {c} = {a, b, c}
  OBVIOUS
<1> QED  BY <1>1, <1>2, <1>3, <1>4

(* Every clear text is such a text.                                        *)
LEMMA GoodAre ==
  ASSUME NEW Word, NEW reg, Reads(reg, Word)
  PROVE  \A x \in Seq(Word) : x # <<>> /\ Clear(reg, x) => Good(reg, x)
BY DEF Reads, Good

(* What fits, as far as the properties of a policy go.                     *)
Builds(reg, g, w, h, o, used, m) ==
  /\ Means(m, used, There(g, w, h))
  /\ FromParts(reg, g, w, h, used)
  /\ o \in DOMAIN Window <=> m.kind = "within"

(* One predicate that a part stands for,                                   *)
LEMMA FromOne ==
  ASSUME NEW reg, NEW g, NEW w, NEW h, NEW a \in Parts(g) \cup Parts(w) \cup Parts(h), Clear(reg, a)
  PROVE  FromParts(reg, g, w, h, {Meant(reg, a)})
BY FewAreFinite DEF FromParts, Stands

(* ... two,                                                                *)
LEMMA FromTwo ==
  ASSUME NEW reg, NEW g, NEW w, NEW h, NEW a \in Parts(g) \cup Parts(w) \cup Parts(h), Clear(reg, a),
         NEW b \in Parts(g) \cup Parts(w) \cup Parts(h), Clear(reg, b)
  PROVE  FromParts(reg, g, w, h, {Meant(reg, a), Meant(reg, b)})
BY FewAreFinite DEF FromParts, Stands

(* ... and three.                                                          *)
LEMMA FromThree ==
  ASSUME NEW reg, NEW g, NEW w, NEW h, NEW a \in Parts(g) \cup Parts(w) \cup Parts(h), Clear(reg, a),
         NEW b \in Parts(g) \cup Parts(w) \cup Parts(h), Clear(reg, b),
         NEW c \in Parts(g) \cup Parts(w) \cup Parts(h), Clear(reg, c)
  PROVE  FromParts(reg, g, w, h, {Meant(reg, a), Meant(reg, b), Meant(reg, c)})
BY FewAreFinite DEF FromParts, Stands

(* A form that stands alone: never without a scope, once, historically.    *)
LEMMA AloneBuilds ==
  ASSUME WindowsAreForms, NEW reg, NEW h, h # <<>>, NEW o \in Early,
         NEW a \in Parts(h), a \o <<o>> = h, Good(reg, a), NEW t
  PROVE  Builds(reg, <<>>, <<>>, h, o, {Meant(reg, a)}, MonitorOf(o, t, <<Meant(reg, a)>>, <<>>))
<1> DEFINE r == Meant(reg, a)
           m == MonitorOf(o, t, <<r>>, <<>>)
<1>1. There(<<>>, <<>>, h) = {Line("then", h)} /\ Said(r) \o <<o>> = h /\ r # None
  BY AloneThere DEF Good
<1>2. o \notin DOMAIN Window
  BY DEF WindowsAreForms, SelfContained
<1>3. FromParts(reg, <<>>, <<>>, h, {r})
  BY FromOne DEF Good
<1> HIDE DEF r
<1>4. Means(m, {r}, There(<<>>, <<>>, h)) /\ m.kind # "within"
  <2>1. CASE o = "never happens"
    <3>1. m = [kind |-> "never", bad |-> r]
      BY <2>1, NeverOf
    <3>2. Means([kind |-> "never", bad |-> r], {r}, {Line("then", Said(r) \o <<"never happens">>)})
      BY <1>1, NeverMeans
    <3> HIDE DEF m
    <3> QED  BY <1>1, <2>1, <3>1, <3>2
  <2>2. CASE o = "has happened"
    <3>1. m = [kind |-> "once", good |-> r]
      BY <2>2, OnceOf
    <3>2. Means([kind |-> "once", good |-> r], {r}, {Line("then", Said(r) \o <<"has happened">>)})
      BY <1>1, OnceMeans
    <3> HIDE DEF m
    <3> QED  BY <1>1, <2>2, <3>1, <3>2
  <2>3. CASE o = "always holds"
    <3>1. m = [kind |-> "historically", phi |-> r]
      BY <2>3, HistoricallyOf
    <3>2. Means([kind |-> "historically", phi |-> r], {r}, {Line("then", Said(r) \o <<"always holds">>)})
      BY <1>1, HistoricallyMeans
    <3> HIDE DEF m
    <3> QED  BY <1>1, <2>3, <3>1, <3>2
  <2> QED  BY <2>1, <2>2, <2>3 DEF Early
<1> HIDE DEF m
<1>5. Builds(reg, <<>>, <<>>, h, o, {r}, m)
  BY <1>2, <1>3, <1>4 DEF Builds
<1> QED  BY <1>5 DEF m, r

(* Never, in a scope that nothing closes.                                  *)
LEMMA ScopedBuilds ==
  ASSUME WindowsAreForms, NEW reg, NEW h, h # <<>>, NEW g, g # <<>>,
         NEW a \in Parts(h), a \o <<"never happens">> = h, Good(reg, a),
         g \in Parts(g), Good(reg, g), NEW t
  PROVE  Builds(reg, g, <<>>, h, "never happens", {Meant(reg, a), Meant(reg, g)},
                MonitorOf("never happens", t, <<Meant(reg, a)>>, <<Meant(reg, g)>>))
<1> DEFINE o == "never happens"
           r == Meant(reg, a)
           q == Meant(reg, g)
           m == MonitorOf(o, t, <<r>>, <<q>>)
<1>1. /\ There(g, <<>>, h) = {Line("given", g), Line("then", h)}
      /\ Said(r) \o <<o>> = h /\ r # None /\ Said(q) = g /\ q # None
  BY GivenThere DEF Good
<1>2. o \notin DOMAIN Window
  BY NoWindow
<1>3. FromParts(reg, g, <<>>, h, {r, q})
  BY FromTwo DEF Good
<1> HIDE DEF r, q
<1>4. m = [kind |-> "scoped_never", open |-> q, close |-> None, bad |-> r]
  BY ScopedOf
<1>5. Means([kind |-> "scoped_never", open |-> q, close |-> None, bad |-> r], {r, q, None} \ {None},
            {Line("given", IF None = None THEN Said(q) ELSE Said(q) \o <<"until">> \o Said(None)),
             Line("then", Said(r) \o <<"never happens">>)})
  BY <1>1, ScopedMeans
<1>6. {r, q, None} \ {None} = {r, q}
  BY <1>1
<1> HIDE DEF m
<1>7. m.kind = "scoped_never"
  BY <1>4
<1>8. Means(m, {r, q}, There(g, <<>>, h))
  BY <1>1, <1>4, <1>5, <1>6
<1>9. Builds(reg, g, <<>>, h, o, {r, q}, m)
  BY <1>2, <1>3, <1>7, <1>8 DEF Builds
<1> QED  BY <1>9 DEF m, r, q

(* Never, in a scope that another text closes.                             *)
LEMMA ClosedBuilds ==
  ASSUME WindowsAreForms, NEW reg, NEW h, h # <<>>, NEW g, g # <<>>,
         NEW a \in Parts(h), a \o <<"never happens">> = h, Good(reg, a),
         NEW b \in Parts(g), Good(reg, b), NEW c \in Parts(g), Good(reg, c),
         (b \o <<"until">>) \o c = g, NEW t
  PROVE  Builds(reg, g, <<>>, h, "never happens", {Meant(reg, a), Meant(reg, b), Meant(reg, c)},
                MonitorOf("never happens", t, <<Meant(reg, a)>>, <<Meant(reg, b), Meant(reg, c)>>))
<1> DEFINE o == "never happens"
           r == Meant(reg, a)
           q == Meant(reg, b)
           e == Meant(reg, c)
           m == MonitorOf(o, t, <<r>>, <<q, e>>)
<1>1. /\ There(g, <<>>, h) = {Line("given", g), Line("then", h)}
      /\ Said(r) \o <<o>> = h /\ r # None
      /\ (Said(q) \o <<"until">>) \o Said(e) = g /\ q # None /\ e # None
  BY GivenThere DEF Good
<1>2. o \notin DOMAIN Window
  BY NoWindow
<1>3. FromParts(reg, g, <<>>, h, {r, q, e})
  BY FromThree DEF Good
<1> HIDE DEF r, q, e
<1>4. m = [kind |-> "scoped_never", open |-> q, close |-> e, bad |-> r]
  <2>1. ClosedAs(t, r, q, e)
    BY ClosedOf
  <2> QED  BY <2>1 DEF ClosedAs
<1>5. Means([kind |-> "scoped_never", open |-> q, close |-> e, bad |-> r], {r, q, e} \ {None},
            {Line("given", IF e = None THEN Said(q) ELSE (Said(q) \o <<"until">>) \o Said(e)),
             Line("then", Said(r) \o <<"never happens">>)})
  BY <1>1, ScopedMeans
<1>6. {r, q, e} \ {None} = {r, q, e}
  BY <1>1
<1> HIDE DEF m
<1>7. m.kind = "scoped_never"
  BY <1>4
<1>8. Means(m, {r, q, e}, There(g, <<>>, h))
  BY <1>1, <1>4, <1>5, <1>6
<1>9. Builds(reg, g, <<>>, h, o, {r, q, e}, m)
  BY <1>2, <1>3, <1>7, <1>8 DEF Builds
<1> QED  BY <1>9 DEF m, r, q, e

(* Since.                                                                  *)
LEMMA SinceBuilds ==
  ASSUME WindowsAreForms, NEW reg, NEW h, h # <<>>,
         NEW a \in Parts(h), Good(reg, a), NEW b \in Parts(h), Good(reg, b),
         (a \o <<"since">>) \o b = h, NEW t
  PROVE  Builds(reg, <<>>, <<>>, h, "since", {Meant(reg, a), Meant(reg, b)},
                MonitorOf("since", t, <<Meant(reg, a), Meant(reg, b)>>, <<>>))
<1> DEFINE p == Meant(reg, a)
           q == Meant(reg, b)
           m == MonitorOf("since", t, <<p, q>>, <<>>)
<1>1. /\ There(<<>>, <<>>, h) = {Line("then", h)}
      /\ (Said(p) \o <<"since">>) \o Said(q) = h /\ p # None /\ q # None
  BY AloneThere DEF Good
<1>2. "since" \notin DOMAIN Window
  BY NoWindow
<1>3. FromParts(reg, <<>>, <<>>, h, {p, q})
  BY FromTwo DEF Good
<1> HIDE DEF p, q
<1>4. m = [kind |-> "since", phi |-> p, psi |-> q]
  BY SinceOf
<1>5. Means([kind |-> "since", phi |-> p, psi |-> q], {p, q}, {Line("then", (Said(p) \o <<"since">>) \o Said(q))})
  BY <1>1, SinceMeans
<1>6. m.kind = "since"
  BY <1>4
<1> HIDE DEF m
<1>7. Means(m, {p, q}, There(<<>>, <<>>, h))
  BY <1>1, <1>4, <1>5
<1>8. Builds(reg, <<>>, <<>>, h, "since", {p, q}, m)
  BY <1>2, <1>3, <1>6, <1>7 DEF Builds
<1> QED  BY <1>8 DEF m, p, q

(* The forms with a trigger: within, before and previously.                *)
LEMMA TriggeredBuilds ==
  ASSUME WindowsAreForms, NEW reg, NEW h, h # <<>>, NEW w, w # <<>>, NEW o \in Late,
         o \in DOMAIN Window => Window[o] # Infinite,
         NEW a \in Parts(h), a \o <<o>> = h, Good(reg, a), w \in Parts(w), Good(reg, w), NEW s
  PROVE  Builds(reg, <<>>, w, h, o, {Meant(reg, a), Meant(reg, w)},
                MonitorOf(o, <<Meant(reg, w)>>, <<Meant(reg, a)>>, s))
<1> DEFINE r == Meant(reg, a)
           q == Meant(reg, w)
           m == MonitorOf(o, <<q>>, <<r>>, s)
<1>1. /\ There(<<>>, w, h) = {Line("when", w), Line("then", h)}
      /\ Said(r) \o <<o>> = h /\ r # None /\ Said(q) = w /\ q # None
  BY WhenThere DEF Good
<1>2. FromParts(reg, <<>>, w, h, {r, q})
  BY FromTwo DEF Good
<1> HIDE DEF r, q
<1>3. Means(m, {r, q}, There(<<>>, w, h)) /\ (o \in DOMAIN Window <=> m.kind = "within")
  <2>1. CASE o \in {"before", "previously"}
    <3>1. m = [kind |-> o, prior |-> r, trigger |-> q]
      BY <2>1, PriorOf
    <3>2. Means([kind |-> o, prior |-> r, trigger |-> q], {r, q}, {Line("when", Said(q)), Line("then", Said(r) \o <<o>>)})
      BY <1>1, <2>1, PriorMeans
    <3> HIDE DEF m
    <3>3. m.kind = o /\ o # "within"
      BY <2>1, <3>1
    <3>4. o \notin DOMAIN Window
      BY <2>1, NoWindow
    <3> QED  BY <1>1, <3>1, <3>2, <3>3, <3>4
  <2>2. CASE o \in DOMAIN Window
    <3>1. m = [kind |-> "within", trigger |-> q, response |-> r, seconds |-> Window[o]]
      BY <2>2, WithinOf
    <3>2. Means([kind |-> "within", trigger |-> q, response |-> r, seconds |-> Window[o]], {r, q},
                {Line("when", Said(q)), Line("then", Said(r) \o <<o>>)})
      BY <1>1, <2>2, WithinMeans
    <3>3. m.kind = "within"
      BY <3>1
    <3> HIDE DEF m
    <3> QED  BY <1>1, <2>2, <3>1, <3>2, <3>3
  <2> QED  BY <2>1, <2>2 DEF Late
<1> HIDE DEF m
<1>4. Builds(reg, <<>>, w, h, o, {r, q}, m)
  BY <1>2, <1>3 DEF Builds
<1> QED  BY <1>4 DEF m, r, q

-----------------------------------------------------------------------------
(* What the parts of a scenario resolve to when it fits.                   *)
LEMMA EachOne ==
  ASSUME NEW Word, NEW reg, Reads(reg, Word), NEW a \in Seq(Word), a # <<>>, NEW x \in ResolveEach(reg, <<a>>)
  PROVE  Good(reg, a) /\ x = <<Meant(reg, a)>>
<1>1. ResolveEach(reg, <<a>>) = IF Clear(reg, a) THEN {<<Meant(reg, a)>>} ELSE {}
  BY EachIs
<1>2. Clear(reg, a) /\ x = <<Meant(reg, a)>>
  BY <1>1
<1>3. Good(reg, a)
  BY <1>2, GoodAre
<1> QED  BY <1>2, <1>3

(* ... two texts,                                                          *)
LEMMA EachTwo ==
  ASSUME NEW Word, NEW reg, Reads(reg, Word), NEW a \in Seq(Word), a # <<>>, NEW b \in Seq(Word), b # <<>>,
         NEW x \in ResolveEach(reg, <<a, b>>)
  PROVE  Good(reg, a) /\ Good(reg, b) /\ x = <<Meant(reg, a), Meant(reg, b)>>
<1>1. ResolveEach(reg, <<a, b>>) =
        IF Clear(reg, a) /\ Clear(reg, b) THEN {<<Meant(reg, a), Meant(reg, b)>>} ELSE {}
  BY EachIs
<1>2. Clear(reg, a) /\ Clear(reg, b) /\ x = <<Meant(reg, a), Meant(reg, b)>>
  BY <1>1
<1>3. Good(reg, a) /\ Good(reg, b)
  BY <1>2, GoodAre
<1> QED  BY <1>2, <1>3

(* ... and none.                                                           *)
LEMMA EachNone == ASSUME NEW reg, NEW x \in ResolveEach(reg, <<>>)  PROVE x = <<>>
BY EachIs

(* The forms, by the words they are written with.                          *)
LEMMA OperatorIs ==
  ASSUME NEW h, NEW o \in Operator(h)
  PROVE  \/ EndsIn(h, Early) /\ o = Last(h) /\ o \in Early
         \/ Cuts(h, "since") # {} /\ o = "since"
         \/ EndsIn(h, Late) /\ o = Last(h) /\ o \in Late
BY DEF Operator, EndsIn

EndForm(reg, h, o, x) == \E a \in Parts(h) : a \o <<o>> = h /\ Good(reg, a) /\ x = <<Meant(reg, a)>>
CutForm(reg, h, v, x) ==
  \E a, b \in Parts(h) : /\ (a \o <<v>>) \o b = h /\ Good(reg, a) /\ Good(reg, b)
                         /\ x = <<Meant(reg, a), Meant(reg, b)>>

(* A form at the end leaves one text, which is clear.                      *)
LEMMA EndFits ==
  ASSUME NEW Word, NEW reg, Reads(reg, Word), NEW h \in Seq(Word), NEW words, EndsIn(h, words), Last(h) # "since",
         NEW x \in ResolveEach(reg, Operands(Last(h), h))
  PROVE  EndForm(reg, h, Last(h), x)
<1> DEFINE a == Front(h)
<1>1. /\ a \in Parts(h) /\ a \in Seq(Word) /\ a # <<>> /\ a \o <<Last(h)>> = h
  <2>1. Len(h) > 1
    BY DEF EndsIn
  <2> QED  BY <2>1, EndSplits
<1>2. x \in ResolveEach(reg, <<a>>)
  BY DEF Operands
<1> HIDE DEF a
<1>3. Good(reg, a) /\ x = <<Meant(reg, a)>>
  BY <1>1, <1>2, EachOne
<1> QED  BY <1>1, <1>3 DEF EndForm

(* A word in between leaves two, which are clear.                          *)
LEMMA CutFits ==
  ASSUME NEW Word, NEW reg, Reads(reg, Word), NEW h \in Seq(Word), NEW v, Cuts(h, v) # {},
         NEW x \in ResolveEach(reg, SplitAt(h, v))
  PROVE  CutForm(reg, h, v, x)
<1>1. PICK a, b \in Parts(h) : SplitAt(h, v) = <<a, b>> /\ (a \o <<v>>) \o b = h
  <2>1. \E a, b \in Parts(h) : SplitAt(h, v) = <<a, b>> /\ (a \o <<v>>) \o b = h /\ v \in Word
    BY CutSplits
  <2> QED  BY <2>1
<1>2. a \in Seq(Word) /\ a # <<>> /\ b \in Seq(Word) /\ b # <<>>
  BY PartsAre
<1>3. Good(reg, a) /\ Good(reg, b) /\ x = <<Meant(reg, a), Meant(reg, b)>>
  BY <1>1, <1>2, EachTwo
<1> QED  BY <1>1, <1>3 DEF CutForm

(* What is used: one predicate,                                            *)
LEMMA UsedOne ==
  ASSUME NEW a
  PROVE  Used(<<>>, <<a>>, <<>>) = {a}
BY UsedIs DEF Used

(* ... two,                                                                *)
LEMMA UsedTwo ==
  ASSUME NEW a, NEW b
  PROVE  /\ Used(<<>>, <<a, b>>, <<>>) = {a, b}
         /\ Used(<<b>>, <<a>>, <<>>) = {a, b}
         /\ Used(<<>>, <<a>>, <<b>>) = {a, b}
<1>1. ToSet(<<>>) = {} /\ ToSet(<<a>>) = {a} /\ ToSet(<<b>>) = {b} /\ ToSet(<<a, b>>) = {a, b}
  BY UsedIs
<1>2. {} \cup {a, b} \cup {} = {a, b} /\ {b} \cup {a} \cup {} = {a, b} /\ {} \cup {a} \cup {b} = {a, b}
  OBVIOUS
<1> QED  BY <1>1, <1>2 DEF Used

(* ... and three.                                                          *)
LEMMA UsedThree ==
  ASSUME NEW a, NEW b, NEW c
  PROVE  Used(<<>>, <<a>>, <<b, c>>) = {a, b, c}
<1>1. ToSet(<<>>) = {} /\ ToSet(<<a>>) = {a} /\ ToSet(<<b, c>>) = {b, c}
  BY UsedIs
<1>2. {} \cup {a} \cup {b, c} = {a, b, c}
  OBVIOUS
<1> QED  BY <1>1, <1>2 DEF Used

(* Whatever fits builds a monitor that is written so.                      *)
LEMMA FitsBuilds ==
  ASSUME WindowsAreForms, NEW Word, NEW reg, Reads(reg, Word),
         NEW g \in Seq(Word), NEW w \in Seq(Word), NEW h \in Seq(Word), h # <<>>,
         NEW o, NEW t, NEW r, NEW s, Fits(reg, g, w, h, o, t, r, s)
  PROVE  Builds(reg, g, w, h, o, Used(t, r, s), MonitorOf(o, t, r, s))
<1>1. /\ o \in Operator(h)
      /\ g # <<>> => o = "never happens"
      /\ o \in SelfContained <=> w = <<>>
      /\ o \in DOMAIN Window => Window[o] # Infinite
      /\ t \in ResolveEach(reg, Single(w))
      /\ r \in ResolveEach(reg, Operands(o, h))
      /\ s \in ResolveEach(reg, IF g = <<>> THEN <<>> ELSE ScopeTexts(g))
  BY DEF Fits
<1>2. w = <<>> => t = <<>>
  BY <1>1, EachNone DEF Single
<1>3. g = <<>> => s = <<>>
  BY <1>1, EachNone
<1>4. w # <<>> => w \in Parts(w) /\ Good(reg, w) /\ t = <<Meant(reg, w)>>
  <2> SUFFICES ASSUME w # <<>>  PROVE w \in Parts(w) /\ Good(reg, w) /\ t = <<Meant(reg, w)>>
    OBVIOUS
  <2>1. t \in ResolveEach(reg, <<w>>)
    BY <1>1 DEF Single
  <2>2. Good(reg, w) /\ t = <<Meant(reg, w)>>
    BY <2>1, EachOne
  <2> QED  BY <2>2, WholeIsPart
<1>5. CASE EndsIn(h, Early) /\ o = Last(h) /\ o \in Early
  <2>1. w = <<>> /\ t = <<>> /\ o # "since"
    BY <1>1, <1>2, <1>5 DEF SelfContained, Early
  <2>2. PICK a \in Parts(h) : a \o <<o>> = h /\ Good(reg, a) /\ r = <<Meant(reg, a)>>
    <3>1. EndForm(reg, h, Last(h), r)
      BY <1>1, <1>5, <2>1, EndFits
    <3> QED  BY <1>5, <3>1 DEF EndForm
  <2>3. CASE g = <<>>
    <3>1. Builds(reg, <<>>, <<>>, h, o, {Meant(reg, a)}, MonitorOf(o, <<>>, <<Meant(reg, a)>>, <<>>))
      BY <1>5, <2>2, AloneBuilds
    <3>2. Used(<<>>, <<Meant(reg, a)>>, <<>>) = {Meant(reg, a)}
      BY UsedOne
    <3> QED  BY <1>3, <2>1, <2>2, <2>3, <3>1, <3>2
  <2>4. CASE g # <<>> /\ Cuts(g, "until") = {}
    <3>1. s \in ResolveEach(reg, <<g>>)
      BY <1>1, <2>4 DEF ScopeTexts
    <3>2. Good(reg, g) /\ s = <<Meant(reg, g)>>
      BY <2>4, <3>1, EachOne
    <3>3. g \in Parts(g)
      BY <2>4, WholeIsPart
    <3>4. o = "never happens"
      BY <1>1, <2>4
    <3>5. Builds(reg, g, <<>>, h, "never happens", {Meant(reg, a), Meant(reg, g)},
                 MonitorOf("never happens", <<>>, <<Meant(reg, a)>>, <<Meant(reg, g)>>))
      BY <2>2, <2>4, <3>2, <3>3, <3>4, ScopedBuilds
    <3>6. Used(<<>>, <<Meant(reg, a)>>, <<Meant(reg, g)>>) = {Meant(reg, a), Meant(reg, g)}
      BY UsedTwo
    <3> QED  BY <2>1, <2>2, <3>2, <3>4, <3>5, <3>6
  <2>5. CASE g # <<>> /\ Cuts(g, "until") # {}
    <3>1. s \in ResolveEach(reg, SplitAt(g, "until"))
      BY <1>1, <2>5 DEF ScopeTexts
    <3>2. PICK b, c \in Parts(g) : /\ (b \o <<"until">>) \o c = g /\ Good(reg, b) /\ Good(reg, c)
                                   /\ s = <<Meant(reg, b), Meant(reg, c)>>
      <4>1. CutForm(reg, g, "until", s)
        BY <2>5, <3>1, CutFits
      <4> QED  BY <4>1 DEF CutForm
    <3>3. o = "never happens"
      BY <1>1, <2>5
    <3>4. Builds(reg, g, <<>>, h, "never happens", {Meant(reg, a), Meant(reg, b), Meant(reg, c)},
                 MonitorOf("never happens", <<>>, <<Meant(reg, a)>>, <<Meant(reg, b), Meant(reg, c)>>))
      BY <2>2, <2>5, <3>2, <3>3, ClosedBuilds
    <3>5. Used(<<>>, <<Meant(reg, a)>>, <<Meant(reg, b), Meant(reg, c)>>) =
            {Meant(reg, a), Meant(reg, b), Meant(reg, c)}
      BY UsedThree
    <3> QED  BY <2>1, <2>2, <3>2, <3>3, <3>4, <3>5
  <2> QED  BY <2>3, <2>4, <2>5
<1>6. CASE Cuts(h, "since") # {} /\ o = "since"
  <2>1. w = <<>> /\ t = <<>> /\ g = <<>> /\ s = <<>>
    BY <1>1, <1>2, <1>3, <1>6 DEF SelfContained
  <2>2. r \in ResolveEach(reg, SplitAt(h, "since"))
    BY <1>1, <1>6 DEF Operands
  <2>3. PICK a, b \in Parts(h) : /\ (a \o <<"since">>) \o b = h /\ Good(reg, a) /\ Good(reg, b)
                                 /\ r = <<Meant(reg, a), Meant(reg, b)>>
    <3>1. CutForm(reg, h, "since", r)
      BY <1>6, <2>2, CutFits
    <3> QED  BY <3>1 DEF CutForm
  <2>4. Builds(reg, <<>>, <<>>, h, "since", {Meant(reg, a), Meant(reg, b)},
               MonitorOf("since", <<>>, <<Meant(reg, a), Meant(reg, b)>>, <<>>))
    BY <2>3, SinceBuilds
  <2>5. Used(<<>>, <<Meant(reg, a), Meant(reg, b)>>, <<>>) = {Meant(reg, a), Meant(reg, b)}
    BY UsedTwo
  <2> QED  BY <1>6, <2>1, <2>3, <2>4, <2>5
<1>7. CASE EndsIn(h, Late) /\ o = Last(h) /\ o \in Late
  <2>1. o \notin SelfContained /\ o # "since" /\ o # "never happens"
    BY <1>7 DEF WindowsAreForms, SelfContained, Early, Late
  <2>2. g = <<>> /\ s = <<>> /\ w # <<>>
    BY <1>1, <1>3, <2>1
  <2>3. PICK a \in Parts(h) : a \o <<o>> = h /\ Good(reg, a) /\ r = <<Meant(reg, a)>>
    <3>1. EndForm(reg, h, Last(h), r)
      BY <1>1, <1>7, <2>1, EndFits
    <3> QED  BY <1>7, <3>1 DEF EndForm
  <2>4. Builds(reg, <<>>, w, h, o, {Meant(reg, a), Meant(reg, w)},
               MonitorOf(o, <<Meant(reg, w)>>, <<Meant(reg, a)>>, <<>>))
    BY <1>1, <1>4, <1>7, <2>2, <2>3, TriggeredBuilds
  <2>5. Used(<<Meant(reg, w)>>, <<Meant(reg, a)>>, <<>>) = {Meant(reg, a), Meant(reg, w)}
    BY UsedTwo
  <2> QED  BY <1>4, <2>2, <2>3, <2>4, <2>5
<1> QED  BY <1>1, <1>5, <1>6, <1>7, OperatorIs

-----------------------------------------------------------------------------
(* The parts of a scenario, and what they stand for.                       *)
LEMMA SpokenAre ==
  ASSUME NEW Word, NEW reg, Reads(reg, Word), NEW sc, IsScenario(sc, Word),
         NEW g \in Seq(Word), NEW w \in Seq(Word), NEW h \in Seq(Word),
         ToSet(sc.steps) = There(g, w, h), NEW used, FromParts(reg, g, w, h, used)
  PROVE  used \subseteq Spoken(reg, sc)
<1> DEFINE P == UNION {Parts(s.text) : s \in ToSet(sc.steps)}
<1>1. Parts(<<>>) = {}
  BY DEF Parts
<1>2. \A x : x \in Parts(g) \cup Parts(w) \cup Parts(h) => x \in P
  <2>1. \A type, text : text # <<>> /\ Line(type, text) \in ToSet(sc.steps) => Parts(text) \subseteq P
    <3> SUFFICES ASSUME NEW type, NEW text, Line(type, text) \in ToSet(sc.steps)  PROVE Parts(text) \subseteq P
      OBVIOUS
    <3>1. Line(type, text).text = text
      BY DEF Line
    <3>2. \A s \in ToSet(sc.steps) : Parts(s.text) \subseteq P
      OBVIOUS
    <3> QED  BY <3>1, <3>2
  <2> HIDE DEF P
  <2>2. \A type, text : Line(type, text).text = text
    BY DEF Line
  <2>3. /\ g # <<>> => Line("given", g) \in There(g, w, h)
        /\ w # <<>> => Line("when", w) \in There(g, w, h)
        /\ h # <<>> => Line("then", h) \in There(g, w, h)
    BY <2>2 DEF There
  <2>4. Parts(g) \subseteq P /\ Parts(w) \subseteq P /\ Parts(h) \subseteq P
    <3>1. Parts(g) \subseteq P
      BY <1>1, <2>1, <2>3
    <3>2. Parts(w) \subseteq P
      BY <1>1, <2>1, <2>3
    <3>3. Parts(h) \subseteq P
      BY <1>1, <2>1, <2>3
    <3> QED  BY <3>1, <3>2, <3>3
  <2> QED  BY <2>4
<1> HIDE DEF P
<1> SUFFICES ASSUME NEW u \in used  PROVE u \in Spoken(reg, sc)
  OBVIOUS
<1>3. PICK x \in Parts(g) \cup Parts(w) \cup Parts(h) : Clear(reg, x) /\ u = Meant(reg, x)
  BY DEF FromParts, Stands
<1>4. x \in Seq(Word) \ {<<>>}
  BY PartsAre
<1>5. Resolve(reg, x) = {u}
  BY <1>3, <1>4 DEF Reads
<1>6. x \in P /\ Cardinality(Resolve(reg, x)) = 1
  BY <1>2, <1>3 DEF Clear
<1> QED  BY <1>5, <1>6 DEF Spoken, P

(* Predicates of one key.                                                  *)
KeysOf(used) == {u.signature.key : u \in used}

(* When the check of _single_key passes, all predicates have one key.      *)
LEMMA OneKey ==
  ASSUME NEW used, IsFiniteSet(used), SingleKey(used)
  PROVE  used # {} /\ \A u, v \in used : u.signature.key = v.signature.key
<1> DEFINE f == [u \in used |-> u.signature.key]
           R == KeysOf(used)
<1>1. f \in Surjection(used, R)
  BY DEF Surjection, KeysOf
<1>2. IsFiniteSet(R)
  <2> HIDE DEF f, R
  <2> QED  BY <1>1, FS_Surjection
<1>3. Cardinality(R) = 1
  BY DEF SingleKey, KeysOf
<1>4. \E k : R = {k}
  <2> HIDE DEF R
  <2> QED  BY <1>2, <1>3, FS_Singleton
<1> QED  BY <1>4 DEF KeysOf

(* And predicates that have one key pass it.                               *)
LEMMA KeyIsOne ==
  ASSUME NEW used, used # {}, NEW k, \A u \in used : u.signature.key = k
  PROVE  SingleKey(used)
<1>1. {u.signature.key : u \in used} = {k}
  OBVIOUS
<1>2. Cardinality({k}) = 1
  BY FS_Singleton
<1> QED  BY <1>1, <1>2 DEF SingleKey

(* The readings of a scenario.                                             *)
OfKey(reg, sc, k) == {r \in Spoken(reg, sc) : r.signature.key = k}
IsReading(reg, sc, m) ==
  /\ \E u \in Spoken(reg, sc) : m \in MonitorsOver(OfKey(reg, sc, u.signature.key))
  /\ Cardinality(Written(m)) = Len(sc.steps)
  /\ Written(m) = ToSet(sc.steps)

(* The readings, said in other words.                                      *)
LEMMA ReadingsAre ==
  \A reg, sc, m : m \in Readings(reg, sc) <=> IsReading(reg, sc, m)
<1> SUFFICES ASSUME NEW reg, NEW sc, NEW m
             PROVE  m \in Readings(reg, sc) <=> IsReading(reg, sc, m)
  OBVIOUS
<1> DEFINE S == Spoken(reg, sc)
           Over(k) == MonitorsOver({r \in S : r.signature.key = k})
           K == {r.signature.key : r \in S}
           M == UNION {Over(k) : k \in K}
           W(x) == Cardinality(Written(x)) = Len(sc.steps) /\ Written(x) = ToSet(sc.steps)
<1>1. Readings(reg, sc) = {x \in M : W(x)}
  BY DEF Readings
<1>2. m \in M <=> \E u \in S : m \in Over(u.signature.key)
  <2> HIDE DEF Over, S
  <2> QED  OBVIOUS
<1> HIDE DEF M
<1>3. m \in Readings(reg, sc) <=> (\E u \in S : m \in Over(u.signature.key)) /\ W(m)
  BY <1>1, <1>2
<1> QED  BY <1>3, Zenon DEF IsReading, OfKey

(* What a policy promises of the scenario it was compiled from.            *)
AsWritten(reg, sc, p) ==
  /\ p.monitor \in Readings(reg, sc)
  /\ p.id = sc.name
  /\ sc.steps[p.failing].type = "then"
  /\ p.uses = {r.step : r \in Predicates(p.monitor)}
  /\ p.types = {r.signature.type : r \in Predicates(p.monitor)}
  /\ \A r \in Predicates(p.monitor) : r.signature.key = p.key
  /\ p.deadline <=> p.monitor.kind = "within"

(* The line that a policy names as failing is the Then.                    *)
LEMMA FailingIs ==
  ASSUME NEW sc, NEW g, NEW w, NEW h, h # <<>>, ToSet(sc.steps) = There(g, w, h)
  PROVE  sc.steps[CHOOSE i \in DOMAIN sc.steps : sc.steps[i] = Line("then", h)].type = "then"
<1>1. Line("then", h) \in There(g, w, h) /\ Line("then", h).type = "then"
  BY DEF There, Line
<1>2. PICK i \in DOMAIN sc.steps : sc.steps[i] = Line("then", h)
  BY <1>1 DEF ToSet
<1>3. sc.steps[CHOOSE j \in DOMAIN sc.steps : sc.steps[j] = Line("then", h)] = Line("then", h)
  BY <1>2
<1> QED  BY <1>1, <1>3

(* It keeps that promise.                                                  *)
LEMMA CompiledIs ==
  ASSUME WindowsAreForms, NEW Word, NEW reg, Reads(reg, Word), NEW sc, IsScenario(sc, Word),
         NEW p \in CompileScenario(reg, sc)
  PROVE  AsWritten(reg, sc, p)
<1>1. PICK g, w, h \in Seq(Word) : h # <<>> /\ Shape3(sc, g, w, h)
  BY CompiledHasShape
<1>2. PICK o, t, r, s : Fits(reg, g, w, h, o, t, r, s) /\ p = Becomes(sc, h, o, t, r, s)
  BY <1>1, CompileIs
<1> DEFINE used == Used(t, r, s)
           m == MonitorOf(o, t, r, s)
<1>3. Builds(reg, g, w, h, o, used, m)
  BY <1>1, <1>2, FitsBuilds
<1>4. Layout(sc, g, w, h)
  BY <1>1, LaidOut
<1>5. /\ p.id = sc.name /\ p.monitor = m /\ p.key = (CHOOSE u \in used : TRUE).signature.key
      /\ p.types = {u.signature.type : u \in used} /\ p.uses = {u.step : u \in used}
      /\ p.deadline = (o \in DOMAIN Window)
      /\ p.failing = CHOOSE i \in DOMAIN sc.steps : sc.steps[i] = Line("then", h)
  BY <1>2 DEF Becomes
<1>6. SingleKey(used)
  BY <1>2 DEF Fits
<1> HIDE DEF used, m
<1>7. /\ Predicates(m) = used /\ Written(m) = There(g, w, h)
      /\ \A P : used \subseteq P => m \in MonitorsOver(P)
      /\ FromParts(reg, g, w, h, used)
      /\ o \in DOMAIN Window <=> m.kind = "within"
  BY <1>3 DEF Builds, Means
<1>8. used # {} /\ \A u, v \in used : u.signature.key = v.signature.key
  <2>1. IsFiniteSet(used)
    BY <1>7 DEF FromParts
  <2> QED  BY <1>6, <2>1, OneKey
<1>9. ToSet(sc.steps) = There(g, w, h) /\ Len(sc.steps) = Number(g) + Number(w) + Number(h)
  BY <1>4 DEF Layout
<1>10. used \subseteq Spoken(reg, sc)
  BY <1>7, <1>9, SpokenAre
<1>11. Cardinality(Written(m)) = Len(sc.steps) /\ Written(m) = ToSet(sc.steps)
  BY <1>7, <1>9, ThereAre
<1>12. IsReading(reg, sc, m)
  <2>1. PICK u \in used : TRUE
    BY <1>8
  <2>2. used \subseteq OfKey(reg, sc, u.signature.key)
    BY <1>8, <1>10 DEF OfKey
  <2>3. m \in MonitorsOver(OfKey(reg, sc, u.signature.key))
    BY <1>7, <2>2
  <2> QED  BY <1>10, <1>11, <2>3 DEF IsReading
<1>13. m \in Readings(reg, sc)
  BY <1>12, ReadingsAre
<1>14. \A u \in used : u.signature.key = (CHOOSE v \in used : TRUE).signature.key
  BY <1>8
<1>15. sc.steps[p.failing].type = "then"
  <2>1. sc.steps[CHOOSE i \in DOMAIN sc.steps : sc.steps[i] = Line("then", h)].type = "then"
    BY <1>1, <1>9, FailingIs
  <2> QED  BY <1>5, <2>1
<1> QED  BY <1>5, <1>7, <1>13, <1>14, <1>15 DEF AsWritten

(* One scenario compiles to at most one policy.                            *)
LEMMA CompiledIsOne ==
  ASSUME NEW Word, NEW reg, NEW sc, IsScenario(sc, Word),
         NEW p \in CompileScenario(reg, sc), NEW q \in CompileScenario(reg, sc)
  PROVE  p = q
<1>1. PICK g, w, h \in Seq(Word) : h # <<>> /\ Shape3(sc, g, w, h)
  BY CompiledHasShape
<1>2. PICK o, t, r, s : Fits(reg, g, w, h, o, t, r, s) /\ p = Becomes(sc, h, o, t, r, s)
  BY <1>1, CompileIs
<1>3. PICK oo, tt, rr, ss : Fits(reg, g, w, h, oo, tt, rr, ss) /\ q = Becomes(sc, h, oo, tt, rr, ss)
  BY <1>1, CompileIs
<1>4. \A x, y \in Operator(h) : x = y
  BY DEF Operator
<1>5. \A texts : \A x, y \in ResolveEach(reg, texts) : x = y
  BY DEF ResolveEach
<1>6. o = oo
  BY <1>2, <1>3, <1>4 DEF Fits
<1>7. t = tt /\ r = rr /\ s = ss
  BY <1>2, <1>3, <1>5, <1>6 DEF Fits
<1> QED  BY <1>2, <1>3, <1>6, <1>7

-----------------------------------------------------------------------------
(* Over a plain vocabulary: a predicate by the text that says it.          *)
Plainly(reg, Word, u) ==
  /\ Said(u) \in Seq(Word) /\ Said(u) # <<>> /\ Free(Said(u))
  /\ Clear(reg, Said(u)) /\ Meant(reg, Said(u)) = u /\ u # None

(* Over a plain vocabulary all the predicates of a scenario are such.      *)
LEMMA PlainlySpoken ==
  ASSUME NEW Word, NEW reg, Reads(reg, Word), Plain(reg), NEW sc, IsScenario(sc, Word)
  PROVE  \A u \in Spoken(reg, sc) : Plainly(reg, Word, u)
<1> SUFFICES ASSUME NEW u \in Spoken(reg, sc)  PROVE Plainly(reg, Word, u)
  OBVIOUS
<1>1. PICK s \in ToSet(sc.steps) : \E x \in Parts(s.text) : Cardinality(Resolve(reg, x)) = 1 /\ u \in Resolve(reg, x)
  BY DEF Spoken
<1>2. PICK x \in Parts(s.text) : Clear(reg, x) /\ u \in Resolve(reg, x)
  BY <1>1 DEF Clear
<1>3. s.text \in Seq(Word)
  <2>1. s \in Lines(Word)
    BY DEF IsScenario, ToSet
  <2> QED  BY <2>1 DEF Lines
<1>4. x \in Seq(Word) \ {<<>>}
  BY <1>3, PartsAre
<1>5. /\ Resolve(reg, x) = {Meant(reg, x)} /\ Said(Meant(reg, x)) = x /\ Meant(reg, x) # None /\ Free(x)
  BY <1>2, <1>4 DEF Reads
<1>6. u = Meant(reg, x)
  BY <1>2, <1>5
<1> QED  BY <1>2, <1>4, <1>5, <1>6 DEF Plainly

(* What such a text resolves to.                                           *)
LEMMA EachSaid ==
  ASSUME NEW Word, NEW reg, NEW p, Plainly(reg, Word, p)
  PROVE  ResolveEach(reg, <<Said(p)>>) = {<<p>>}
<1> DEFINE a == Said(p)
<1>1. Clear(reg, a) /\ Meant(reg, a) = p
  BY DEF Plainly
<1> HIDE DEF a
<1>2. ResolveEach(reg, <<a>>) = IF Clear(reg, a) THEN {<<Meant(reg, a)>>} ELSE {}
  BY EachIs
<1> QED  BY <1>1, <1>2 DEF a

(* ... and two of them.                                                    *)
LEMMA EachSaidTwo ==
  ASSUME NEW Word, NEW reg
  PROVE  \A p, q : Plainly(reg, Word, p) /\ Plainly(reg, Word, q) =>
                    ResolveEach(reg, <<Said(p), Said(q)>>) = {<<p, q>>}
<1> SUFFICES ASSUME NEW p, NEW q, Plainly(reg, Word, p), Plainly(reg, Word, q)
             PROVE  ResolveEach(reg, <<Said(p), Said(q)>>) = {<<p, q>>}
  OBVIOUS
<1> DEFINE a == Said(p)
           b == Said(q)
<1>1. Clear(reg, a) /\ Meant(reg, a) = p /\ Clear(reg, b) /\ Meant(reg, b) = q
  BY DEF Plainly
<1> HIDE DEF a, b
<1>2. ResolveEach(reg, <<a, b>>) =
        IF Clear(reg, a) /\ Clear(reg, b) THEN {<<Meant(reg, a), Meant(reg, b)>>} ELSE {}
  BY EachIs
<1> QED  BY <1>1, <1>2 DEF a, b

(* A text that ends in a form.                                             *)
EndsAs(h, o, a) == Operator(h) = {o} /\ Operands(o, h) = <<a>> /\ h # <<>>

(* A form that is tried first.                                             *)
LEMMA EarlyEnd ==
  ASSUME NEW Word, FormWords \subseteq Word, NEW a \in Seq(Word), a # <<>>, NEW o \in Early
  PROVE  EndsAs(a \o <<o>>, o, a) /\ a \o <<o>> \in Seq(Word)
<1> DEFINE h == a \o <<o>>
<1>1. o \in Word /\ o # "since"
  BY DEF FormWords, SelfContained, Early
<1>2. h \in Seq(Word) /\ h # <<>> /\ Len(h) > 1 /\ Last(h) = o /\ Front(h) = a
  BY <1>1, EndIs
<1> HIDE DEF h
<1>3. Operator(h) = {o} /\ Operands(o, h) = <<a>>
  BY <1>1, <1>2 DEF Operator, Operands, EndsIn
<1> QED  BY <1>2, <1>3 DEF EndsAs, h

(* A form that is tried last: neither of the others is in the way.         *)
LEMMA LateEnd ==
  ASSUME NEW Word, FormWords \subseteq Word, WindowsAreForms, NEW a \in Seq(Word), a # <<>>, Free(a), NEW o \in Late
  PROVE  EndsAs(a \o <<o>>, o, a) /\ a \o <<o>> \in Seq(Word)
<1> DEFINE h == a \o <<o>>
<1>1. o \in Word /\ o # "since" /\ o \notin Early /\ "since" \in FormWords
  BY DEF FormWords, SelfContained, Early, Late, WindowsAreForms
<1>2. h \in Seq(Word) /\ h # <<>> /\ Len(h) > 1 /\ Last(h) = o /\ Front(h) = a
  BY <1>1, EndIs
<1>3. Cuts(h, "since") = {}
  <2>1. \A i \in DOMAIN a : a[i] # "since"
    BY <1>1 DEF Free
  <2> QED  BY <1>1, <2>1, Uncut
<1> HIDE DEF h
<1>4. Operator(h) = {o} /\ Operands(o, h) = <<a>>
  BY <1>1, <1>2, <1>3 DEF Operator, Operands, EndsIn
<1> QED  BY <1>2, <1>4 DEF EndsAs, h

(* Two texts with a since between them.                                    *)
LEMMA SinceCut ==
  ASSUME NEW Word, FormWords \subseteq Word, NEW a \in Seq(Word), a # <<>>, Free(a),
         NEW b \in Seq(Word), b # <<>>, Free(b)
  PROVE  LET h == (a \o <<"since">>) \o b
         IN h \in Seq(Word) /\ h # <<>> /\ Operator(h) = {"since"} /\ Operands("since", h) = <<a, b>>
<1> DEFINE h == (a \o <<"since">>) \o b
<1>1. "since" \in Word /\ "since" \in FormWords /\ Early \subseteq FormWords
  BY DEF FormWords, SelfContained
<1>2. \A i \in DOMAIN a : a[i] # "since"
  BY <1>1 DEF Free
<1>3. h \in Seq(Word) /\ Cuts(h, "since") # {} /\ SplitAt(h, "since") = <<a, b>> /\ Len(h) > 1 /\ Last(h) = Last(b)
  BY <1>1, <1>2, CutIs
<1>4. Last(b) \notin Early
  <2>1. Len(b) \in DOMAIN b
    OBVIOUS
  <2> QED  BY <1>1, <2>1 DEF Last, Free
<1>5. h # <<>>
  BY <1>3
<1> HIDE DEF h
<1>6. Operator(h) = {"since"} /\ Operands("since", h) = <<a, b>>
  BY <1>3, <1>4 DEF Operator, Operands, EndsIn
<1> QED  BY <1>3, <1>5, <1>6 DEF h

(* The texts of a Given.                                                   *)
LEMMA UntilCut ==
  ASSUME NEW Word, FormWords \subseteq Word, NEW a \in Seq(Word), a # <<>>, Free(a)
  PROVE  /\ ScopeTexts(a) = <<a>>
         /\ \A b \in Seq(Word) : b # <<>> =>
              LET g == (a \o <<"until">>) \o b IN g \in Seq(Word) /\ g # <<>> /\ ScopeTexts(g) = <<a, b>>
<1>1. "until" \in Word /\ \A i \in DOMAIN a : a[i] # "until"
  BY DEF FormWords, Free
<1>2. ScopeTexts(a) = <<a>>
  BY <1>1, Uncut DEF ScopeTexts
<1>3. ASSUME NEW b \in Seq(Word), b # <<>>
      PROVE  LET g == (a \o <<"until">>) \o b IN g \in Seq(Word) /\ g # <<>> /\ ScopeTexts(g) = <<a, b>>
  <2> DEFINE g == (a \o <<"until">>) \o b
  <2>1. g \in Seq(Word) /\ Cuts(g, "until") # {} /\ SplitAt(g, "until") = <<a, b>> /\ Len(g) > 1
    BY <1>1, <1>3, CutIs
  <2>2. g # <<>>
    BY <2>1
  <2> HIDE DEF g
  <2>3. ScopeTexts(g) = <<a, b>>
    BY <2>1 DEF ScopeTexts
  <2> QED  BY <2>1, <2>2, <2>3 DEF g
<1> QED  BY <1>2, <1>3

-----------------------------------------------------------------------------
(* What fits, by what is there.                                            *)
LEMMA FitsAlone ==
  ASSUME WindowsAreForms, NEW reg, NEW h, NEW o \in SelfContained, Operator(h) = {o},
         NEW r, ResolveEach(reg, Operands(o, h)) = {r}, SingleKey(Used(<<>>, r, <<>>))
  PROVE  Fits(reg, <<>>, <<>>, h, o, <<>>, r, <<>>)
<1>1. o \notin DOMAIN Window
  BY DEF WindowsAreForms
<1>2. ResolveEach(reg, <<>>) = {<<>>}
  BY EachIs
<1> QED  BY <1>1, <1>2 DEF Fits, Single

(* ... with a Given,                                                       *)
LEMMA FitsGiven ==
  ASSUME WindowsAreForms, NEW reg, NEW h, Operator(h) = {"never happens"},
         NEW r, ResolveEach(reg, Operands("never happens", h)) = {r},
         NEW g, g # <<>>, NEW s, ResolveEach(reg, ScopeTexts(g)) = {s}, SingleKey(Used(<<>>, r, s))
  PROVE  Fits(reg, g, <<>>, h, "never happens", <<>>, r, s)
<1>1. "never happens" \notin DOMAIN Window /\ "never happens" \in SelfContained
  BY NoWindow DEF SelfContained, Early
<1>2. ResolveEach(reg, <<>>) = {<<>>}
  BY EachIs
<1> QED  BY <1>1, <1>2 DEF Fits, Single

(* ... and with a When.                                                    *)
LEMMA FitsWhen ==
  ASSUME WindowsAreForms, NEW reg, NEW h, NEW o \in Late, o \in DOMAIN Window => Window[o] # Infinite,
         Operator(h) = {o}, NEW r, ResolveEach(reg, Operands(o, h)) = {r},
         NEW w, w # <<>>, NEW t, ResolveEach(reg, <<w>>) = {t}, SingleKey(Used(t, r, <<>>))
  PROVE  Fits(reg, <<>>, w, h, o, t, r, <<>>)
<1>1. o \notin SelfContained
  BY DEF WindowsAreForms, SelfContained, Early, Late
<1>2. ResolveEach(reg, <<>>) = {<<>>}
  BY EachIs
<1> QED  BY <1>1, <1>2 DEF Fits, Single

(* A monitor that some lines compile to, and these lines.                  *)
Compiles(reg, g, w, h, m) == \E o, t, r, s : Fits(reg, g, w, h, o, t, r, s) /\ m = MonitorOf(o, t, r, s)
Yields(reg, Word, m) ==
  \E g, w, h \in Seq(Word) : h # <<>> /\ Written(m) = There(g, w, h) /\ Compiles(reg, g, w, h, m)

(* The predicates of one key that plain texts say.                         *)
PlainKey(reg, Word, P, k) == \A u \in P : Plainly(reg, Word, u) /\ u.signature.key = k

(* No words are a text.                                                    *)
LEMMA NoText == \A T : <<>> \in Seq(T)
OBVIOUS

(* Never without a scope, once and historically can be written and are     *)
(* compiled.                                                               *)
LEMMA EarlyYields ==
  ASSUME WindowsAreForms, NEW Word, FormWords \subseteq Word, NEW reg, NEW P, NEW k, PlainKey(reg, Word, P, k),
         NEW p \in P, NEW o \in Early, NEW m,
         Written(m) = {Line("then", Said(p) \o <<o>>)}, MonitorOf(o, <<>>, <<p>>, <<>>) = m
  PROVE  Yields(reg, Word, m)
<1> DEFINE a == Said(p)
           h == a \o <<o>>
<1>1. a \in Seq(Word) /\ a # <<>> /\ p.signature.key = k /\ Plainly(reg, Word, p)
  BY DEF PlainKey, Plainly
<1>2. ResolveEach(reg, <<a>>) = {<<p>>}
  BY <1>1, EachSaid
<1>3. Written(m) = {Line("then", h)}
  OBVIOUS
<1> HIDE DEF a
<1>4. h \in Seq(Word) /\ Operator(h) = {o} /\ Operands(o, h) = <<a>> /\ h # <<>>
  <2>1. EndsAs(a \o <<o>>, o, a) /\ a \o <<o>> \in Seq(Word)
    BY <1>1, EarlyEnd
  <2> QED  BY <2>1 DEF EndsAs
<1> HIDE DEF h
<1>5. SingleKey(Used(<<>>, <<p>>, <<>>))
  <2>1. Used(<<>>, <<p>>, <<>>) = {p}
    BY UsedOne
  <2>2. SingleKey({p})
    BY <1>1, KeyIsOne
  <2> QED  BY <2>1, <2>2
<1>6. Fits(reg, <<>>, <<>>, h, o, <<>>, <<p>>, <<>>)
  <2>1. o \in SelfContained
    BY DEF SelfContained
  <2>2. ResolveEach(reg, Operands(o, h)) = {<<p>>}
    BY <1>2, <1>4
  <2> QED  BY <1>4, <1>5, <2>1, <2>2, FitsAlone
<1>7. There(<<>>, <<>>, h) = {Line("then", h)}
  BY <1>4, AloneThere
<1>8. <<>> \in Seq(Word)
  BY NoText
<1>9. Compiles(reg, <<>>, <<>>, h, m)
  BY <1>6 DEF Compiles
<1> QED  BY <1>3, <1>4, <1>7, <1>8, <1>9 DEF Yields

(* So can since,                                                           *)
LEMMA SinceYields ==
  ASSUME WindowsAreForms, NEW Word, FormWords \subseteq Word, NEW reg, NEW P, NEW k, PlainKey(reg, Word, P, k),
         NEW p \in P, NEW q \in P, NEW m,
         Written(m) = {Line("then", (Said(p) \o <<"since">>) \o Said(q))}, MonitorOf("since", <<>>, <<p, q>>, <<>>) = m
  PROVE  Yields(reg, Word, m)
<1> DEFINE a == Said(p)
           b == Said(q)
           h == (a \o <<"since">>) \o b
<1>1. /\ a \in Seq(Word) /\ a # <<>> /\ p.signature.key = k /\ Plainly(reg, Word, p) /\ Free(a)
      /\ b \in Seq(Word) /\ b # <<>> /\ q.signature.key = k /\ Plainly(reg, Word, q) /\ Free(b)
  BY DEF PlainKey, Plainly
<1>2. ResolveEach(reg, <<a, b>>) = {<<p, q>>}
  BY <1>1, EachSaidTwo
<1>3. Written(m) = {Line("then", h)}
  OBVIOUS
<1> HIDE DEF a, b
<1>4. h \in Seq(Word) /\ Operator(h) = {"since"} /\ Operands("since", h) = <<a, b>> /\ h # <<>>
  BY <1>1, SinceCut
<1> HIDE DEF h
<1>5. SingleKey(Used(<<>>, <<p, q>>, <<>>))
  <2>1. Used(<<>>, <<p, q>>, <<>>) = {p, q}
    BY UsedTwo
  <2>2. SingleKey({p, q})
    BY <1>1, KeyIsOne
  <2> QED  BY <2>1, <2>2
<1>6. Fits(reg, <<>>, <<>>, h, "since", <<>>, <<p, q>>, <<>>)
  <2>1. "since" \in SelfContained
    BY DEF SelfContained
  <2>2. ResolveEach(reg, Operands("since", h)) = {<<p, q>>}
    BY <1>2, <1>4
  <2> QED  BY <1>4, <1>5, <2>1, <2>2, FitsAlone
<1>7. There(<<>>, <<>>, h) = {Line("then", h)}
  BY <1>4, AloneThere
<1>8. <<>> \in Seq(Word)
  BY NoText
<1>9. Compiles(reg, <<>>, <<>>, h, m)
  BY <1>6 DEF Compiles
<1> QED  BY <1>3, <1>4, <1>7, <1>8, <1>9 DEF Yields

(* ... within, before and previously,                                      *)
LEMMA LateYields ==
  ASSUME WindowsAreForms, NEW Word, FormWords \subseteq Word, NEW reg, NEW P, NEW k, PlainKey(reg, Word, P, k),
         NEW p \in P, NEW q \in P, NEW o \in Late, o \in DOMAIN Window => Window[o] # Infinite, NEW m,
         Written(m) = {Line("when", Said(q)), Line("then", Said(p) \o <<o>>)}, MonitorOf(o, <<q>>, <<p>>, <<>>) = m
  PROVE  Yields(reg, Word, m)
<1> DEFINE a == Said(p)
           w == Said(q)
           h == a \o <<o>>
<1>1. /\ a \in Seq(Word) /\ a # <<>> /\ p.signature.key = k /\ Plainly(reg, Word, p) /\ Free(a)
      /\ w \in Seq(Word) /\ w # <<>> /\ q.signature.key = k /\ Plainly(reg, Word, q)
  BY DEF PlainKey, Plainly
<1>2. ResolveEach(reg, <<a>>) = {<<p>>} /\ ResolveEach(reg, <<w>>) = {<<q>>}
  BY <1>1, EachSaid
<1>3. Written(m) = {Line("when", w), Line("then", h)}
  OBVIOUS
<1> HIDE DEF a, w
<1>4. h \in Seq(Word) /\ Operator(h) = {o} /\ Operands(o, h) = <<a>> /\ h # <<>>
  <2>1. EndsAs(a \o <<o>>, o, a) /\ a \o <<o>> \in Seq(Word)
    BY <1>1, LateEnd
  <2> QED  BY <2>1 DEF EndsAs
<1> HIDE DEF h
<1>5. SingleKey(Used(<<q>>, <<p>>, <<>>))
  <2>1. Used(<<q>>, <<p>>, <<>>) = {p, q}
    BY UsedTwo
  <2>2. SingleKey({p, q})
    BY <1>1, KeyIsOne
  <2> QED  BY <2>1, <2>2
<1>6. Fits(reg, <<>>, w, h, o, <<q>>, <<p>>, <<>>)
  <2>1. ResolveEach(reg, Operands(o, h)) = {<<p>>}
    BY <1>2, <1>4
  <2> QED  BY <1>1, <1>2, <1>4, <1>5, <2>1, FitsWhen
<1>7. There(<<>>, w, h) = {Line("when", w), Line("then", h)}
  BY <1>1, <1>4, WhenThere
<1>8. <<>> \in Seq(Word)
  BY NoText
<1>9. Compiles(reg, <<>>, w, h, m)
  BY <1>6 DEF Compiles
<1> QED  BY <1>1, <1>3, <1>4, <1>7, <1>8, <1>9 DEF Yields

(* Never in a scope: the text of the Given, and what it resolves to.       *)
LEMMA GivenYields ==
  ASSUME WindowsAreForms, NEW Word, FormWords \subseteq Word, NEW reg, NEW k,
         NEW p, Plainly(reg, Word, p), p.signature.key = k,
         NEW g \in Seq(Word), g # <<>>, NEW s, ResolveEach(reg, ScopeTexts(g)) = {s},
         SingleKey(Used(<<>>, <<p>>, s)), NEW m,
         Written(m) = {Line("given", g), Line("then", Said(p) \o <<"never happens">>)},
         MonitorOf("never happens", <<>>, <<p>>, s) = m
  PROVE  Yields(reg, Word, m)
<1> DEFINE a == Said(p)
           o == "never happens"
           h == a \o <<o>>
<1>1. a \in Seq(Word) /\ a # <<>>
  BY DEF Plainly
<1>2. ResolveEach(reg, <<a>>) = {<<p>>}
  BY <1>1, EachSaid
<1>3. Written(m) = {Line("given", g), Line("then", h)}
  OBVIOUS
<1> HIDE DEF a
<1>4. h \in Seq(Word) /\ Operator(h) = {o} /\ Operands(o, h) = <<a>> /\ h # <<>>
  <2>1. EndsAs(a \o <<"never happens">>, "never happens", a) /\ a \o <<"never happens">> \in Seq(Word)
    <3>1. "never happens" \in Early
      BY DEF Early
    <3> QED  BY <1>1, <3>1, EarlyEnd
  <2> QED  BY <2>1 DEF EndsAs
<1> HIDE DEF h
<1>5. Fits(reg, g, <<>>, h, o, <<>>, <<p>>, s)
  <2>1. ResolveEach(reg, Operands(o, h)) = {<<p>>}
    BY <1>2, <1>4
  <2> QED  BY <1>4, <2>1, FitsGiven
<1>6. There(g, <<>>, h) = {Line("given", g), Line("then", h)}
  BY <1>4, GivenThere
<1>7. <<>> \in Seq(Word)
  BY NoText
<1>8. Compiles(reg, g, <<>>, h, m)
  BY <1>5 DEF Compiles
<1> QED  BY <1>3, <1>4, <1>6, <1>7, <1>8 DEF Yields

(* ... and never in a scope.                                               *)
LEMMA ScopedYields ==
  ASSUME WindowsAreForms, NEW Word, FormWords \subseteq Word, NEW reg, NEW P, NEW k, PlainKey(reg, Word, P, k),
         NEW p \in P, NEW q \in P, NEW c \in P \cup {None}, NEW m,
         Written(m) = {Line("given", IF c = None THEN Said(q) ELSE (Said(q) \o <<"until">>) \o Said(c)),
                       Line("then", Said(p) \o <<"never happens">>)},
         c = None => MonitorOf("never happens", <<>>, <<p>>, <<q>>) = m,
         c # None => MonitorOf("never happens", <<>>, <<p>>, <<q, c>>) = m
  PROVE  Yields(reg, Word, m)
<1>1. /\ Plainly(reg, Word, p) /\ p.signature.key = k
      /\ Plainly(reg, Word, q) /\ q.signature.key = k
      /\ c # None => Plainly(reg, Word, c) /\ c.signature.key = k
  BY DEF PlainKey
<1>2. Said(q) \in Seq(Word) /\ Said(q) # <<>> /\ Free(Said(q))
  BY <1>1 DEF Plainly
<1>3. CASE c = None
  <2> DEFINE g == Said(q)
  <2>1. ScopeTexts(g) = <<g>>
    BY <1>2, UntilCut
  <2>2. ResolveEach(reg, <<Said(q)>>) = {<<q>>}
    BY <1>1, EachSaid
  <2>3. SingleKey(Used(<<>>, <<p>>, <<q>>))
    <3>1. Used(<<>>, <<p>>, <<q>>) = {p, q}
      BY UsedTwo
    <3>2. SingleKey({p, q})
      BY <1>1, KeyIsOne
    <3> QED  BY <3>1, <3>2
  <2>4. /\ ResolveEach(reg, ScopeTexts(g)) = {<<q>>}
        /\ Written(m) = {Line("given", g), Line("then", Said(p) \o <<"never happens">>)}
    BY <1>3, <2>1, <2>2
  <2>5. MonitorOf("never happens", <<>>, <<p>>, <<q>>) = m
    BY <1>3
  <2> HIDE DEF g
  <2>6. g \in Seq(Word) /\ g # <<>>
    BY <1>2 DEF g
  <2> QED  BY <1>1, <2>3, <2>4, <2>5, <2>6, GivenYields
<1>4. CASE c # None
  <2> DEFINE g == (Said(q) \o <<"until">>) \o Said(c)
  <2>1. Said(c) \in Seq(Word) /\ Said(c) # <<>>
    BY <1>1, <1>4 DEF Plainly
  <2>2. g \in Seq(Word) /\ g # <<>> /\ ScopeTexts(g) = <<Said(q), Said(c)>>
    BY <1>2, <2>1, UntilCut
  <2>3. ResolveEach(reg, <<Said(q), Said(c)>>) = {<<q, c>>}
    <3>1. Plainly(reg, Word, q) /\ Plainly(reg, Word, c)
      BY <1>1, <1>4
    <3> HIDE DEF g
    <3> QED  BY ONLY <3>1, EachSaidTwo
  <2>4. SingleKey(Used(<<>>, <<p>>, <<q, c>>))
    <3>1. Used(<<>>, <<p>>, <<q, c>>) = {p, q, c}
      BY UsedThree
    <3>2. SingleKey({p, q, c})
      BY <1>1, <1>4, KeyIsOne
    <3> QED  BY <3>1, <3>2
  <2>5. /\ ResolveEach(reg, ScopeTexts(g)) = {<<q, c>>}
        /\ Written(m) = {Line("given", g), Line("then", Said(p) \o <<"never happens">>)}
    BY <1>4, <2>2, <2>3
  <2>6. MonitorOf("never happens", <<>>, <<p>>, <<q, c>>) = m
    BY <1>4
  <2> HIDE DEF g
  <2> QED  BY <1>1, <2>2, <2>4, <2>5, <2>6, GivenYields
<1> QED  BY <1>3, <1>4

-----------------------------------------------------------------------------
(* Every monitor over plain predicates of one key is what some lines       *)
(* compile to, and these are the lines it is written with.                 *)
LEMMA MonitorsAre ==
  ASSUME NEW P, NEW m \in MonitorsOver(P)
  PROVE  \/ \E p \in P : \/ m = [kind |-> "never", bad |-> p]
                         \/ m = [kind |-> "once", good |-> p]
                         \/ m = [kind |-> "historically", phi |-> p]
         \/ \E q, p \in P : \E c \in P \cup {None} : m = [kind |-> "scoped_never", open |-> q, close |-> c, bad |-> p]
         \/ \E p, q \in P : m = [kind |-> "since", phi |-> p, psi |-> q]
         \/ \E q, p \in P : \E o \in DOMAIN Window : /\ Window[o] # Infinite
              /\ m = [kind |-> "within", trigger |-> q, response |-> p, seconds |-> Window[o]]
         \/ \E k \in {"before", "previously"} : \E p, q \in P : m = [kind |-> k, prior |-> p, trigger |-> q]
<1> DEFINE N == {Window[w] : w \in DOMAIN Window} \ {Infinite}
           A == {[kind |-> "never", bad |-> p] : p \in P}
           B == {[kind |-> "scoped_never", open |-> o, close |-> c, bad |-> p] : o, p \in P, c \in P \cup {None}}
           C == {[kind |-> "once", good |-> p] : p \in P}
           D == {[kind |-> "historically", phi |-> p] : p \in P}
           E == {[kind |-> "since", phi |-> p, psi |-> q] : p, q \in P}
           F == {[kind |-> "within", trigger |-> p, response |-> q, seconds |-> n] : p, q \in P, n \in N}
           G == {[kind |-> k, prior |-> p, trigger |-> q] : k \in {"before", "previously"}, p, q \in P}
<1>1. m \in A \cup B \cup C \cup D \cup E \cup F \cup G
  BY DEF MonitorsOver
<1>2. m \in A => \E p \in P : m = [kind |-> "never", bad |-> p]
  OBVIOUS
<1>3. m \in C => \E p \in P : m = [kind |-> "once", good |-> p]
  OBVIOUS
<1>4. m \in D => \E p \in P : m = [kind |-> "historically", phi |-> p]
  OBVIOUS
<1>5. m \in B => \E q, p \in P : \E c \in P \cup {None} : m = [kind |-> "scoped_never", open |-> q, close |-> c, bad |-> p]
  OBVIOUS
<1>6. m \in E => \E p, q \in P : m = [kind |-> "since", phi |-> p, psi |-> q]
  OBVIOUS
<1>7. m \in F => \E q, p \in P : \E o \in DOMAIN Window : /\ Window[o] # Infinite
              /\ m = [kind |-> "within", trigger |-> q, response |-> p, seconds |-> Window[o]]
  <2> SUFFICES ASSUME m \in F
               PROVE  \E q, p \in P : \E o \in DOMAIN Window : /\ Window[o] # Infinite
                        /\ m = [kind |-> "within", trigger |-> q, response |-> p, seconds |-> Window[o]]
    OBVIOUS
  <2>1. \E q, p \in P : \E n \in N : m = [kind |-> "within", trigger |-> q, response |-> p, seconds |-> n]
    <3> HIDE DEF N
    <3> QED  OBVIOUS
  <2>2. \A n \in N : \E o \in DOMAIN Window : n = Window[o] /\ Window[o] # Infinite
    OBVIOUS
  <2> HIDE DEF N, F
  <2> QED  BY <2>1, <2>2
<1>8. m \in G => \E k \in {"before", "previously"} : \E p, q \in P : m = [kind |-> k, prior |-> p, trigger |-> q]
  OBVIOUS
<1> HIDE DEF A, B, C, D, E, F, G
<1>9. CASE m \in A
  BY <1>2, <1>9
<1>10. CASE m \in B
  BY <1>5, <1>10
<1>11. CASE m \in C
  BY <1>3, <1>11
<1>12. CASE m \in D
  BY <1>4, <1>12
<1>13. CASE m \in E
  BY <1>6, <1>13
<1>14. CASE m \in F
  BY <1>7, <1>14
<1>15. CASE m \in G
  BY <1>8, <1>15
<1> QED  BY <1>1, <1>9, <1>10, <1>11, <1>12, <1>13, <1>14, <1>15

(* So every monitor over plain predicates of one key can.                  *)
LEMMA MonitorYields ==
  ASSUME WindowsAreForms, NEW Word, FormWords \subseteq Word, NEW reg, NEW P, NEW k, PlainKey(reg, Word, P, k),
         NEW m \in MonitorsOver(P)
  PROVE  Yields(reg, Word, m)
<1>1. \A p \in P : p # None
  BY DEF PlainKey, Plainly
<1>2. ASSUME NEW p \in P, m = [kind |-> "never", bad |-> p]  PROVE Yields(reg, Word, m)
  <2>1. Written(m) = {Line("then", Said(p) \o <<"never happens">>)}
    BY <1>1, <1>2, NeverMeans DEF Means
  <2>2. MonitorOf("never happens", <<>>, <<p>>, <<>>) = m
    BY <1>2, NeverOf
  <2>3. "never happens" \in Early
    BY DEF Early
  <2> QED  BY <2>1, <2>2, <2>3, EarlyYields
<1>3. ASSUME NEW p \in P, m = [kind |-> "once", good |-> p]  PROVE Yields(reg, Word, m)
  <2>1. Written(m) = {Line("then", Said(p) \o <<"has happened">>)}
    BY <1>1, <1>3, OnceMeans DEF Means
  <2>2. MonitorOf("has happened", <<>>, <<p>>, <<>>) = m
    BY <1>3, OnceOf
  <2>3. "has happened" \in Early
    BY DEF Early
  <2> QED  BY <2>1, <2>2, <2>3, EarlyYields
<1>4. ASSUME NEW p \in P, m = [kind |-> "historically", phi |-> p]  PROVE Yields(reg, Word, m)
  <2>1. Written(m) = {Line("then", Said(p) \o <<"always holds">>)}
    BY <1>1, <1>4, HistoricallyMeans DEF Means
  <2>2. MonitorOf("always holds", <<>>, <<p>>, <<>>) = m
    BY <1>4, HistoricallyOf
  <2>3. "always holds" \in Early
    BY DEF Early
  <2> QED  BY <2>1, <2>2, <2>3, EarlyYields
<1>5. ASSUME NEW q \in P, NEW p \in P, NEW c \in P \cup {None},
             m = [kind |-> "scoped_never", open |-> q, close |-> c, bad |-> p]
      PROVE  Yields(reg, Word, m)
  <2>1. Written(m) = {Line("given", IF c = None THEN Said(q) ELSE (Said(q) \o <<"until">>) \o Said(c)),
                      Line("then", Said(p) \o <<"never happens">>)}
    BY <1>1, <1>5, ScopedMeans DEF Means
  <2>2. c = None => MonitorOf("never happens", <<>>, <<p>>, <<q>>) = m
    BY <1>5, ScopedOf
  <2>3. c # None => MonitorOf("never happens", <<>>, <<p>>, <<q, c>>) = m
    <3>1. ClosedAs(<<>>, p, q, c)
      BY ClosedOf
    <3> QED  BY <1>5, <3>1 DEF ClosedAs
  <2> QED  BY <2>1, <2>2, <2>3, ScopedYields
<1>6. ASSUME NEW p \in P, NEW q \in P, m = [kind |-> "since", phi |-> p, psi |-> q]  PROVE Yields(reg, Word, m)
  <2>1. Written(m) = {Line("then", (Said(p) \o <<"since">>) \o Said(q))}
    BY <1>1, <1>6, SinceMeans DEF Means
  <2>2. MonitorOf("since", <<>>, <<p, q>>, <<>>) = m
    BY <1>6, SinceOf
  <2> QED  BY <2>1, <2>2, SinceYields
<1>7. ASSUME NEW q \in P, NEW p \in P, NEW o \in DOMAIN Window, Window[o] # Infinite,
             m = [kind |-> "within", trigger |-> q, response |-> p, seconds |-> Window[o]]
      PROVE  Yields(reg, Word, m)
  <2>1. Written(m) = {Line("when", Said(q)), Line("then", Said(p) \o <<o>>)}
    BY <1>1, <1>7, WithinMeans DEF Means
  <2>2. MonitorOf(o, <<q>>, <<p>>, <<>>) = m
    BY <1>7, WithinOf
  <2>3. o \in Late
    BY DEF Late
  <2> QED  BY <1>7, <2>1, <2>2, <2>3, LateYields
<1>8. ASSUME NEW o \in {"before", "previously"}, NEW p \in P, NEW q \in P,
             m = [kind |-> o, prior |-> p, trigger |-> q]
      PROVE  Yields(reg, Word, m)
  <2>1. Written(m) = {Line("when", Said(q)), Line("then", Said(p) \o <<o>>)}
    BY <1>1, <1>8, PriorMeans DEF Means
  <2>2. MonitorOf(o, <<q>>, <<p>>, <<>>) = m
    BY <1>8, PriorOf
  <2>3. o \in Late /\ o \notin DOMAIN Window
    BY NoWindow DEF Late
  <2> QED  BY <2>1, <2>2, <2>3, LateYields
<1>9. CASE \E p \in P : \/ m = [kind |-> "never", bad |-> p]
                         \/ m = [kind |-> "once", good |-> p]
                         \/ m = [kind |-> "historically", phi |-> p]
  BY <1>2, <1>3, <1>4, <1>9
<1>10. CASE \E q, p \in P : \E c \in P \cup {None} : m = [kind |-> "scoped_never", open |-> q, close |-> c, bad |-> p]
  BY <1>5, <1>10
<1>11. CASE \E p, q \in P : m = [kind |-> "since", phi |-> p, psi |-> q]
  BY <1>6, <1>11
<1>12. CASE \E q, p \in P : \E o \in DOMAIN Window : /\ Window[o] # Infinite
              /\ m = [kind |-> "within", trigger |-> q, response |-> p, seconds |-> Window[o]]
  BY <1>7, <1>12
<1>13. CASE \E o \in {"before", "previously"} : \E p, q \in P : m = [kind |-> o, prior |-> p, trigger |-> q]
  BY <1>8, <1>13
<1> QED  BY <1>9, <1>10, <1>11, <1>12, <1>13, MonitorsAre

(* Over a plain vocabulary every reading of a scenario is what it compiles *)
(* to.                                                                     *)
LEMMA ReadingCompiles ==
  ASSUME WindowsAreForms, NEW Word, FormWords \subseteq Word, NEW reg, Reads(reg, Word), Plain(reg),
         NEW sc, IsScenario(sc, Word), NEW m \in Readings(reg, sc)
  PROVE  \E p \in CompileScenario(reg, sc) : p.monitor = m
<1>1. PICK u \in Spoken(reg, sc) : m \in MonitorsOver(OfKey(reg, sc, u.signature.key))
  BY ReadingsAre DEF IsReading
<1>2. Cardinality(Written(m)) = Len(sc.steps) /\ Written(m) = ToSet(sc.steps)
  BY ReadingsAre DEF IsReading
<1>3. PlainKey(reg, Word, OfKey(reg, sc, u.signature.key), u.signature.key)
  BY PlainlySpoken DEF PlainKey, OfKey
<1>4. Yields(reg, Word, m)
  BY <1>1, <1>3, MonitorYields
<1>5. PICK g, w, h \in Seq(Word) : h # <<>> /\ Written(m) = There(g, w, h) /\ Compiles(reg, g, w, h, m)
  BY <1>4 DEF Yields
<1>6. Layout(sc, g, w, h)
  BY <1>2, <1>5, ThereAre DEF Layout
<1>7. Shape3(sc, g, w, h)
  BY <1>6, LaidOut
<1>8. PICK o, t, r, s : Fits(reg, g, w, h, o, t, r, s) /\ m = MonitorOf(o, t, r, s)
  BY <1>5 DEF Compiles
<1>9. \A p : p \in CompileScenario(reg, sc) <=>
           \E oo, tt, rr, ss : Fits(reg, g, w, h, oo, tt, rr, ss) /\ p = Becomes(sc, h, oo, tt, rr, ss)
  BY <1>5, <1>7, CompileIs
<1>10. Becomes(sc, h, o, t, r, s) \in CompileScenario(reg, sc)
  BY <1>8, <1>9
<1>11. Becomes(sc, h, o, t, r, s).monitor = m
  BY <1>8 DEF Becomes
<1> QED  BY <1>10, <1>11

-----------------------------------------------------------------------------
(* All of the scenarios, or nothing.                                       *)
LEMMA FeatureIs ==
  ASSUME NEW reg, NEW f
  PROVE  /\ \A policies \in CompileFeature(reg, f) :
              DOMAIN policies = DOMAIN f /\ \A i \in DOMAIN f : policies[i] \in CompileScenario(reg, f[i])
         /\ CompileFeature(reg, f) = {} =>
              \/ \E i \in DOMAIN f : CompileScenario(reg, f[i]) = {}
              \/ \E i, j \in DOMAIN f : i # j /\ f[i].name = f[j].name
<1> DEFINE C(i) == CompileScenario(reg, f[i])
           all == [i \in DOMAIN f |-> CHOOSE p \in C(i) : TRUE]
           Refused == \/ \E i \in DOMAIN f : C(i) = {}
                      \/ \E i, j \in DOMAIN f : i # j /\ f[i].name = f[j].name
<1>1. CompileFeature(reg, f) = IF Refused THEN {} ELSE {all}
  BY DEF CompileFeature
<1> HIDE DEF C
<1>2. DOMAIN all = DOMAIN f /\ \A i \in DOMAIN f : C(i) # {} => all[i] \in C(i)
  OBVIOUS
<1> HIDE DEF all
<1>3. \A policies \in CompileFeature(reg, f) : policies = all /\ ~Refused
  BY <1>1
<1>4. \A policies \in CompileFeature(reg, f) :
        DOMAIN policies = DOMAIN f /\ \A i \in DOMAIN f : policies[i] \in C(i)
  BY <1>2, <1>3
<1>5. CompileFeature(reg, f) = {} => Refused
  BY <1>1
<1> QED  BY <1>4, <1>5 DEF C

(* What a command compiled, it compiled against the registry it has.       *)
FeaturesAreOf(Word) ==
  \A n \in Nat : \A c \in Command(n) : \A i \in DOMAIN c.feature : IsScenario(c.feature[i], Word)
CompiledInv(Word) ==
  /\ CommandInv
  /\ stage # "done" => \A i \in DOMAIN call.feature : IsScenario(call.feature[i], Word)
  /\ stage = "compiled" => outcome = CompileFeature(registry, call.feature)

(* Every step keeps to that.                                               *)
LEMMA CompiledKeeps ==
  ASSUME CommandsAreOf, NoneIsOther, NEW Word, FeaturesAreOf(Word), CompiledInv(Word), [CommandNext]_commandVars
  PROVE  CompiledInv(Word)'
<1> DEFINE Over(c) == \A i \in DOMAIN c.feature : IsScenario(c.feature[i], Word)
           Of(reg, c) == CompileFeature(reg, c.feature)
<1>1. CommandInv'
  BY CommandKeeps DEF CompiledInv
<1>2. (stage # "done" => Over(call)) /\ (stage = "compiled" => outcome = Of(registry, call))
  BY DEF CompiledInv
<1>3. calls + 1 \in Nat
  BY DEF CompiledInv, CommandInv
<1>4. \A c \in Command(calls + 1) : Over(c)
  BY <1>3 DEF FeaturesAreOf
<1>5. CompiledInv(Word)' <=> /\ CommandInv'
                             /\ stage' # "done" => Over(call')
                             /\ stage' = "compiled" => outcome' = Of(registry', call')
  BY DEF CompiledInv
<1> HIDE DEF Over, Of
<1>6. ASSUME NEW c \in Command(calls + 1), Call(c)  PROVE CompiledInv(Word)'
  <2>1. stage' = "begun" /\ call' = c
    BY <1>6 DEF Call
  <2> QED  BY <1>1, <1>4, <1>5, <2>1
<1>7. CASE LoadSteps
  <2>1. stage = "begun" /\ stage' \in {"loaded", "done"} /\ call' = call
    BY <1>7 DEF LoadSteps
  <2> QED  BY <1>1, <1>2, <1>5, <2>1
<1>8. CASE Compile
  <2>1. stage = "loaded" /\ stage' = "compiled" /\ call' = call /\ registry' = registry /\ outcome' = Of(registry, call)
    BY <1>8 DEF Compile, Of
  <2> QED  BY <1>1, <1>2, <1>5, <2>1
<1>9. CASE FinishRun
  <2>1. stage' = "done"
    BY <1>9 DEF FinishRun
  <2> QED  BY <1>1, <1>5, <2>1
<1>10. CASE FinishCatalog
  <2>1. stage' = "done"
    BY <1>10 DEF FinishCatalog
  <2> QED  BY <1>1, <1>5, <2>1
<1>11. CASE UNCHANGED commandVars
  <2>1. stage' = stage /\ call' = call /\ registry' = registry /\ outcome' = outcome
    BY <1>11 DEF commandVars
  <2> QED  BY <1>1, <1>2, <1>5, <2>1
<1> QED  BY <1>6, <1>7, <1>8, <1>9, <1>10, <1>11 DEF CommandNext

(* A policy that compiled is the written form of the monitor that will     *)
(* run, and its marks are the monitor's; over a plain vocabulary the       *)
(* scenario is the form of no other monitor, and a file is refused only    *)
(* when one of its scenarios is the form of none or two have one name      *)
(* (compiler.compile_scenario and compile_feature).                        *)
THEOREM ScenariosCompileAsWritten ==
  ASSUME CommandsAreOf, NoneIsOther, NEW Word, PhrasingsAreOf(Word), FeaturesAreOf(Word), WindowsAreForms
  PROVE  CommandSpec => []CompiledAsWritten
<1>1. CommandInit => CompiledInv(Word)
  <2> SUFFICES ASSUME CommandInit  PROVE CompiledInv(Word)
    OBVIOUS
  <2>1. CommandInv
    BY EmptyIs DEF CommandInit, CommandInv
  <2> QED  BY <2>1 DEF CommandInit, CompiledInv
<1>2. CompiledInv(Word) /\ [CommandNext]_commandVars => CompiledInv(Word)'
  BY CompiledKeeps
<1>3. CompiledInv(Word) => CompiledAsWritten
  <2> SUFFICES ASSUME CompiledInv(Word), stage = "compiled"  PROVE CompiledAsWritten
    BY DEF CompiledAsWritten
  <2> DEFINE f == call.feature
             reg == registry
  <2>1. outcome = CompileFeature(reg, f) /\ \A i \in DOMAIN f : IsScenario(f[i], Word)
    BY DEF CompiledInv
  <2>2. Sound(reg)
    BY DEF CompiledInv, CommandInv
  <2> HIDE DEF reg, f
  <2>3. Reads(reg, Word)
    BY <2>2, ReadsIs
  <2>4. FormWords \subseteq Word
    BY DEF PhrasingsAreOf
  <2>5. ASSUME NEW policies \in outcome, NEW i \in DOMAIN policies
        PROVE  /\ AsWritten(reg, f[i], policies[i])
               /\ Plain(reg) => Readings(reg, f[i]) = {policies[i].monitor}
    <3>1. i \in DOMAIN f /\ policies[i] \in CompileScenario(reg, f[i])
      BY <2>1, FeatureIs
    <3>2. IsScenario(f[i], Word)
      BY <2>1, <3>1
    <3>3. AsWritten(reg, f[i], policies[i])
      BY <2>3, <3>1, <3>2, CompiledIs
    <3>4. ASSUME Plain(reg), NEW m \in Readings(reg, f[i])  PROVE m = policies[i].monitor
      <4>1. PICK p \in CompileScenario(reg, f[i]) : p.monitor = m
        BY <2>3, <2>4, <3>2, <3>4, ReadingCompiles
      <4>2. p = policies[i]
        BY <3>1, <3>2, CompiledIsOne
      <4> QED  BY <4>1, <4>2
    <3>5. policies[i].monitor \in Readings(reg, f[i])
      BY <3>3 DEF AsWritten
    <3> QED  BY <3>3, <3>4, <3>5
  <2>6. ASSUME outcome = {}, Plain(reg)
        PROVE  \/ \E i \in DOMAIN f : Readings(reg, f[i]) = {}
               \/ \E i, j \in DOMAIN f : i # j /\ f[i].name = f[j].name
    <3>1. \/ \E i \in DOMAIN f : CompileScenario(reg, f[i]) = {}
          \/ \E i, j \in DOMAIN f : i # j /\ f[i].name = f[j].name
      BY <2>1, <2>6, FeatureIs
    <3>2. ASSUME NEW i \in DOMAIN f, CompileScenario(reg, f[i]) = {}  PROVE Readings(reg, f[i]) = {}
      <4>1. IsScenario(f[i], Word)
        BY <2>1
      <4>2. \A m \in Readings(reg, f[i]) : \E p \in CompileScenario(reg, f[i]) : p.monitor = m
        BY <2>3, <2>4, <2>6, <4>1, ReadingCompiles
      <4> QED  BY <3>2, <4>2
    <3> QED  BY <3>1, <3>2
  <2> QED  BY <2>5, <2>6 DEF CompiledAsWritten, AsWritten, reg, f
<1> QED  BY <1>1, <1>2, <1>3, PTL DEF CommandSpec
=============================================================================
