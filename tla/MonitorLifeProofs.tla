------------------------- MODULE MonitorLifeProofs -------------------------
(***************************************************************************)
(* Every policy and every lifetime of a monitor.                           *)
(*                                                                         *)
(* First the type invariant, and that a monitor concludes at most once:    *)
(* the inductive invariant IInv adds to TypeOK that only a within policy   *)
(* has a deadline and that whoever has reported is settled; FinalOnce      *)
(* follows because a settled monitor stays quiet.                          *)
(*                                                                         *)
(* Then that the automaton computes the operator: what an unsettled        *)
(* monitor knows (Knows) is a summary of the trace that suffices to tell   *)
(* the meaning of every extension of it, and a meaning once decided never  *)
(* changes.                                                                *)
(***************************************************************************)
EXTENDS MonitorLife, SequenceTheorems, WellFoundedInduction, TLAPS

AtMostOne(s) == s = <<>> \/ \E v : s = <<v>> /\ v.verdict \in Conclusive

IInv ==
  /\ TypeOK
  /\ policy.kind # "within" => monitor.deadline = None
  /\ AtMostOne(verdicts)
  /\ verdicts # <<>> => monitor.settled

(* What a handler of the monitor returns: a monitor, settled if it reports,*)
(* with its deadline still that of its first trigger.                      *)
Armed(p, m) ==
  m.deadline # None => m.trigger # None /\ m.deadline = m.trigger.time + p.seconds
Sound(p, m) ==
  /\ m \in MonitorType
  /\ Armed(p, m)
  /\ p.kind # "within" => m.deadline = None
SoundResult(p, r) ==
  /\ Sound(p, r.monitor)
  /\ r.status \in Conclusive \cup {None}
  /\ r.status # None => r.monitor.settled

(* A call that reports nothing keeps a monitor sound.                      *)
LEMMA QuietIsSound ==
  ASSUME NEW p, NEW m, Sound(p, m)
  PROVE  SoundResult(p, Quiet(m))
BY DEF SoundResult, Quiet

(* None stands for no event.                                               *)
LEMMA NoneIsNoEvent == \A e \in Event : e # None
BY LifeAssumption

(* on_event of the untimed kinds. *)
LEMMA UntimedOnEvent ==
  ASSUME NEW p \in Policies, p.kind # "within",
         NEW m, Sound(p, m), NEW e \in Event
  PROVE  /\ SoundResult(p, NeverOnEvent(p, m, e))
         /\ SoundResult(p, OnceOnEvent(p, m, e))
         /\ SoundResult(p, HistoricallyOnEvent(p, m, e))
         /\ SoundResult(p, BeforeOnEvent(p, m, e))
         /\ SoundResult(p, ScopedNeverOnEvent(p, m, e))
         /\ SoundResult(p, PreviouslyOnEvent(p, m, e))
         /\ SoundResult(p, SinceOnEvent(p, m, e))
<1>1. ASSUME NEW n, Sound(p, n), NEW v \in Conclusive
      PROVE  SoundResult(p, Settle(n, e, v))
  BY <1>1 DEF SoundResult, Settle, Sound, Armed, MonitorType
<1>2. \A b \in BOOLEAN : Verdict(b) \in Conclusive
  BY DEF Verdict, Conclusive
<1>3. "violated" \in Conclusive /\ "satisfied" \in Conclusive
  BY DEF Conclusive
<1>4. m \in MonitorType /\ m.deadline = None
  BY DEF Sound
<1>5. Sound(p, NotePrior(p, m, e))
  BY <1>4 DEF Sound, Armed, NotePrior, MonitorType
<1>6. Sound(p, MoveScope(p, m, e))
  BY <1>4 DEF Sound, Armed, MoveScope, MonitorType
<1>7. SoundResult(p, PreviouslyOnEvent(p, m, e))
  <2>1. Sound(p, [m EXCEPT !.flag = e.status \in p.prior, !.evidence = e])
    <3>1. \A b \in BOOLEAN : Sound(p, [m EXCEPT !.flag = b, !.evidence = e])
      BY <1>4 DEF Sound, Armed, MonitorType
    <3>2. (e.status \in p.prior) \in BOOLEAN
      OBVIOUS
    <3> QED BY <3>1, <3>2
  <2>2. m.flag \in BOOLEAN
    BY <1>4 DEF MonitorType
  <2> QED BY <2>1, <2>2, <1>1, <1>2, QuietIsSound DEF PreviouslyOnEvent
<1>8. SoundResult(p, SinceOnEvent(p, m, e))
  <2> DEFINE psi == e.status \in p.psi
             newS == psi \/ (e.status \in p.phi /\ m.flag)
             n == [m EXCEPT !.flag = newS, !.started = @ \/ newS,
                            !.evidence = IF psi THEN e ELSE @]
  <2>1. psi \in BOOLEAN /\ newS \in BOOLEAN /\ (m.started \/ newS) \in BOOLEAN
    OBVIOUS
  <2>2. n \in MonitorType
    BY <1>4, <2>1 DEF MonitorType
  <2>3. n.deadline = None
    BY <1>4 DEF MonitorType
  <2>4. Sound(p, n)
    BY <2>2, <2>3 DEF Sound, Armed
  <2> QED BY <2>4, <1>1, <1>3, QuietIsSound DEF SinceOnEvent
<1>9. SoundResult(p, BeforeOnEvent(p, m, e))
  <2>1. NotePrior(p, m, e).flag \in BOOLEAN
    BY <1>5 DEF Sound, MonitorType
  <2> QED BY <2>1, <1>1, <1>2, <1>5, QuietIsSound DEF BeforeOnEvent
<1>10. SoundResult(p, ScopedNeverOnEvent(p, m, e))
  BY <1>1, <1>3, <1>6, QuietIsSound DEF ScopedNeverOnEvent
<1> QED
  BY <1>1, <1>3, <1>7, <1>8, <1>9, <1>10, QuietIsSound
  DEF NeverOnEvent, OnceOnEvent, HistoricallyOnEvent

(* on_event of the bounded response.                                       *)
LEMMA WithinOnEventIsSound ==
  ASSUME NEW p \in Policies, p.kind = "within",
         NEW m, Sound(p, m), NEW e \in Event
  PROVE  SoundResult(p, WithinOnEvent(p, m, e))
<1>1. e.time \in Int /\ p.seconds \in Int /\ e # None
  <2>1. e.time \in Int
    BY LifeAssumption
  <2>2. p.seconds \in Nat
    BY LifeAssumption
  <2>4. p.seconds \in Int
    BY <2>2
  <2>5. e # None
    BY NoneIsNoEvent
  <2> QED BY <2>1, <2>4, <2>5
<1>2. m \in MonitorType
  BY DEF Sound
<1>3. Sound(p, [m EXCEPT !.deadline = e.time + p.seconds, !.trigger = e])
  <2> DEFINE n == [m EXCEPT !.deadline = e.time + p.seconds, !.trigger = e]
  <2>1. e.time + p.seconds \in Int
    BY <1>1
  <2>2. n \in MonitorType
    BY <1>2, <2>1 DEF MonitorType
  <2>3. n.trigger = e /\ n.deadline = e.time + p.seconds
    BY <1>2 DEF MonitorType
  <2> QED BY <1>1, <2>2, <2>3 DEF Sound, Armed
<1>4. Sound(p, [m EXCEPT !.settled = TRUE, !.evidence = e])
  BY <1>2 DEF Sound, Armed, MonitorType
<1>5. [m EXCEPT !.settled = TRUE, !.evidence = e].settled
  BY <1>2 DEF MonitorType
<1>6. Verdict(e.time <= m.deadline) \in Conclusive
  BY DEF Verdict, Conclusive
<1> QED
  BY <1>3, <1>4, <1>5, <1>6, QuietIsSound DEF WithinOnEvent, SoundResult

(* The engine's call of a handler. *)
LEMMA ApplyIsSound ==
  ASSUME NEW p \in Policies, NEW m, Sound(p, m), NEW e \in Event
  PROVE  /\ SoundResult(p, Apply(p, m, e))
         /\ m.settled => Apply(p, m, e) = Quiet(m)
<1>1. p.kind \in Kinds
  BY LifeAssumption
<1>2. SoundResult(p, OnEvent(p, m, e))
  <2>1. CASE p.kind = "within"
    BY <2>1, WithinOnEventIsSound, QuietIsSound DEF OnEvent
  <2>2. CASE p.kind # "within"
    BY <1>1, <2>2, UntimedOnEvent, QuietIsSound DEF OnEvent, Kinds
  <2> QED BY <2>1, <2>2
<1>3. m.settled => OnEvent(p, m, e) = Quiet(m) /\ ~Raises(p, m, e)
  BY DEF OnEvent, Raises
<1> QED BY <1>2, <1>3, QuietIsSound DEF Apply

(* on_timeout; of a settled monitor it does nothing.                       *)
LEMMA FiredIsSound ==
  ASSUME NEW p \in Policies, NEW m, Sound(p, m), NEW now
  PROVE  /\ SoundResult(p, Fired(m, now))
         /\ m.settled => Fired(m, now) = Quiet(m)
<1>1. Sound(p, [m EXCEPT !.settled = TRUE]) /\ [m EXCEPT !.settled = TRUE].settled
  BY DEF Sound, Armed, MonitorType
<1>2. SoundResult(p, [monitor |-> [m EXCEPT !.settled = TRUE], status |-> "violated"])
  BY <1>1 DEF SoundResult, Conclusive
<1> QED
  BY <1>2, QuietIsSound DEF Fired, OnTimeout, NextDeadline

(* on_terminal; of a settled monitor it does nothing.                      *)
LEMMA OnTerminalIsSound ==
  ASSUME NEW p \in Policies, NEW m, Sound(p, m)
  PROVE  /\ SoundResult(p, OnTerminal(p, m))
         /\ m.settled => OnTerminal(p, m) = Quiet(m)
<1>1. Sound(p, [m EXCEPT !.settled = TRUE]) /\ [m EXCEPT !.settled = TRUE].settled
  BY DEF Sound, Armed, MonitorType
<1>2. Final(p, m) \in Conclusive \cup {None}
  BY LifeAssumption DEF Final, Conclusive
<1>3. SoundResult(p, [monitor |-> [m EXCEPT !.settled = TRUE], status |-> Final(p, m)])
  BY <1>1, <1>2 DEF SoundResult
<1> QED
  BY <1>3, QuietIsSound DEF OnTerminal

-----------------------------------------------------------------------------
(* A lifetime begins with an unsettled monitor and no verdict.             *)
LEMMA InitIInv == Init => IInv
<1> SUFFICES ASSUME Init PROVE IInv
  OBVIOUS
<1>1. monitor \in MonitorType /\ monitor.deadline = None
  BY DEF Init, Fresh, MonitorType
<1>2. trace \in Seq(Event)
  BY DEF Init
<1>5. handled \in Nat /\ ended \in BOOLEAN
  BY DEF Init
<1>3. verdicts = <<>> /\ DOMAIN verdicts = {}
  BY DEF Init
<1>4. policy \in Policies /\ clock \in Int \cup {None}
  BY DEF Init
<1> QED BY <1>1, <1>2, <1>3, <1>4, <1>5 DEF IInv, TypeOK, AtMostOne

(* What is reported is one verdict, if the result has a status.            *)
LEMMA ReportedFacts ==
  ASSUME NEW p, NEW r, NEW at, r.status \in Conclusive \cup {None}
  PROVE  /\ AtMostOne(Reported(p, r, at))
         /\ r.status = None => Reported(p, r, at) = <<>>
BY DEF Reported, AtMostOne

(* Lists of at most one verdict put together.                              *)
LEMMA Concatenation ==
  ASSUME NEW s, NEW t, AtMostOne(s), AtMostOne(t)
  PROVE  /\ s = <<>> => s \o t = t
         /\ t = <<>> => s \o t = s
<1>1. \A v : <<>> \o <<v>> = <<v>> /\ <<v>> \o <<>> = <<v>>
  OBVIOUS
<1>2. <<>> \o <<>> = <<>>
  OBVIOUS
<1> QED BY <1>1, <1>2 DEF AtMostOne

(* The verdicts of one event come from four calls, of which one reports.   *)
LEMMA FourParts ==
  ASSUME NEW s, NEW a, NEW b, NEW c,
         AtMostOne(s), AtMostOne(a), AtMostOne(b), AtMostOne(c)
  PROVE  /\ a = <<>> /\ b = <<>> /\ c = <<>> => s \o a \o b \o c = s
         /\ s = <<>> /\ b = <<>> /\ c = <<>> => s \o a \o b \o c = a
         /\ s = <<>> /\ a = <<>> /\ c = <<>> => s \o a \o b \o c = b
         /\ s = <<>> /\ a = <<>> /\ b = <<>> => s \o a \o b \o c = c
<1>1. s = <<>> => s \o a = a
  BY Concatenation
<1>2. a = <<>> => s \o a = s
  BY Concatenation
<1>3. ASSUME NEW t, AtMostOne(t)
      PROVE  /\ b = <<>> => t \o b = t
             /\ c = <<>> => t \o c = t
             /\ t = <<>> => t \o b = b
             /\ t = <<>> => t \o c = c
  BY <1>3, Concatenation
<1> QED BY <1>1, <1>2, <1>3

(* One event of a lifetime, from its deadlines to its end.                 *)
LEMMA HandlePreserves ==
  ASSUME IInv, NEW e \in Event, NEW dispatched \in BOOLEAN, NEW terminal \in BOOLEAN,
         Handle(e, dispatched, terminal)
  PROVE  IInv' /\ (verdicts # <<>> => verdicts' = verdicts)
<1> DEFINE f == Fired(monitor, e.time)
           d == IF dispatched THEN Apply(policy, f.monitor, e) ELSE Quiet(f.monitor)
           r == IF terminal THEN OnTerminal(policy, d.monitor) ELSE Quiet(d.monitor)
           rf == Reported(policy, f, monitor.deadline)
           rd == Reported(policy, d, e.time)
           rr == Reported(policy, r, e.time)
<1>1. policy \in Policies /\ policy' = policy
  BY DEF IInv, TypeOK, Handle
<1>2. Sound(policy, monitor)
  BY DEF IInv, TypeOK, Sound, Armed
<1>3. SoundResult(policy, f) /\ (monitor.settled => f = Quiet(monitor))
  BY <1>1, <1>2, FiredIsSound
<1>4. SoundResult(policy, d) /\ (f.monitor.settled => d = Quiet(f.monitor))
  BY <1>1, <1>3, ApplyIsSound, QuietIsSound DEF SoundResult
<1>5. SoundResult(policy, r) /\ (d.monitor.settled => r = Quiet(d.monitor))
  BY <1>1, <1>4, OnTerminalIsSound, QuietIsSound DEF SoundResult
<1>6. monitor' = r.monitor
  BY DEF Handle
<1>7. verdicts' = verdicts \o rf \o rd \o rr
  BY DEF Handle
<1>8. AtMostOne(verdicts) /\ AtMostOne(rf) /\ AtMostOne(rd) /\ AtMostOne(rr)
  BY <1>3, <1>4, <1>5, ReportedFacts DEF SoundResult, IInv
<1>9. /\ f.status = None => rf = <<>>
      /\ d.status = None => rd = <<>>
      /\ r.status = None => rr = <<>>
  BY <1>3, <1>4, <1>5, ReportedFacts DEF SoundResult
<1> HIDE DEF f, d, r, rf, rd, rr
<1>10. AtMostOne(verdicts') /\ (verdicts' # <<>> => monitor'.settled)
       /\ (verdicts # <<>> => verdicts' = verdicts)
  <2>1. CASE monitor.settled
    <3>1. f = Quiet(monitor) /\ d = Quiet(monitor) /\ r = Quiet(monitor)
      BY <2>1, <1>3, <1>4, <1>5 DEF Quiet
    <3>2. rf = <<>> /\ rd = <<>> /\ rr = <<>>
      BY <3>1, <1>9 DEF Quiet
    <3> QED BY <2>1, <3>1, <3>2, <1>6, <1>7, <1>8, FourParts DEF Quiet
  <2>2. CASE ~monitor.settled
    <3>1. verdicts = <<>>
      BY <2>2 DEF IInv
    <3>2. CASE f.status # None
      <4>1. d = Quiet(f.monitor) /\ r = Quiet(f.monitor) /\ f.monitor.settled
        BY <3>2, <1>3, <1>4, <1>5 DEF Quiet, SoundResult
      <4>2. rd = <<>> /\ rr = <<>>
        BY <4>1, <1>9 DEF Quiet
      <4> QED BY <3>1, <4>1, <4>2, <1>6, <1>7, <1>8, FourParts DEF Quiet
    <3>3. CASE f.status = None /\ d.status # None
      <4>1. r = Quiet(d.monitor) /\ d.monitor.settled
        BY <3>3, <1>4, <1>5 DEF Quiet, SoundResult
      <4>2. rf = <<>> /\ rr = <<>>
        BY <3>3, <4>1, <1>9 DEF Quiet
      <4> QED BY <3>1, <4>1, <4>2, <1>6, <1>7, <1>8, FourParts DEF Quiet
    <3>4. CASE f.status = None /\ d.status = None
      <4>1. rf = <<>> /\ rd = <<>>
        BY <3>4, <1>9
      <4>2. verdicts' = rr
        BY <3>1, <4>1, <1>7, <1>8, FourParts
      <4> QED BY <3>1, <4>2, <1>5, <1>6, <1>8, <1>9 DEF SoundResult
    <3> QED BY <3>2, <3>3, <3>4
  <2> QED BY <2>1, <2>2
<1>11. TypeOK'
  <2>0. trace \in Seq(Event) /\ handled \in Nat
    BY DEF IInv, TypeOK
  <2>1. trace' \in Seq(Event)
    <3>1. trace' = trace \/ trace' = Append(trace, e)
      BY DEF Handle
    <3>2. Append(trace, e) \in Seq(Event)
      BY <2>0
    <3> QED BY <2>0, <3>1, <3>2
  <2>5. handled' \in Nat /\ ended' \in BOOLEAN
    <3>1. handled' = handled + 1 /\ ended' = terminal
      BY DEF Handle
    <3> QED BY <2>0, <3>1
  <2>2. clock' \in Int \cup {None}
    BY LifeAssumption DEF Handle
  <2>3. monitor' \in MonitorType
        /\ (monitor'.deadline # None =>
              /\ monitor'.trigger # None
              /\ monitor'.deadline = monitor'.trigger.time + policy'.seconds)
    BY <1>1, <1>5, <1>6 DEF SoundResult, Sound, Armed
  <2>4. \A i \in DOMAIN verdicts' : verdicts'[i].verdict \in Conclusive
    BY <1>10 DEF AtMostOne
  <2> QED BY <1>1, <2>1, <2>2, <2>3, <2>4, <2>5 DEF TypeOK
<1>12. policy'.kind # "within" => monitor'.deadline = None
  BY <1>1, <1>5, <1>6 DEF SoundResult, Sound
<1> QED BY <1>10, <1>11, <1>12 DEF IInv

(* Nothing happens.                                                        *)
LEMMA StutterPreserves == IInv /\ UNCHANGED vars => IInv'
BY DEF IInv, TypeOK, vars

(* The inductive invariant holds of every lifetime.                        *)
THEOREM LifeInvariance == Spec => []IInv
<1>1. IInv /\ [Next]_vars => IInv'
  BY HandlePreserves, StutterPreserves DEF Next
<1> QED BY InitIInv, <1>1, PTL DEF Spec

(* Type correctness: above all, an armed obligation keeps the event that   *)
(* armed it, and its deadline is counted from that event.                  *)
THEOREM LifeTypeCorrect == Spec => []TypeOK
<1>1. IInv => TypeOK
  BY DEF IInv
<1> QED BY LifeInvariance, <1>1, PTL

(* A conclusive verdict is final: whatever is handled after it, timeouts,  *)
(* events and the end of the lifetime, the monitor reports nothing more.   *)
THEOREM VerdictsAreFinal == Spec => FinalOnce
<1>1. IInv /\ [Next]_vars => [verdicts # <<>> => verdicts' = verdicts]_vars
  BY HandlePreserves DEF Next, vars
<1> QED BY LifeInvariance, <1>1, PTL DEF Spec, FinalOnce

-----------------------------------------------------------------------------
(* The policies the equivalence is about: a deadline of zero seconds fires *)
(* only with the next event, and a closing event that opens is ambiguous.  *)
WellPosed(p) ==
  /\ p.kind = "within" => p.seconds > 0
  /\ p.kind = "scoped_never" => p.open \cap p.close = {}

(* t is the trace s extended with the event e.                             *)
Extended(s, e, t) ==
  /\ s \in Seq(Event) /\ e \in Event /\ t = Append(s, e)

-----------------------------------------------------------------------------
(* What Semantics means by the first position of a set, and the last.      *)
LEMMA FirstIs ==
  ASSUME NEW I, I \subseteq Nat, NEW i \in I, \A j \in I : i <= j
  PROVE  Meaning!First(I) = i
<1>1. \E k \in I : \A j \in I : k <= j
  OBVIOUS
<1>2. Meaning!First(I) \in I /\ \A j \in I : Meaning!First(I) <= j
  BY <1>1 DEF Meaning!First
<1>3. Meaning!First(I) <= i /\ i <= Meaning!First(I)
  BY <1>2
<1>4. \A x, y \in Nat : x <= y /\ y <= x => x = y
  OBVIOUS
<1> QED BY <1>2, <1>3, <1>4

(* A set of positions that is not empty has a first one.                   *)
LEMMA FirstExists ==
  ASSUME NEW I, I \subseteq Nat, I # {}
  PROVE  Meaning!First(I) \in I /\ \A j \in I : Meaning!First(I) <= j
<1> DEFINE R == OpToRel(<, Nat)
<1>1. PICK i \in I : \A j \in I : <<j, i>> \notin R
  BY NatLessThanWellFounded, WFMin
<1>2. \A j \in I : i <= j
  <2> TAKE j \in I
  <2>1. ~(j < i)
    BY <1>1 DEF OpToRel
  <2> QED BY <2>1
<1> QED BY <1>2 DEF Meaning!First

(* A longer trace adds positions at the end: the first one stays.          *)
LEMMA FirstStable ==
  ASSUME NEW n \in Nat, NEW I, I \subseteq 1 .. n, I # {},
         NEW J, J \subseteq 1 .. n + 1, J \cap (1 .. n) = I
  PROVE  Meaning!First(J) = Meaning!First(I) /\ Meaning!First(I) \in 1 .. n
<1>1. Meaning!First(I) \in I /\ \A j \in I : Meaning!First(I) <= j
  BY FirstExists
<1>2. \A j \in J : Meaning!First(I) <= j
  BY <1>1
<1>3. Meaning!First(I) \in J /\ J \subseteq Nat
  BY <1>1
<1> QED BY <1>1, <1>2, <1>3, FirstIs

(* The positions of an extended trace.                                     *)
LEMMA ExtendedFacts ==
  ASSUME NEW s, NEW e, NEW t, Extended(s, e, t)
  PROVE  /\ t \in Seq(Event)
         /\ Len(s) \in Nat
         /\ DOMAIN s = 1 .. Len(s) /\ DOMAIN t = 1 .. Len(s) + 1 /\ Len(t) = Len(s) + 1
         /\ \A i \in 1 .. Len(s) : s[i] \in Event /\ t[i] = s[i]
         /\ t[Len(s) + 1] = e
BY AppendProperties, LenProperties, ElementOfSeq DEF Extended

-----------------------------------------------------------------------------
(* No position of s satisfies P; a is the first position that does.        *)
Nowhere(s, P)    == \A i \in 1 .. Len(s) : s[i].status \notin P
FirstAt(s, P, a) == /\ a \in 1 .. Len(s) /\ s[a].status \in P
                    /\ \A i \in 1 .. a - 1 : s[i].status \notin P

(* The same two facts in the words of Semantics.                           *)
LEMMA WhereFacts ==
  ASSUME NEW s \in Seq(Event), NEW P
  PROVE  /\ Nowhere(s, P) <=> Meaning!Where(s, P) = {}
         /\ \A a : FirstAt(s, P, a) =>
              /\ a \in Meaning!Where(s, P) /\ Meaning!Where(s, P) # {}
              /\ Meaning!First(Meaning!Where(s, P)) = a
         /\ Nowhere(s, P) \/ \E a : FirstAt(s, P, a)
<1> DEFINE W == Meaning!Where(s, P)
<1>1. DOMAIN s = 1 .. Len(s) /\ Len(s) \in Nat
  OBVIOUS
<1>2. W = {i \in 1 .. Len(s) : s[i].status \in P}
  BY <1>1 DEF Meaning!Where
<1>3. W \subseteq Nat
  BY <1>1, <1>2
<1>4. Nowhere(s, P) <=> W = {}
  BY <1>2 DEF Nowhere
<1>5. ASSUME NEW a, FirstAt(s, P, a)
      PROVE  a \in W /\ W # {} /\ Meaning!First(W) = a
  <2>1. a \in W
    BY <1>2, <1>5 DEF FirstAt
  <2>2. \A j \in W : a <= j
    BY <1>1, <1>2, <1>5 DEF FirstAt
  <2> QED BY <1>3, <2>1, <2>2, FirstIs
<1>6. ASSUME W # {}
      PROVE  FirstAt(s, P, Meaning!First(W))
  <2>1. Meaning!First(W) \in W /\ \A j \in W : Meaning!First(W) <= j
    BY <1>3, <1>6, FirstExists
  <2>2. \A f \in W : (\A j \in W : f <= j) => FirstAt(s, P, f)
    <3> TAKE f \in W
    <3> HAVE \A j \in W : f <= j
    <3>1. f \in 1 .. Len(s) /\ s[f].status \in P
      BY <1>2
    <3>2. \A i \in 1 .. f - 1 : i \in 1 .. Len(s) /\ ~(f <= i)
      BY <1>1, <3>1
    <3>3. \A i \in 1 .. f - 1 : i \notin W
      BY <3>2
    <3>4. \A i \in 1 .. f - 1 : s[i].status \notin P
      BY <1>2, <3>2, <3>3
    <3> QED BY <3>1, <3>4 DEF FirstAt
  <2> QED BY <2>1, <2>2
<1> QED BY <1>4, <1>5, <1>6

(* Where phi does not hold is where its complement does.                   *)
Statuses == {e.status : e \in Event}
LEMMA Complement ==
  ASSUME NEW s \in Seq(Event), NEW P
  PROVE  DOMAIN s \ Meaning!Where(s, P) = Meaning!Where(s, Statuses \ P)
<1>1. \A i \in DOMAIN s : s[i] \in Event
  BY ElementOfSeq, LenProperties
<1>2. \A i \in DOMAIN s : s[i].status \in Statuses
  BY <1>1 DEF Statuses
<1>3. \A i \in DOMAIN s : s[i].status \notin P <=> s[i].status \in Statuses \ P
  BY <1>2
<1>4. Meaning!Where(s, Statuses \ P) = {i \in DOMAIN s : s[i].status \notin P}
  BY <1>3 DEF Meaning!Where
<1> QED BY <1>4 DEF Meaning!Where

(* How both facts fare when the trace is extended.                         *)
LEMMA ExtendedWhere ==
  ASSUME NEW s, NEW e, NEW t, Extended(s, e, t), NEW P
  PROVE  /\ Nowhere(s, P) /\ e.status \notin P => Nowhere(t, P)
         /\ Nowhere(s, P) /\ e.status \in P => FirstAt(t, P, Len(s) + 1)
         /\ \A a : FirstAt(s, P, a) => FirstAt(t, P, a) /\ t[a] = s[a]
<1>1. /\ Len(s) \in Nat /\ Len(t) = Len(s) + 1
      /\ \A i \in 1 .. Len(s) : t[i] = s[i]
      /\ t[Len(s) + 1] = e
  BY ExtendedFacts
<1> QED BY <1>1 DEF Nowhere, FirstAt

-----------------------------------------------------------------------------
(* What an unsettled monitor of each kind knows of its trace at now.       *)
KnowsWithin(p, m, s, now) ==
  /\ m.evidence = None
  /\ IF m.deadline = None THEN Nowhere(s, p.trigger) /\ m.trigger = None
     ELSE /\ now \in Int /\ now < m.deadline
          /\ \E a : /\ FirstAt(s, p.trigger, a) /\ m.trigger = s[a]
                    /\ \A i \in a + 1 .. Len(s) : s[i].status \notin p.response

KnowsBefore(p, m, s) ==
  /\ Nowhere(s, p.trigger)
  /\ IF m.flag THEN \E a : FirstAt(s, p.prior, a) /\ m.evidence = s[a]
     ELSE Nowhere(s, p.prior) /\ m.evidence = None

KnowsPreviously(p, m, s) ==
  /\ Nowhere(s, p.trigger)
  /\ m.flag <=> Len(s) > 0 /\ s[Len(s)].status \in p.prior
  /\ m.flag => m.evidence = s[Len(s)]

(* The chain has held at every event that comes after some psi.            *)
Broken(p, s, i) == /\ s[i].status \notin p.phi \cup p.psi
                   /\ \E j \in 1 .. i - 1 : s[j].status \in p.psi
LastAt(s, P, a) == /\ a \in 1 .. Len(s) /\ s[a].status \in P
                   /\ \A i \in a + 1 .. Len(s) : s[i].status \notin P
KnowsSince(p, m, s) ==
  /\ m.flag = m.started
  /\ \A i \in 1 .. Len(s) : ~Broken(p, s, i)
  /\ IF m.started THEN \E a : LastAt(s, p.psi, a) /\ m.evidence = s[a]
     ELSE Nowhere(s, p.psi) /\ m.evidence = None

(* The positions from which the scope that is open at i was opened.        *)
Openings(p, s, i) == {j \in 1 .. i : Meaning!OpenFrom(p, s, j, i)}
KnowsScopedNever(p, m, s) ==
  /\ \A i \in 1 .. Len(s) : s[i].status \in p.bad => Openings(p, s, i) = {}
  /\ IF m.flag
     THEN \E a \in Openings(p, s, Len(s)) :
            /\ \A j \in Openings(p, s, Len(s)) : a <= j
            /\ m.evidence = s[a]
     ELSE Openings(p, s, Len(s)) = {} /\ m.evidence = None

Knows(p, m, s, now) ==
  /\ ~m.settled
  /\ p.kind # "within" => m.trigger = None
  /\ p.kind = "never"        => Nowhere(s, p.bad)
  /\ p.kind = "once"         => Nowhere(s, p.good)
  /\ p.kind = "historically" => Nowhere(s, Statuses \ p.phi)
  /\ p.kind = "within"       => KnowsWithin(p, m, s, now)
  /\ p.kind = "before"       => KnowsBefore(p, m, s)
  /\ p.kind = "scoped_never" => KnowsScopedNever(p, m, s)
  /\ p.kind = "previously"   => KnowsPreviously(p, m, s)
  /\ p.kind = "since"        => KnowsSince(p, m, s)

(* A handler's result conforms to the trace t it leaves: its monitor knows *)
(* t, or the verdict it reports is the one t means.                        *)
Conforms(p, r, t, now) ==
  IF r.status = None THEN Knows(p, r.monitor, t, now)
  ELSE /\ r.monitor.settled
       /\ Meaning!Means(p, t, now, FALSE)
            = Meaning!Decided(r.status, now, DecidingEvents(p, r.monitor))

(* A verdict that is settled on e, with e last in its evidence.            *)
LEMMA SettleFacts ==
  ASSUME NEW p, NEW m, Sound(p, m), NEW e \in Event, NEW v
  PROVE  /\ Settle(m, e, v).status = v
         /\ Settle(m, e, v).monitor.settled
         /\ Settle(m, e, v).monitor.trigger = e
         /\ Settle(m, e, v).monitor.evidence = m.evidence
         /\ Settle(m, e, v).monitor.flag = m.flag
         /\ Kept(e) = <<e>>
BY NoneIsNoEvent DEF Settle, Sound, MonitorType, Kept

(* never: violated by the first event that is bad.                         *)
LEMMA NeverConforms ==
  ASSUME NEW p \in Policies, p.kind = "never", NEW m, Sound(p, m),
         NEW s, NEW e, NEW t, Extended(s, e, t), Knows(p, m, s, e.time)
  PROVE  Conforms(p, NeverOnEvent(p, m, e), t, e.time)
<1>1. t \in Seq(Event) /\ t[Len(s) + 1] = e /\ e \in Event
  BY ExtendedFacts DEF Extended
<1>2. Nowhere(s, p.bad)
  BY DEF Knows
<1>3. CASE e.status \in p.bad
  <2> DEFINE r == Settle(m, e, "violated")
  <2>1. FirstAt(t, p.bad, Len(s) + 1)
    BY <1>2, <1>3, ExtendedWhere
  <2>2. Meaning!Where(t, p.bad) # {} /\ Meaning!First(Meaning!Where(t, p.bad)) = Len(s) + 1
    BY <1>1, <2>1, WhereFacts
  <2>3. Meaning!MeansNever(p, t, e.time, FALSE) = Meaning!Decided("violated", e.time, <<e>>)
    BY <1>1, <2>2 DEF Meaning!MeansNever
  <2>4. NeverOnEvent(p, m, e) = r
    BY <1>3 DEF NeverOnEvent
  <2>5. r.status = "violated" /\ r.monitor.settled /\ DecidingEvents(p, r.monitor) = <<e>>
    BY <1>1, SettleFacts DEF DecidingEvents
  <2>6. Meaning!Means(p, t, e.time, FALSE) = Meaning!Decided("violated", e.time, <<e>>)
    BY <2>3 DEF Meaning!Means
  <2> QED BY <2>4, <2>5, <2>6, LifeAssumption DEF Conforms
<1>4. CASE e.status \notin p.bad
  <2>1. NeverOnEvent(p, m, e) = Quiet(m)
    BY <1>4 DEF NeverOnEvent
  <2>2. Nowhere(t, p.bad)
    BY <1>2, <1>4, ExtendedWhere
  <2> QED BY <2>1, <2>2 DEF Conforms, Quiet, Knows
<1> QED BY <1>3, <1>4

(* once: satisfied by the first event that is good.                        *)
LEMMA OnceConforms ==
  ASSUME NEW p \in Policies, p.kind = "once", NEW m, Sound(p, m),
         NEW s, NEW e, NEW t, Extended(s, e, t), Knows(p, m, s, e.time)
  PROVE  Conforms(p, OnceOnEvent(p, m, e), t, e.time)
<1>1. t \in Seq(Event) /\ t[Len(s) + 1] = e /\ e \in Event
  BY ExtendedFacts DEF Extended
<1>2. Nowhere(s, p.good)
  BY DEF Knows
<1>3. CASE e.status \in p.good
  <2> DEFINE r == Settle(m, e, "satisfied")
  <2>1. FirstAt(t, p.good, Len(s) + 1)
    BY <1>2, <1>3, ExtendedWhere
  <2>2. Meaning!Where(t, p.good) # {} /\ Meaning!First(Meaning!Where(t, p.good)) = Len(s) + 1
    BY <1>1, <2>1, WhereFacts
  <2>3. Meaning!MeansOnce(p, t, e.time, FALSE) = Meaning!Decided("satisfied", e.time, <<e>>)
    BY <1>1, <2>2 DEF Meaning!MeansOnce
  <2>4. OnceOnEvent(p, m, e) = r
    BY <1>3 DEF OnceOnEvent
  <2>5. r.status = "satisfied" /\ r.monitor.settled /\ DecidingEvents(p, r.monitor) = <<e>>
    BY <1>1, SettleFacts DEF DecidingEvents
  <2>6. Meaning!Means(p, t, e.time, FALSE) = Meaning!Decided("satisfied", e.time, <<e>>)
    BY <2>3 DEF Meaning!Means
  <2> QED BY <2>4, <2>5, <2>6, LifeAssumption DEF Conforms
<1>4. CASE e.status \notin p.good
  <2>1. OnceOnEvent(p, m, e) = Quiet(m)
    BY <1>4 DEF OnceOnEvent
  <2>2. Nowhere(t, p.good)
    BY <1>2, <1>4, ExtendedWhere
  <2> QED BY <2>1, <2>2 DEF Conforms, Quiet, Knows
<1> QED BY <1>3, <1>4

(* historically: violated by the first event at which phi fails.           *)
LEMMA HistoricallyConforms ==
  ASSUME NEW p \in Policies, p.kind = "historically", NEW m, Sound(p, m),
         NEW s, NEW e, NEW t, Extended(s, e, t), Knows(p, m, s, e.time)
  PROVE  Conforms(p, HistoricallyOnEvent(p, m, e), t, e.time)
<1>1. t \in Seq(Event) /\ t[Len(s) + 1] = e /\ e \in Event /\ e.status \in Statuses
  BY ExtendedFacts DEF Extended, Statuses
<1>2. Nowhere(s, Statuses \ p.phi)
  BY DEF Knows
<1>3. CASE e.status \notin p.phi
  <2> DEFINE r == Settle(m, e, "violated")
  <2>1. FirstAt(t, Statuses \ p.phi, Len(s) + 1)
    BY <1>1, <1>2, <1>3, ExtendedWhere
  <2>2. Meaning!Where(t, Statuses \ p.phi) # {} /\ Meaning!First(Meaning!Where(t, Statuses \ p.phi)) = Len(s) + 1
    BY <1>1, <2>1, WhereFacts
  <2>3. DOMAIN t \ Meaning!Where(t, p.phi) # {} /\ Meaning!First(DOMAIN t \ Meaning!Where(t, p.phi)) = Len(s) + 1
    BY <1>1, <2>2, Complement
  <2>4. Meaning!MeansHistorically(p, t, e.time, FALSE) = Meaning!Decided("violated", e.time, <<e>>)
    BY <1>1, <2>3 DEF Meaning!MeansHistorically
  <2>5. HistoricallyOnEvent(p, m, e) = r
    BY <1>3 DEF HistoricallyOnEvent
  <2>6. r.status = "violated" /\ r.monitor.settled /\ DecidingEvents(p, r.monitor) = <<e>>
    BY <1>1, SettleFacts DEF DecidingEvents
  <2>7. Meaning!Means(p, t, e.time, FALSE) = Meaning!Decided("violated", e.time, <<e>>)
    BY <2>4 DEF Meaning!Means
  <2> QED BY <2>5, <2>6, <2>7, LifeAssumption DEF Conforms
<1>4. CASE e.status \in p.phi
  <2>1. HistoricallyOnEvent(p, m, e) = Quiet(m)
    BY <1>4 DEF HistoricallyOnEvent
  <2>2. Nowhere(t, Statuses \ p.phi)
    BY <1>2, <1>4, ExtendedWhere
  <2> QED BY <2>1, <2>2 DEF Conforms, Quiet, Knows
<1> QED BY <1>3, <1>4

(* Evidence of two events.                                                 *)
LEMMA Pair ==
  ASSUME NEW a \in Event, NEW b \in Event
  PROVE  <<a>> \o <<b>> = <<a, b>> /\ Append(<<a>>, b) = <<a, b>>
<1>1. <<a>> \in Seq(Event) /\ <<b>> \in Seq(Event) /\ <<a, b>> \in Seq(Event)
  OBVIOUS
<1>2. Len(<<a>>) = 1 /\ Len(<<b>>) = 1 /\ Len(<<a, b>>) = 2 /\ <<a>>[1] = a /\ <<b>>[1] = b
      /\ <<a, b>>[1] = a /\ <<a, b>>[2] = b
  OBVIOUS
<1>3. /\ <<a>> \o <<b>> \in Seq(Event) /\ Len(<<a>> \o <<b>>) = 2
      /\ \A i \in 1 .. 2 : (<<a>> \o <<b>>)[i] = IF i <= 1 THEN <<a>>[i] ELSE <<b>>[i - 1]
  BY <1>1, <1>2, ConcatProperties
<1>4. \A i \in 1 .. 2 : (<<a>> \o <<b>>)[i] = <<a, b>>[i]
  BY <1>2, <1>3
<1>5. <<a>> \o <<b>> = <<a, b>>
  BY <1>1, <1>2, <1>3, <1>4, SeqEqual
<1> QED BY <1>1, <1>5, AppendIsConcat

(* The evidence of two events of which either may be missing.              *)
LEMMA KeptFacts ==
  ASSUME NEW a \in Event, NEW b \in Event
  PROVE  /\ Kept(None) \o Kept(None) = <<>>
         /\ Kept(a) \o Kept(None) = <<a>>
         /\ Kept(None) \o Kept(b) = <<b>>
         /\ Kept(a) \o Kept(b) = <<a, b>>
<1>1. Kept(None) = <<>> /\ Kept(a) = <<a>> /\ Kept(b) = <<b>>
  BY NoneIsNoEvent DEF Kept
<1>2. <<>> \o <<b>> = <<b>> /\ <<a>> \o <<>> = <<a>> /\ <<>> \o <<>> = <<>>
  OBVIOUS
<1> QED BY <1>1, <1>2, Pair

(* before: decided by the first trigger, and the first prior up to it.     *)
LEMMA BeforeConforms ==
  ASSUME NEW p \in Policies, p.kind = "before", NEW m, Sound(p, m),
         NEW s, NEW e, NEW t, Extended(s, e, t), Knows(p, m, s, e.time)
  PROVE  Conforms(p, BeforeOnEvent(p, m, e), t, e.time)
<1> DEFINE n == NotePrior(p, m, e)
           k == Len(s) + 1
<1>1. t \in Seq(Event) /\ t[k] = e /\ e \in Event /\ Len(s) \in Nat
      /\ Len(t) = k /\ DOMAIN t = 1 .. k
  BY ExtendedFacts DEF Extended
<1>2. Nowhere(s, p.trigger) /\ m.trigger = None /\ ~m.settled
  BY DEF Knows, KnowsBefore
<1>3. Sound(p, n) /\ n.trigger = None /\ ~n.settled /\ n.flag \in BOOLEAN
  BY <1>1, <1>2 DEF NotePrior, Sound, MonitorType, Armed
<1>4. IF n.flag THEN \E a : FirstAt(t, p.prior, a) /\ n.evidence = t[a]
      ELSE Nowhere(t, p.prior) /\ n.evidence = None
  <2>1. CASE m.flag
    <3>1. PICK a : FirstAt(s, p.prior, a) /\ m.evidence = s[a]
      BY <2>1 DEF Knows, KnowsBefore
    <3>2. FirstAt(t, p.prior, a) /\ t[a] = s[a]
      BY <3>1, ExtendedWhere
    <3>3. s[a] \in Event
      BY <3>1, ExtendedFacts DEF FirstAt
    <3>4. n.flag /\ n.evidence = s[a]
      BY <2>1, <3>1, <3>3, NoneIsNoEvent DEF NotePrior, Sound, MonitorType
    <3> QED BY <3>2, <3>4
  <2>2. CASE ~m.flag
    <3>1. Nowhere(s, p.prior) /\ m.evidence = None
      BY <2>2 DEF Knows, KnowsBefore
    <3>2. CASE e.status \in p.prior
      <4>1. FirstAt(t, p.prior, k)
        BY <3>1, <3>2, ExtendedWhere
      <4>2. n.flag /\ n.evidence = e
        BY <3>1, <3>2 DEF NotePrior, Sound, MonitorType
      <4> QED BY <1>1, <4>1, <4>2
    <3>3. CASE e.status \notin p.prior
      BY <2>2, <3>1, <3>3, ExtendedWhere DEF NotePrior
    <3> QED BY <3>2, <3>3
  <2> QED BY <2>1, <2>2
<1> HIDE DEF n
<1>5. CASE e.status \notin p.trigger
  <2>1. BeforeOnEvent(p, m, e) = Quiet(n)
    BY <1>5 DEF BeforeOnEvent, n
  <2>2. Nowhere(t, p.trigger)
    BY <1>2, <1>5, ExtendedWhere
  <2>3. Knows(p, n, t, e.time)
    BY <1>3, <1>4, <2>2 DEF Knows, KnowsBefore
  <2> QED BY <2>1, <2>3 DEF Conforms, Quiet
<1>6. CASE e.status \in p.trigger
  <2> DEFINE r == Settle(n, e, Verdict(n.flag))
             A == {i \in Meaning!Where(t, p.prior) : i <= k}
  <2>1. BeforeOnEvent(p, m, e) = r
    BY <1>6 DEF BeforeOnEvent, n
  <2>2. Meaning!Where(t, p.trigger) # {} /\ Meaning!First(Meaning!Where(t, p.trigger)) = k
    <3>1. FirstAt(t, p.trigger, k)
      BY <1>2, <1>6, ExtendedWhere
    <3> QED BY <1>1, <3>1, WhereFacts
  <2>3. A = Meaning!Where(t, p.prior)
    BY <1>1 DEF Meaning!Where
  <2>4. /\ r.status = Verdict(n.flag) /\ r.monitor.settled
        /\ r.monitor.trigger = e /\ r.monitor.evidence = n.evidence
    BY <1>1, <1>3, SettleFacts
  <2>5. DecidingEvents(p, r.monitor) = Kept(n.evidence) \o Kept(e)
    BY <2>4 DEF DecidingEvents
  <2>6. Meaning!Means(p, t, e.time, FALSE)
          = IF A = {} THEN Meaning!Decided("violated", e.time, <<e>>)
            ELSE Meaning!Decided("satisfied", e.time, <<t[Meaning!First(A)], e>>)
    BY <1>1, <2>2 DEF Meaning!Means, Meaning!MeansBefore
  <2>7. CASE n.flag
    <3>1. PICK a : FirstAt(t, p.prior, a) /\ n.evidence = t[a]
      BY <1>4, <2>7
    <3>2. A # {} /\ Meaning!First(A) = a
      BY <1>1, <2>3, <3>1, WhereFacts
    <3>3. t[a] \in Event
      BY <1>1, <3>1 DEF FirstAt
    <3>4. DecidingEvents(p, r.monitor) = <<t[a], e>>
      BY <1>1, <2>5, <3>1, <3>3, KeptFacts
    <3> QED BY <2>1, <2>4, <2>6, <2>7, <3>2, <3>4, LifeAssumption DEF Conforms, Verdict
  <2>8. CASE ~n.flag
    <3>1. A = {} /\ n.evidence = None
      BY <1>1, <1>4, <2>3, <2>8, WhereFacts
    <3>2. DecidingEvents(p, r.monitor) = <<e>>
      BY <1>1, <2>5, <3>1, KeptFacts
    <3> QED BY <2>1, <2>4, <2>6, <2>8, <3>1, <3>2, LifeAssumption DEF Conforms, Verdict
  <2> QED BY <2>7, <2>8
<1> QED BY <1>5, <1>6

(* previously: decided by the first trigger and the event just before it.  *)
LEMMA PreviouslyConforms ==
  ASSUME NEW p \in Policies, p.kind = "previously", NEW m, Sound(p, m),
         NEW s, NEW e, NEW t, Extended(s, e, t), Knows(p, m, s, e.time)
  PROVE  Conforms(p, PreviouslyOnEvent(p, m, e), t, e.time)
<1> DEFINE k == Len(s) + 1
<1>1. t \in Seq(Event) /\ t[k] = e /\ e \in Event /\ Len(s) \in Nat /\ Len(t) = k
  BY ExtendedFacts DEF Extended
<1>2. Nowhere(s, p.trigger) /\ m.trigger = None /\ ~m.settled /\ m.flag \in BOOLEAN
  BY DEF Knows, KnowsPreviously, Sound, MonitorType
<1>3. m.flag <=> k > 1 /\ t[k - 1].status \in p.prior
  <2>1. Len(s) > 0 => t[k - 1] = s[Len(s)]
    BY <1>1, ExtendedFacts
  <2> QED BY <1>1, <2>1 DEF Knows, KnowsPreviously
<1>4. m.flag => m.evidence = t[k - 1] /\ t[k - 1] \in Event
  BY <1>1, <1>3, ExtendedFacts DEF Knows, KnowsPreviously
<1>5. CASE e.status \notin p.trigger
  <2> DEFINE n == [m EXCEPT !.flag = e.status \in p.prior, !.evidence = e]
  <2>1. PreviouslyOnEvent(p, m, e) = Quiet(n)
    BY <1>5 DEF PreviouslyOnEvent
  <2>2. Nowhere(t, p.trigger)
    BY <1>2, <1>5, ExtendedWhere
  <2>3. DOMAIN m = {"settled", "trigger", "deadline", "flag", "started", "evidence"}
    BY DEF Sound, MonitorType
  <2>4. n.flag = (e.status \in p.prior) /\ n.evidence = e /\ n.trigger = None /\ ~n.settled
    BY <1>2, <2>3
  <2> HIDE DEF n
  <2>5. t[Len(t)] = e /\ Len(t) > 0
    BY <1>1
  <2>6. KnowsPreviously(p, n, t)
    BY <2>2, <2>4, <2>5 DEF KnowsPreviously
  <2>7. Knows(p, n, t, e.time)
    BY <2>4, <2>6 DEF Knows
  <2> QED BY <2>1, <2>7 DEF Conforms, Quiet
<1>6. CASE e.status \in p.trigger
  <2> DEFINE r == Settle(m, e, Verdict(m.flag))
  <2>1. PreviouslyOnEvent(p, m, e) = r
    BY <1>6 DEF PreviouslyOnEvent
  <2>2. Meaning!Where(t, p.trigger) # {} /\ Meaning!First(Meaning!Where(t, p.trigger)) = k
    <3>1. FirstAt(t, p.trigger, k)
      BY <1>2, <1>6, ExtendedWhere
    <3> QED BY <1>1, <3>1, WhereFacts
  <2>3. /\ r.status = Verdict(m.flag) /\ r.monitor.settled
        /\ r.monitor.trigger = e /\ r.monitor.evidence = m.evidence /\ r.monitor.flag = m.flag
    BY <1>1, SettleFacts
  <2>4. DecidingEvents(p, r.monitor) = Kept(IF m.flag THEN m.evidence ELSE None) \o Kept(e)
    BY <2>3 DEF DecidingEvents
  <2>5. Meaning!Means(p, t, e.time, FALSE)
          = IF m.flag THEN Meaning!Decided("satisfied", e.time, <<t[k - 1], e>>)
            ELSE Meaning!Decided("violated", e.time, <<e>>)
    BY <1>1, <1>3, <2>2 DEF Meaning!Means, Meaning!MeansPreviously
  <2>6. DecidingEvents(p, r.monitor) = IF m.flag THEN <<t[k - 1], e>> ELSE <<e>>
    BY <1>1, <1>4, <2>4, KeptFacts
  <2> QED BY <2>1, <2>3, <2>5, <2>6, LifeAssumption DEF Conforms, Verdict
<1> QED BY <1>5, <1>6

(* Numbers of a lifetime.                                                  *)
LEMMA EventFacts ==
  ASSUME NEW e \in Event
  PROVE  e.time \in Int /\ e # None
BY NoneIsNoEvent, LifeAssumption

(* A bounded response has a bound.                                         *)
LEMMA SecondsFacts ==
  ASSUME NEW p \in Policies, p.kind = "within"
  PROVE  p.seconds \in Nat
BY LifeAssumption

(* within: armed by the first trigger; a response that comes while the     *)
(* obligation is pending comes before its deadline.                        *)
LEMMA WithinConforms ==
  ASSUME NEW p \in Policies, p.kind = "within", WellPosed(p), NEW m, Sound(p, m),
         NEW s, NEW e, NEW t, Extended(s, e, t), Knows(p, m, s, e.time)
  PROVE  Conforms(p, WithinOnEvent(p, m, e), t, e.time)
<1> DEFINE k == Len(s) + 1
<1>1. t \in Seq(Event) /\ t[k] = e /\ e \in Event /\ Len(s) \in Nat /\ Len(t) = k
      /\ DOMAIN t = 1 .. k
  BY ExtendedFacts DEF Extended
<1>2. e.time \in Int /\ p.seconds \in Nat /\ p.seconds > 0 /\ e.time + p.seconds \in Int
  BY <1>1, EventFacts, SecondsFacts DEF WellPosed
<1>3. KnowsWithin(p, m, s, e.time) /\ ~m.settled /\ m.evidence = None
  BY DEF Knows, KnowsWithin
<1>4. DOMAIN m = {"settled", "trigger", "deadline", "flag", "started", "evidence"}
  BY DEF Sound, MonitorType
<1>5. CASE m.deadline = None /\ e.status \notin p.trigger
  <2>1. WithinOnEvent(p, m, e) = Quiet(m)
    BY <1>5 DEF WithinOnEvent
  <2>2. Nowhere(t, p.trigger) /\ m.trigger = None
    BY <1>3, <1>5, ExtendedWhere DEF KnowsWithin
  <2>3. KnowsWithin(p, m, t, e.time)
    BY <1>3, <1>5, <2>2 DEF KnowsWithin
  <2>4. Knows(p, m, t, e.time)
    BY <1>3, <2>3 DEF Knows
  <2> QED BY <2>1, <2>4 DEF Conforms, Quiet
<1>6. CASE m.deadline = None /\ e.status \in p.trigger
  <2> DEFINE n == [m EXCEPT !.deadline = e.time + p.seconds, !.trigger = e]
  <2>1. WithinOnEvent(p, m, e) = Quiet(n)
    BY <1>6 DEF WithinOnEvent
  <2>2. n.deadline = e.time + p.seconds /\ n.trigger = e /\ n.evidence = None /\ ~n.settled
    BY <1>3, <1>4
  <2> HIDE DEF n
  <2>3. FirstAt(t, p.trigger, k) /\ n.trigger = t[k]
    BY <1>1, <1>3, <1>6, <2>2, ExtendedWhere DEF KnowsWithin
  <2>4. n.deadline # None /\ e.time < n.deadline
    BY <1>2, <2>2, LifeAssumption
  <2>5. k + 1 .. Len(t) = {}
    BY <1>1
  <2>6. KnowsWithin(p, n, t, e.time)
    BY <1>2, <2>2, <2>3, <2>4, <2>5 DEF KnowsWithin
  <2>7. Knows(p, n, t, e.time)
    BY <2>2, <2>6 DEF Knows
  <2> QED BY <2>1, <2>7 DEF Conforms, Quiet
<1>7. CASE m.deadline # None
  <2>1. PICK a : /\ FirstAt(s, p.trigger, a) /\ m.trigger = s[a]
                 /\ \A i \in a + 1 .. Len(s) : s[i].status \notin p.response
    BY <1>3, <1>7 DEF KnowsWithin
  <2>2. e.time < m.deadline
    BY <1>3, <1>7 DEF KnowsWithin
  <2>3. FirstAt(t, p.trigger, a) /\ t[a] = s[a] /\ a \in 1 .. Len(s)
    <3>1. FirstAt(t, p.trigger, a) /\ t[a] = s[a]
      BY <2>1, ExtendedWhere
    <3>2. a \in 1 .. Len(s)
      BY <2>1 DEF FirstAt
    <3> QED BY <3>1, <3>2
  <2>4. \A i \in a + 1 .. Len(s) : t[i].status \notin p.response
    <3>1. \A i \in a + 1 .. Len(s) : i \in 1 .. Len(s)
      BY <1>1, <2>3
    <3> QED BY <2>1, <3>1, ExtendedFacts
  <2>5. t[a] \in Event /\ m.deadline = t[a].time + p.seconds /\ m.deadline \in Int
    <3>1. t[a] \in Event
      BY <2>3, ExtendedFacts
    <3>2. m.deadline = m.trigger.time + p.seconds
      BY <1>7 DEF Sound, Armed
    <3>3. m.deadline \in Int
      BY <1>7 DEF Sound, MonitorType
    <3> QED BY <2>1, <2>3, <3>1, <3>2, <3>3
  <2>6. CASE e.status \notin p.response
    <3>1. WithinOnEvent(p, m, e) = Quiet(m)
      BY <1>7, <2>6 DEF WithinOnEvent
    <3>2. \A i \in a + 1 .. Len(t) : i = k \/ i \in a + 1 .. Len(s)
      BY <1>1, <2>3
    <3>3. \A i \in a + 1 .. Len(t) : t[i].status \notin p.response
      BY <1>1, <2>4, <2>6, <3>2
    <3>4. KnowsWithin(p, m, t, e.time)
      BY <1>2, <1>3, <1>7, <2>1, <2>2, <2>3, <3>3 DEF KnowsWithin
    <3>5. Knows(p, m, t, e.time)
      BY <1>3, <3>4 DEF Knows
    <3> QED BY <3>1, <3>5 DEF Conforms, Quiet
  <2>7. CASE e.status \in p.response
    <3> DEFINE n == [m EXCEPT !.settled = TRUE, !.evidence = e]
               R == {i \in Meaning!Where(t, p.response) : a < i /\ t[i].time < m.deadline}
    <3>1. WithinOnEvent(p, m, e) = [monitor |-> n, status |-> "satisfied"]
      <4>1. e.time <= m.deadline
        BY <1>2, <2>2, <2>5
      <4> QED BY <1>7, <2>7, <4>1 DEF WithinOnEvent, Verdict
    <3>2. n.settled /\ n.trigger = t[a] /\ n.evidence = e
      BY <1>4, <2>1, <2>3
    <3>3. DecidingEvents(p, n) = <<t[a], e>>
      <4>1. DecidingEvents(p, n) = Kept(n.trigger) \o Kept(n.evidence)
        BY DEF DecidingEvents
      <4> QED BY <1>1, <2>5, <3>2, <4>1, KeptFacts
    <3>4. k \in R
      BY <1>1, <2>2, <2>3, <2>7 DEF Meaning!Where
    <3>5. \A i \in R : i = k
      <4> TAKE i \in R
      <4>1. i \in 1 .. k /\ a < i /\ t[i].status \in p.response
        BY <1>1 DEF Meaning!Where
      <4>2. i \notin a + 1 .. Len(s)
        BY <2>4, <4>1
      <4> QED BY <1>1, <2>3, <4>1, <4>2
    <3>6. Meaning!First(R) = k
      <4>1. R \subseteq Nat
        BY <1>1 DEF Meaning!Where
      <4>2. k \in R /\ \A j \in R : k <= j
        BY <1>1, <3>4, <3>5
      <4> HIDE DEF R, k
      <4> QED BY <4>1, <4>2, FirstIs
    <3>7. Meaning!Where(t, p.trigger) # {} /\ Meaning!First(Meaning!Where(t, p.trigger)) = a
      BY <1>1, <2>3, WhereFacts
    <3>8. Meaning!MeansWithin(p, t, e.time, FALSE) = Meaning!Decided("satisfied", e.time, <<t[a], e>>)
      BY <1>1, <2>5, <3>4, <3>6, <3>7 DEF Meaning!MeansWithin
    <3>9. Meaning!Means(p, t, e.time, FALSE) = Meaning!Decided("satisfied", e.time, <<t[a], e>>)
      BY <3>8 DEF Meaning!Means
    <3> HIDE DEF n
    <3> DEFINE r == [monitor |-> n, status |-> "satisfied"]
    <3>10. r.status # None /\ r.monitor.settled /\ r.status = "satisfied"
           /\ DecidingEvents(p, r.monitor) = <<t[a], e>>
      BY <3>2, <3>3, LifeAssumption
    <3> HIDE DEF r
    <3> QED BY <3>1, <3>9, <3>10 DEF Conforms, r
  <2> QED BY <2>6, <2>7
<1> QED BY <1>5, <1>6, <1>7

(* The last position of a set.                                             *)
LEMMA LastIs ==
  ASSUME NEW I, I \subseteq Nat, NEW i \in I, \A j \in I : j <= i
  PROVE  (CHOOSE x \in I : \A j \in I : j <= x) = i
<1> DEFINE x == CHOOSE x \in I : \A j \in I : j <= x
<1>1. x \in I /\ \A j \in I : j <= x
  OBVIOUS
<1>2. x \in Nat /\ i \in Nat /\ x <= i /\ i <= x
  BY <1>1
<1>3. \A y, z \in Nat : y <= z /\ z <= y => y = z
  OBVIOUS
<1> QED BY <1>2, <1>3

(* A nonempty set of positions has a last one.                             *)
LEMMA LastExists ==
  ASSUME NEW n \in Nat, NEW I, I \subseteq 1 .. n, I # {}
  PROVE  (CHOOSE x \in I : \A j \in I : j <= x) \in I
<1> DEFINE J == {x \in Nat : \E j \in I : x = n - j}
<1>1. J \subseteq Nat /\ \A j \in I : n - j \in J
  OBVIOUS
<1>2. PICK x \in J : \A y \in J : x <= y
  <2>1. J # {}
    BY <1>1
  <2> HIDE DEF J
  <2>2. Meaning!First(J) \in J /\ \A y \in J : Meaning!First(J) <= y
    BY <1>1, <2>1, FirstExists
  <2> QED BY <2>2
<1>3. PICK i \in I : x = n - i
  BY <1>2
<1>4. \A j \in I : n - i <= n - j
  BY <1>1, <1>2, <1>3
<1>5. \A j \in I : j <= i
  BY <1>4
<1> QED BY <1>5

(* What since means, by whether and where the chain breaks.                *)
LEMMA SinceMeans ==
  ASSUME NEW p, p.kind = "since", NEW t \in Seq(Event), NEW now, NEW b
  PROVE  /\ \A k \in 1 .. Len(t) : \A a \in 1 .. k :
              /\ Broken(p, t, k) /\ \A i \in 1 .. k - 1 : ~Broken(p, t, i)
              /\ t[a].status \in p.psi /\ \A i \in a + 1 .. k : t[i].status \notin p.psi
              => Meaning!Means(p, t, now, b) = Meaning!Decided("violated", t[k].time, <<t[a], t[k]>>)
         /\ \A a : (\A i \in 1 .. Len(t) : ~Broken(p, t, i)) /\ LastAt(t, p.psi, a)
              => Meaning!Means(p, t, now, b) = Meaning!AtEnd(b, "satisfied", now, <<t[a]>>)
         /\ (\A i \in 1 .. Len(t) : ~Broken(p, t, i)) /\ Nowhere(t, p.psi)
              => Meaning!Means(p, t, now, b) = Meaning!AtEnd(b, "satisfied", now, <<>>)
<1> DEFINE I == {i \in DOMAIN t : /\ t[i].status \notin p.phi \cup p.psi
                                  /\ \E j \in 1 .. i - 1 : t[j].status \in p.psi}
           upto == IF I = {} THEN Len(t) ELSE Meaning!First(I)
           anchors == {i \in Meaning!Where(t, p.psi) : i <= upto}
           anchor == IF anchors = {} THEN <<>>
                     ELSE <<t[CHOOSE i \in anchors : \A j \in anchors : j <= i]>>
<1>1. Meaning!Means(p, t, now, b)
        = IF I = {} THEN Meaning!AtEnd(b, "satisfied", now, anchor)
          ELSE Meaning!Decided("violated", t[upto].time, Append(anchor, t[upto]))
  BY DEF Meaning!Means, Meaning!MeansSince
<1>2. Len(t) \in Nat /\ DOMAIN t = 1 .. Len(t)
  OBVIOUS
<1>3. I = {i \in 1 .. Len(t) : Broken(p, t, i)}
  BY <1>2 DEF Broken
<1>4. anchors = {i \in 1 .. Len(t) : t[i].status \in p.psi /\ i <= upto}
  BY <1>2 DEF Meaning!Where
<1> HIDE DEF I
<1>5. ASSUME NEW k \in 1 .. Len(t), Broken(p, t, k), \A i \in 1 .. k - 1 : ~Broken(p, t, i)
      PROVE  I # {} /\ upto = k
  <2>1. k \in I /\ I \subseteq Nat
    BY <1>2, <1>3, <1>5
  <2>2. \A j \in I : k <= j
    BY <1>2, <1>3, <1>5
  <2> QED BY <2>1, <2>2, FirstIs
<1>6. (\A i \in 1 .. Len(t) : ~Broken(p, t, i)) => I = {} /\ upto = Len(t)
  BY <1>3
<1> HIDE DEF upto, anchors
<1>7. ASSUME NEW k \in 1 .. Len(t), upto = k, NEW a \in 1 .. k,
             t[a].status \in p.psi, \A i \in a + 1 .. k : t[i].status \notin p.psi
      PROVE  anchor = <<t[a]>>
  <2>1. a \in anchors /\ anchors \subseteq Nat
    BY <1>2, <1>4, <1>7
  <2>2. \A j \in anchors : j <= a
    BY <1>2, <1>4, <1>7
  <2>3. (CHOOSE x \in anchors : \A j \in anchors : j <= x) = a
    BY <2>1, <2>2, LastIs
  <2> QED BY <2>1, <2>3
<1>8. Nowhere(t, p.psi) => anchor = <<>>
  BY <1>4 DEF Nowhere
<1> HIDE DEF anchor
<1>9. \A i, j \in 1 .. Len(t) : Append(<<t[i]>>, t[j]) = <<t[i], t[j]>>
  BY Pair, ElementOfSeq
<1>10. ASSUME NEW k \in 1 .. Len(t), NEW a \in 1 .. k,
              Broken(p, t, k), \A i \in 1 .. k - 1 : ~Broken(p, t, i),
              t[a].status \in p.psi, \A i \in a + 1 .. k : t[i].status \notin p.psi
       PROVE  Meaning!Means(p, t, now, b) = Meaning!Decided("violated", t[k].time, <<t[a], t[k]>>)
  <2>1. I # {} /\ upto = k
    BY <1>5, <1>10
  <2>2. anchor = <<t[a]>>
    BY <1>7, <1>10, <2>1
  <2>3. Append(anchor, t[upto]) = <<t[a], t[k]>>
    BY <1>2, <1>9, <2>1, <2>2
  <2> QED BY <1>1, <2>1, <2>3
<1>11. ASSUME NEW a, \A i \in 1 .. Len(t) : ~Broken(p, t, i), LastAt(t, p.psi, a)
       PROVE  Meaning!Means(p, t, now, b) = Meaning!AtEnd(b, "satisfied", now, <<t[a]>>)
  <2>1. I = {} /\ upto = Len(t)
    BY <1>6, <1>11
  <2>2. Len(t) \in 1 .. Len(t) /\ a \in 1 .. Len(t) /\ t[a].status \in p.psi
        /\ \A i \in a + 1 .. Len(t) : t[i].status \notin p.psi
    BY <1>2, <1>11 DEF LastAt
  <2>3. anchor = <<t[a]>>
    BY <1>7, <2>1, <2>2
  <2> QED BY <1>1, <2>1, <2>3
<1> QED BY <1>1, <1>6, <1>8, <1>10, <1>11

(* The meaning of a since that is broken at k and was opened last at a.    *)
LEMMA SinceBroken ==
  ASSUME NEW p, p.kind = "since", NEW t \in Seq(Event), NEW now,
         NEW k \in 1 .. Len(t), NEW a \in 1 .. k,
         Broken(p, t, k), \A i \in 1 .. k - 1 : ~Broken(p, t, i),
         t[a].status \in p.psi, \A i \in a + 1 .. k : t[i].status \notin p.psi
  PROVE  Meaning!Means(p, t, now, FALSE) = Meaning!Decided("violated", t[k].time, <<t[a], t[k]>>)
<1> DEFINE b == FALSE
<1> HIDE DEF b
<1>1. Meaning!Means(p, t, now, b) = Meaning!Decided("violated", t[k].time, <<t[a], t[k]>>)
  BY SinceMeans
<1> QED BY <1>1 DEF b

(* since: violated by the first event that breaks the chain.               *)
LEMMA SinceConforms ==
  ASSUME NEW p \in Policies, p.kind = "since", NEW m, Sound(p, m),
         NEW s, NEW e, NEW t, Extended(s, e, t), Knows(p, m, s, e.time)
  PROVE  Conforms(p, SinceOnEvent(p, m, e), t, e.time)
<1> DEFINE k == Len(s) + 1
           psi == e.status \in p.psi
           newS == psi \/ (e.status \in p.phi /\ m.flag)
           n == [m EXCEPT !.flag = newS, !.started = @ \/ newS,
                          !.evidence = IF psi THEN e ELSE @]
<1>1. t \in Seq(Event) /\ t[k] = e /\ e \in Event /\ Len(s) \in Nat /\ Len(t) = k
      /\ \A i \in 1 .. Len(s) : t[i] = s[i]
  BY ExtendedFacts DEF Extended
<1>2. KnowsSince(p, m, s) /\ ~m.settled /\ m.trigger = None
  BY DEF Knows
<1>3. m.flag = m.started /\ m.flag \in BOOLEAN
  BY <1>2 DEF KnowsSince, Sound, MonitorType
<1>4. DOMAIN m = {"settled", "trigger", "deadline", "flag", "started", "evidence"}
  BY DEF Sound, MonitorType
<1>5. /\ n.flag = newS /\ n.started = (m.started \/ newS) /\ ~n.settled /\ n.trigger = None
      /\ n.evidence = IF psi THEN e ELSE m.evidence
  BY <1>2, <1>4
<1>6. Sound(p, n)
  <2>1. newS \in BOOLEAN /\ (m.started \/ newS) \in BOOLEAN
    OBVIOUS
  <2>2. n \in MonitorType
    BY <1>1, <2>1 DEF Sound, MonitorType
  <2>3. n.deadline = m.deadline
    BY <1>4
  <2> QED BY <2>2, <2>3 DEF Sound, Armed
<1>7. SinceOnEvent(p, m, e) = IF n.started /\ m.flag /\ ~newS THEN Settle(n, e, "violated") ELSE Quiet(n)
  BY DEF SinceOnEvent
<1> HIDE DEF n
<1>8. \A i \in 1 .. Len(s) : ~Broken(p, t, i)
  <2> TAKE i \in 1 .. Len(s)
  <2>1. ~Broken(p, s, i)
    BY <1>2 DEF KnowsSince
  <2>2. t[i] = s[i] /\ \A j \in 1 .. i - 1 : t[j] = s[j]
    BY <1>1
  <2> QED BY <2>1, <2>2 DEF Broken
<1>9. CASE psi
  <2>1. ~Broken(p, t, k)
    BY <1>1, <1>9 DEF Broken
  <2>2. LastAt(t, p.psi, k) /\ n.evidence = t[k]
    BY <1>1, <1>5, <1>9 DEF LastAt
  <2>3. n.flag /\ n.started
    BY <1>5, <1>9
  <2>4. \A i \in 1 .. Len(t) : ~Broken(p, t, i)
    BY <1>1, <1>8, <2>1
  <2>5. n.flag = n.started
    BY <1>5, <1>9
  <2>6. KnowsSince(p, n, t)
    BY <2>2, <2>3, <2>4, <2>5 DEF KnowsSince
  <2>7. Knows(p, n, t, e.time)
    BY <1>5, <2>6 DEF Knows
  <2>8. SinceOnEvent(p, m, e) = Quiet(n)
    BY <1>7, <1>9
  <2> QED BY <2>7, <2>8 DEF Conforms, Quiet
<1>10. CASE ~psi /\ m.flag
  <2>1. PICK a : LastAt(s, p.psi, a) /\ m.evidence = s[a]
    BY <1>2, <1>3, <1>10 DEF KnowsSince
  <2>2. a \in 1 .. Len(s) /\ t[a] = s[a] /\ t[a].status \in p.psi /\ t[a] \in Event
    BY <1>1, <2>1, ExtendedFacts DEF LastAt
  <2>3. \A i \in a + 1 .. k : t[i].status \notin p.psi
    <3> TAKE i \in a + 1 .. k
    <3>1. CASE i = k
      BY <1>1, <1>10, <3>1
    <3>2. CASE i # k
      <4>1. i \in a + 1 .. Len(s) /\ i \in 1 .. Len(s)
        BY <1>1, <2>2, <3>2
      <4>2. s[i].status \notin p.psi
        BY <2>1, <4>1 DEF LastAt
      <4> QED BY <1>1, <4>1, <4>2
    <3> QED BY <3>1, <3>2
  <2>4. n.evidence = t[a] /\ n.started
    BY <1>3, <1>5, <1>10, <2>1, <2>2
  <2>5. CASE newS
    <3>1. ~Broken(p, t, k)
      BY <1>1, <1>10, <2>5 DEF Broken
    <3>2. \A i \in 1 .. Len(t) : ~Broken(p, t, i)
      BY <1>1, <1>8, <3>1
    <3>3. LastAt(t, p.psi, a)
      BY <1>1, <2>2, <2>3 DEF LastAt
    <3>4. n.flag = n.started
      BY <1>5, <2>5
    <3>5. Knows(p, n, t, e.time)
      BY <1>5, <2>4, <3>2, <3>3, <3>4 DEF Knows, KnowsSince
    <3> QED BY <1>7, <2>5, <3>5 DEF Conforms, Quiet
  <2>6. CASE ~newS
    <3> DEFINE r == Settle(n, e, "violated")
    <3>1. SinceOnEvent(p, m, e) = r
      BY <1>7, <1>10, <2>4, <2>6
    <3>2. r.status = "violated" /\ r.monitor.settled /\ r.monitor.trigger = e /\ r.monitor.evidence = t[a]
      BY <1>1, <1>6, <2>4, SettleFacts
    <3>3. DecidingEvents(p, r.monitor) = <<t[a], e>>
      <4>1. DecidingEvents(p, r.monitor) = Kept(r.monitor.evidence) \o Kept(r.monitor.trigger)
        BY DEF DecidingEvents
      <4> QED BY <1>1, <2>2, <3>2, <4>1, KeptFacts
    <3>4. Broken(p, t, k)
      <4>1. a \in 1 .. k - 1
        BY <1>1, <2>2
      <4>2. e.status \notin p.phi \cup p.psi
        BY <1>10, <2>6
      <4> QED BY <1>1, <2>2, <4>1, <4>2 DEF Broken
    <3>5. k \in 1 .. Len(t) /\ a \in 1 .. k /\ \A i \in 1 .. k - 1 : ~Broken(p, t, i)
      BY <1>1, <1>8, <2>2
    <3>6. Meaning!Means(p, t, e.time, FALSE) = Meaning!Decided("violated", e.time, <<t[a], e>>)
      <4>1. FALSE \in BOOLEAN /\ t \in Seq(Event)
        BY <1>1
      <4>2. Meaning!Means(p, t, e.time, FALSE) = Meaning!Decided("violated", t[k].time, <<t[a], t[k]>>)
        <5> HIDE DEF k, psi, newS
        <5>1. t[a].status \in p.psi
          BY <2>2
        <5> QED BY <5>1, <2>3, <3>4, <3>5, <4>1, SinceBroken
      <4> QED BY <1>1, <4>2
    <3> HIDE DEF r
    <3> QED BY <3>1, <3>2, <3>3, <3>6, LifeAssumption DEF Conforms
  <2> QED BY <2>5, <2>6
<1>11. CASE ~psi /\ ~m.flag
  <2>1. ~newS /\ ~m.started
    BY <1>3, <1>11
  <2>2. n.flag = n.started /\ ~n.started /\ n.evidence = m.evidence
    BY <1>3, <1>5, <1>11, <2>1
  <2>3. Nowhere(s, p.psi) /\ m.evidence = None
    BY <1>2, <2>1 DEF KnowsSince
  <2>4. Nowhere(t, p.psi)
    BY <1>11, <2>3, ExtendedWhere
  <2>5. \A j \in 1 .. k - 1 : t[j].status \notin p.psi
    BY <1>1, <2>4 DEF Nowhere
  <2>6. ~Broken(p, t, k)
    BY <2>5 DEF Broken
  <2>7. \A i \in 1 .. Len(t) : ~Broken(p, t, i)
    BY <1>1, <1>8, <2>6
  <2>8. Knows(p, n, t, e.time)
    BY <1>5, <2>2, <2>3, <2>4, <2>7 DEF Knows, KnowsSince
  <2> QED BY <1>7, <1>11, <2>8 DEF Conforms, Quiet
<1> QED BY <1>9, <1>10, <1>11

(* What scoped_never means, by where the first bad event in a scope is.    *)
LEMMA ScopedMeans ==
  ASSUME NEW p, p.kind = "scoped_never", NEW t \in Seq(Event), NEW now, NEW b
  PROVE  /\ \A k \in 1 .. Len(t) : \A a \in Openings(p, t, k) :
              /\ t[k].status \in p.bad
              /\ \A i \in 1 .. k - 1 : t[i].status \in p.bad => Openings(p, t, i) = {}
              /\ \A j \in Openings(p, t, k) : a <= j
              => Meaning!Means(p, t, now, b)
                   = Meaning!Decided("violated", t[k].time,
                                     IF a = k THEN <<t[k]>> ELSE <<t[a], t[k]>>)
         /\ (\A i \in 1 .. Len(t) : t[i].status \in p.bad => Openings(p, t, i) = {})
              => Meaning!Means(p, t, now, b) = Meaning!AtEnd(b, "satisfied", now, <<>>)
<1> DEFINE I == {i \in Meaning!Where(t, p.bad) : \E j \in 1 .. i : Meaning!OpenFrom(p, t, j, i)}
           f == Meaning!First(I)
           opening == Meaning!First(Openings(p, t, f))
<1>1. Meaning!Means(p, t, now, b)
        = IF I = {} THEN Meaning!AtEnd(b, "satisfied", now, <<>>)
          ELSE Meaning!Decided("violated", t[f].time,
                               IF opening = f THEN <<t[f]>> ELSE <<t[opening], t[f]>>)
  BY DEF Meaning!Means, Meaning!MeansScopedNever, Openings
<1>2. Len(t) \in Nat /\ DOMAIN t = 1 .. Len(t)
  OBVIOUS
<1>3. I = {i \in 1 .. Len(t) : t[i].status \in p.bad /\ Openings(p, t, i) # {}}
  BY <1>2 DEF Meaning!Where, Openings
<1> HIDE DEF I, f, opening
<1>4. ASSUME NEW k \in 1 .. Len(t), NEW a \in Openings(p, t, k), t[k].status \in p.bad,
             \A i \in 1 .. k - 1 : t[i].status \in p.bad => Openings(p, t, i) = {},
             \A j \in Openings(p, t, k) : a <= j
      PROVE  I # {} /\ f = k /\ opening = a
  <2>1. k \in I /\ I \subseteq Nat
    BY <1>2, <1>3, <1>4
  <2>2. \A j \in I : k <= j
    BY <1>2, <1>3, <1>4
  <2>3. f = k
    BY <2>1, <2>2, FirstIs DEF f
  <2>4. Openings(p, t, k) \subseteq Nat
    BY DEF Openings
  <2>5. Meaning!First(Openings(p, t, k)) = a
    BY <1>4, <2>4, FirstIs
  <2> QED BY <2>1, <2>3, <2>5 DEF opening
<1>5. ASSUME NEW k \in 1 .. Len(t), NEW a \in Openings(p, t, k), t[k].status \in p.bad,
             \A i \in 1 .. k - 1 : t[i].status \in p.bad => Openings(p, t, i) = {},
             \A j \in Openings(p, t, k) : a <= j
      PROVE  Meaning!Means(p, t, now, b)
               = Meaning!Decided("violated", t[k].time,
                                 IF a = k THEN <<t[k]>> ELSE <<t[a], t[k]>>)
  BY <1>1, <1>4, <1>5
<1>6. (\A i \in 1 .. Len(t) : t[i].status \in p.bad => Openings(p, t, i) = {}) => I = {}
  BY <1>3
<1> QED BY <1>1, <1>5, <1>6

(* The meaning of a scoped never that is broken at k inside a scope opened *)
(* at a.                                                                   *)
LEMMA ScopedBroken ==
  ASSUME NEW p, p.kind = "scoped_never", NEW t \in Seq(Event), NEW now,
         NEW k \in 1 .. Len(t), NEW a \in Openings(p, t, k), t[k].status \in p.bad,
         \A i \in 1 .. k - 1 : t[i].status \in p.bad => Openings(p, t, i) = {},
         \A j \in Openings(p, t, k) : a <= j
  PROVE  /\ a = k => Meaning!Means(p, t, now, FALSE) = Meaning!Decided("violated", t[k].time, <<t[k]>>)
         /\ a # k => Meaning!Means(p, t, now, FALSE) = Meaning!Decided("violated", t[k].time, <<t[a], t[k]>>)
<1> DEFINE b == FALSE
<1> HIDE DEF b
<1>1. Meaning!Means(p, t, now, b)
        = Meaning!Decided("violated", t[k].time, IF a = k THEN <<t[k]>> ELSE <<t[a], t[k]>>)
  BY ScopedMeans
<1> QED BY <1>1 DEF b

(* How an event moves the scope.                                           *)
LEMMA ExtendedOpenings ==
  ASSUME NEW p, NEW s, NEW e, NEW t, Extended(s, e, t)
  PROVE  /\ \A i \in 1 .. Len(s) : Openings(p, t, i) = Openings(p, s, i)
         /\ e.status \in p.close /\ e.status \notin p.open => Openings(p, t, Len(s) + 1) = {}
         /\ e.status \notin p.close /\ e.status \in p.open =>
              Openings(p, t, Len(s) + 1) = Openings(p, s, Len(s)) \cup {Len(s) + 1}
         /\ e.status \notin p.close /\ e.status \notin p.open =>
              Openings(p, t, Len(s) + 1) = Openings(p, s, Len(s))
<1> DEFINE k == Len(s) + 1
<1>1. Len(s) \in Nat /\ t[k] = e /\ \A i \in 1 .. Len(s) : t[i] = s[i]
  BY ExtendedFacts
<1>2. \A i \in 1 .. Len(s) : \A j \in 1 .. i : Meaning!OpenFrom(p, t, j, i) <=> Meaning!OpenFrom(p, s, j, i)
  <2> TAKE i \in 1 .. Len(s)
  <2> TAKE j \in 1 .. i
  <2>1. j \in 1 .. Len(s) /\ \A x \in j + 1 .. i : x \in 1 .. Len(s)
    BY <1>1
  <2>2. t[j] = s[j] /\ \A x \in j + 1 .. i : t[x] = s[x]
    BY <1>1, <2>1
  <2> QED BY <2>2 DEF Meaning!OpenFrom
<1>3. \A i \in 1 .. Len(s) : Openings(p, t, i) = Openings(p, s, i)
  BY <1>2 DEF Openings
<1>4. \A j \in 1 .. Len(s) :
        Meaning!OpenFrom(p, t, j, k) <=> Meaning!OpenFrom(p, s, j, Len(s)) /\ e.status \notin p.close
  <2> TAKE j \in 1 .. Len(s)
  <2>1. \A x \in j + 1 .. Len(s) : t[x] = s[x]
    BY <1>1
  <2>2. \A x : x \in j + 1 .. k <=> x \in j + 1 .. Len(s) \/ x = k
    BY <1>1
  <2>3. t[j] = s[j]
    BY <1>1
  <2> QED BY <1>1, <2>1, <2>2, <2>3 DEF Meaning!OpenFrom
<1>5. Meaning!OpenFrom(p, t, k, k) <=> e.status \in p.open
  BY <1>1 DEF Meaning!OpenFrom
<1>6. \A j : j \in 1 .. k <=> j \in 1 .. Len(s) \/ j = k
  BY <1>1
<1>7. \A j : j \in Openings(p, t, k) <=>
        \/ j \in Openings(p, s, Len(s)) /\ e.status \notin p.close
        \/ j = k /\ e.status \in p.open
  BY <1>4, <1>5, <1>6 DEF Openings
<1> QED BY <1>3, <1>7

(* scoped_never: violated by the first bad event while the scope is open;  *)
(* no later opening replaces the one the evidence names.                   *)
LEMMA ScopedNeverConforms ==
  ASSUME NEW p \in Policies, p.kind = "scoped_never", WellPosed(p), NEW m, Sound(p, m),
         NEW s, NEW e, NEW t, Extended(s, e, t), Knows(p, m, s, e.time)
  PROVE  Conforms(p, ScopedNeverOnEvent(p, m, e), t, e.time)
<1> DEFINE k == Len(s) + 1
           n == MoveScope(p, m, e)
<1>1. t \in Seq(Event) /\ t[k] = e /\ e \in Event /\ Len(s) \in Nat /\ Len(t) = k
      /\ \A i \in 1 .. Len(s) : t[i] = s[i]
  BY ExtendedFacts DEF Extended
<1>2. KnowsScopedNever(p, m, s) /\ ~m.settled /\ m.trigger = None
  BY DEF Knows
<1>3. DOMAIN m = {"settled", "trigger", "deadline", "flag", "started", "evidence"}
  BY DEF Sound, MonitorType
<1>4. p.open \cap p.close = {}
  BY DEF WellPosed
<1>5. Sound(p, n) /\ ~n.settled /\ n.trigger = None
  BY <1>1, <1>2 DEF MoveScope, Sound, MonitorType, Armed
<1>6. IF n.flag
      THEN \E a \in Openings(p, t, k) :
             (\A j \in Openings(p, t, k) : a <= j) /\ n.evidence = t[a]
      ELSE Openings(p, t, k) = {}
  <2>1. CASE ~m.flag /\ e.status \in p.open
    <3>1. n.flag /\ n.evidence = e
      BY <1>3, <2>1 DEF MoveScope
    <3>2. Openings(p, s, Len(s)) = {}
      BY <1>2, <2>1 DEF KnowsScopedNever
    <3>3. Openings(p, t, k) = {k}
      BY <1>4, <2>1, <3>2, ExtendedOpenings
    <3> QED BY <1>1, <3>1, <3>3
  <2>2. CASE m.flag /\ e.status \in p.close
    <3>1. ~n.flag
      BY <1>3, <2>2 DEF MoveScope
    <3>2. Openings(p, t, k) = {}
      BY <1>4, <2>2, ExtendedOpenings
    <3> QED BY <3>1, <3>2
  <2>3. CASE m.flag /\ e.status \notin p.close
    <3>1. n = m
      BY <2>3 DEF MoveScope
    <3>2. PICK a \in Openings(p, s, Len(s)) :
            (\A j \in Openings(p, s, Len(s)) : a <= j) /\ m.evidence = s[a]
      BY <1>2, <2>3 DEF KnowsScopedNever
    <3>3. a \in 1 .. Len(s) /\ t[a] = s[a]
      BY <1>1 DEF Openings
    <3>4. Openings(p, t, k) \in {Openings(p, s, Len(s)), Openings(p, s, Len(s)) \cup {k}}
      BY <2>3, ExtendedOpenings
    <3>5. a \in Openings(p, t, k) /\ \A j \in Openings(p, t, k) : a <= j
      BY <1>1, <3>2, <3>3, <3>4
    <3> QED BY <2>3, <3>1, <3>2, <3>3, <3>5
  <2>4. CASE ~m.flag /\ e.status \notin p.open
    <3>1. n = m
      BY <2>4 DEF MoveScope
    <3>2. Openings(p, s, Len(s)) = {}
      BY <1>2, <2>4 DEF KnowsScopedNever
    <3>3. Openings(p, t, k) = {}
      BY <2>4, <3>2, ExtendedOpenings
    <3> QED BY <2>4, <3>1, <3>3
  <2> QED BY <2>1, <2>2, <2>3, <2>4
<1>7. ~n.flag => n.evidence = None
  BY <1>2, <1>3 DEF MoveScope, KnowsScopedNever
<1>8. \A i \in 1 .. Len(s) : t[i].status \in p.bad => Openings(p, t, i) = {}
  BY <1>1, <1>2, ExtendedOpenings DEF KnowsScopedNever
<1>9. ScopedNeverOnEvent(p, m, e)
        = IF n.flag /\ e.status \in p.bad THEN Settle(n, e, "violated") ELSE Quiet(n)
  BY DEF ScopedNeverOnEvent
<1> HIDE DEF n
<1>10. CASE ~(n.flag /\ e.status \in p.bad)
  <2>1. ScopedNeverOnEvent(p, m, e) = Quiet(n)
    BY <1>9, <1>10
  <2>2. e.status \in p.bad => Openings(p, t, k) = {}
    BY <1>6, <1>10
  <2>3. \A i \in 1 .. Len(t) : t[i].status \in p.bad => Openings(p, t, i) = {}
    BY <1>1, <1>8, <2>2
  <2>4. KnowsScopedNever(p, n, t)
    BY <1>1, <1>6, <1>7, <2>3 DEF KnowsScopedNever
  <2>5. Knows(p, n, t, e.time)
    BY <1>5, <2>4 DEF Knows
  <2> QED BY <2>1, <2>5 DEF Conforms, Quiet
<1>11. CASE n.flag /\ e.status \in p.bad
  <2> DEFINE r == Settle(n, e, "violated")
  <2>1. ScopedNeverOnEvent(p, m, e) = r
    BY <1>9, <1>11
  <2>2. PICK a \in Openings(p, t, k) :
          (\A j \in Openings(p, t, k) : a <= j) /\ n.evidence = t[a]
    BY <1>6, <1>11
  <2>3. a \in 1 .. k /\ t[a].status \in p.open /\ t[a] \in Event
    <3>1. a \in 1 .. k /\ t[a].status \in p.open
      BY DEF Openings, Meaning!OpenFrom
    <3> QED BY <1>1, <3>1, ElementOfSeq
  <2>4. a # k => t[a] # e
    <3> SUFFICES ASSUME a # k, t[a] = e PROVE FALSE
      OBVIOUS
    <3>1. a \in 1 .. Len(s) /\ t[a].status \in p.bad
      BY <1>1, <1>11, <2>3
    <3>2. a \in Openings(p, t, a)
      BY <1>1, <2>3, <3>1 DEF Openings, Meaning!OpenFrom
    <3> QED BY <1>8, <3>1, <3>2
  <2>5. /\ r.status = "violated" /\ r.monitor.settled
        /\ r.monitor.trigger = e /\ r.monitor.evidence = t[a]
    BY <1>1, <1>5, <2>2, SettleFacts
  <2>6. DecidingEvents(p, r.monitor) = IF a = k THEN <<t[k]>> ELSE <<t[a], t[k]>>
    <3>1. DecidingEvents(p, r.monitor)
            = IF r.monitor.trigger = None THEN <<>>
              ELSE IF r.monitor.evidence \in {None, r.monitor.trigger} THEN <<r.monitor.trigger>>
              ELSE <<r.monitor.evidence, r.monitor.trigger>>
      BY DEF DecidingEvents
    <3>2. e # None /\ t[a] # None
      BY <1>1, <2>3, NoneIsNoEvent
    <3> QED BY <1>1, <2>4, <2>5, <3>1, <3>2
  <2>7. Meaning!Means(p, t, e.time, FALSE)
          = Meaning!Decided("violated", t[k].time, IF a = k THEN <<t[k]>> ELSE <<t[a], t[k]>>)
    <3>1. k \in 1 .. Len(t) /\ t[k].status \in p.bad
      BY <1>1, <1>11
    <3>2. \A i \in 1 .. k - 1 : t[i].status \in p.bad => Openings(p, t, i) = {}
      BY <1>1, <1>8
    <3>3. \A j \in Openings(p, t, k) : a <= j
      BY <2>2
    <3>4. t \in Seq(Event)
      BY <1>1
    <3> HIDE DEF k
    <3>5. /\ a = k => Meaning!Means(p, t, e.time, FALSE) = Meaning!Decided("violated", t[k].time, <<t[k]>>)
          /\ a # k => Meaning!Means(p, t, e.time, FALSE) = Meaning!Decided("violated", t[k].time, <<t[a], t[k]>>)
      BY <3>1, <3>2, <3>3, <3>4, ScopedBroken
    <3> QED BY <3>5
  <2> HIDE DEF r
  <2> QED BY <1>1, <2>1, <2>5, <2>6, <2>7, LifeAssumption DEF Conforms
<1> QED BY <1>10, <1>11

(* The handler of whatever kind the policy is.                             *)
LEMMA OnEventConforms ==
  ASSUME NEW p \in Policies, WellPosed(p), NEW m, Sound(p, m),
         NEW s, NEW e, NEW t, Extended(s, e, t), Knows(p, m, s, e.time)
  PROVE  Conforms(p, OnEvent(p, m, e), t, e.time)
<1>1. p.kind \in Kinds /\ ~m.settled
  BY LifeAssumption DEF Knows
<1>2. CASE p.kind = "never"
  BY <1>1, <1>2, NeverConforms DEF OnEvent
<1>3. CASE p.kind = "once"
  BY <1>1, <1>3, OnceConforms DEF OnEvent
<1>4. CASE p.kind = "historically"
  BY <1>1, <1>4, HistoricallyConforms DEF OnEvent
<1>5. CASE p.kind = "within"
  BY <1>1, <1>5, WithinConforms DEF OnEvent
<1>6. CASE p.kind = "before"
  BY <1>1, <1>6, BeforeConforms DEF OnEvent
<1>7. CASE p.kind = "scoped_never"
  BY <1>1, <1>7, ScopedNeverConforms DEF OnEvent
<1>8. CASE p.kind = "previously"
  BY <1>1, <1>8, PreviouslyConforms DEF OnEvent
<1>9. CASE p.kind = "since"
  BY <1>1, <1>9, SinceConforms DEF OnEvent
<1> QED BY <1>1, <1>2, <1>3, <1>4, <1>5, <1>6, <1>7, <1>8, <1>9 DEF Kinds

-----------------------------------------------------------------------------
(* A pending obligation, to the definition: no response since the trigger. *)
LEMMA WithinPending ==
  ASSUME NEW p \in Policies, p.kind = "within", NEW m, Sound(p, m), NEW s \in Seq(Event),
         NEW a, FirstAt(s, p.trigger, a), m.trigger = s[a], m.deadline # None,
         \A i \in a + 1 .. Len(s) : s[i].status \notin p.response, NEW now \in Int
  PROVE  /\ m.deadline \in Int /\ s[a] \in Event
         /\ \A b : Meaning!MeansWithin(p, s, now, b)
              = IF m.deadline <= now THEN Meaning!Decided("violated", m.deadline, <<s[a]>>)
                ELSE Meaning!AtEnd(b, "violated", now, <<s[a]>>)
<1> DEFINE R == {i \in Meaning!Where(s, p.response) : a < i /\ s[i].time < m.deadline}
<1>1. m.deadline \in Int /\ m.deadline = s[a].time + p.seconds
  BY DEF Sound, Armed, MonitorType
<1>2. DOMAIN s = 1 .. Len(s) /\ Len(s) \in Nat /\ a \in 1 .. Len(s)
  BY DEF FirstAt
<1>3. Meaning!Where(s, p.trigger) # {} /\ Meaning!First(Meaning!Where(s, p.trigger)) = a
  BY WhereFacts
<1>4. R = {}
  <2> SUFFICES ASSUME NEW i \in R PROVE FALSE
    OBVIOUS
  <2>1. i \in 1 .. Len(s) /\ a < i /\ s[i].status \in p.response
    BY <1>2 DEF Meaning!Where
  <2>2. i \in a + 1 .. Len(s)
    BY <1>2, <2>1
  <2> QED BY <2>1, <2>2
<1>5. s[a] \in Event
  BY <1>2, ElementOfSeq
<1> QED BY <1>1, <1>3, <1>4, <1>5 DEF Meaning!MeansWithin

(* Knowledge decides nothing yet, and says what the end would decide.      *)
LEMMA KnowsMeans ==
  ASSUME NEW p \in Policies, NEW m, Sound(p, m), NEW s \in Seq(Event), NEW now,
         Knows(p, m, s, now)
  PROVE  /\ Meaning!Means(p, s, now, FALSE) = Meaning!Pending
         /\ Meaning!Means(p, s, now, TRUE)
              = IF Final(p, m) = None THEN Meaning!Pending
                ELSE Meaning!Decided(Final(p, m), now, DecidingEvents(p, OnTerminal(p, m).monitor))
<1> DEFINE n == [m EXCEPT !.settled = TRUE]
<1>1. p.kind \in Kinds /\ ~m.settled
  BY LifeAssumption DEF Knows
<1>2. DOMAIN m = {"settled", "trigger", "deadline", "flag", "started", "evidence"}
  BY DEF Sound, MonitorType
<1>3. n.settled /\ n.trigger = m.trigger /\ n.evidence = m.evidence
  BY <1>2
<1>4. Final(p, m) # None => OnTerminal(p, m).monitor = n
  BY <1>1 DEF OnTerminal
<1>5. "satisfied" # None /\ "violated" # None
  BY LifeAssumption
<1> HIDE DEF n
<1>6. CASE p.kind = "never"
  <2>1. Meaning!Where(s, p.bad) = {} /\ n.trigger = None
    BY <1>3, <1>6, WhereFacts DEF Knows
  <2>2. Final(p, m) = "satisfied" /\ DecidingEvents(p, n) = <<>>
    BY <1>6, <2>1 DEF Final, DecidingEvents, Kept
  <2>3. /\ Meaning!MeansNever(p, s, now, FALSE) = Meaning!Pending
        /\ Meaning!MeansNever(p, s, now, TRUE) = Meaning!Decided("satisfied", now, <<>>)
    BY <2>1 DEF Meaning!MeansNever, Meaning!AtEnd
  <2> QED BY <1>4, <1>5, <1>6, <2>2, <2>3 DEF Meaning!Means
<1>7. CASE p.kind = "once"
  <2>1. Meaning!Where(s, p.good) = {} /\ n.trigger = None
    BY <1>3, <1>7, WhereFacts DEF Knows
  <2>2. Final(p, m) = "violated" /\ DecidingEvents(p, n) = <<>>
    BY <1>7, <2>1 DEF Final, DecidingEvents, Kept
  <2>3. /\ Meaning!MeansOnce(p, s, now, FALSE) = Meaning!Pending
        /\ Meaning!MeansOnce(p, s, now, TRUE) = Meaning!Decided("violated", now, <<>>)
    BY <2>1 DEF Meaning!MeansOnce, Meaning!AtEnd
  <2> QED BY <1>4, <1>5, <1>7, <2>2, <2>3 DEF Meaning!Means
<1>8. CASE p.kind = "historically"
  <2>1. DOMAIN s \ Meaning!Where(s, p.phi) = {} /\ n.trigger = None
    BY <1>3, <1>8, WhereFacts, Complement DEF Knows
  <2>2. Final(p, m) = "satisfied" /\ DecidingEvents(p, n) = <<>>
    BY <1>8, <2>1 DEF Final, DecidingEvents, Kept
  <2>3. /\ Meaning!MeansHistorically(p, s, now, FALSE) = Meaning!Pending
        /\ Meaning!MeansHistorically(p, s, now, TRUE) = Meaning!Decided("satisfied", now, <<>>)
    BY <2>1 DEF Meaning!MeansHistorically, Meaning!AtEnd
  <2> QED BY <1>4, <1>5, <1>8, <2>2, <2>3 DEF Meaning!Means
<1>9. CASE p.kind = "within"
  <2>1. KnowsWithin(p, m, s, now)
    BY <1>9 DEF Knows
  <2>2. CASE m.deadline = None
    <3>1. Meaning!Where(s, p.trigger) = {}
      BY <2>1, <2>2, WhereFacts DEF KnowsWithin
    <3>2. Final(p, m) = None
      BY <1>9, <2>2 DEF Final
    <3>3. Meaning!MeansWithin(p, s, now, FALSE) = Meaning!Pending
          /\ Meaning!MeansWithin(p, s, now, TRUE) = Meaning!Pending
      BY <3>1 DEF Meaning!MeansWithin
    <3> QED BY <1>9, <3>2, <3>3 DEF Meaning!Means
  <2>3. CASE m.deadline # None
    <3>1. PICK a : /\ FirstAt(s, p.trigger, a) /\ m.trigger = s[a]
                   /\ \A i \in a + 1 .. Len(s) : s[i].status \notin p.response
      BY <2>1, <2>3 DEF KnowsWithin
    <3>2. now \in Int /\ now < m.deadline /\ m.evidence = None
      BY <2>1, <2>3 DEF KnowsWithin
    <3>3. m.deadline \in Int /\ s[a] \in Event
      BY <1>9, <2>3, <3>1, <3>2, WithinPending
    <3>4. ~(m.deadline <= now)
      BY <3>2, <3>3
    <3>5. \A b : Meaning!MeansWithin(p, s, now, b) = Meaning!AtEnd(b, "violated", now, <<s[a]>>)
      <4>1. \A b : Meaning!MeansWithin(p, s, now, b)
                = IF m.deadline <= now THEN Meaning!Decided("violated", m.deadline, <<s[a]>>)
                  ELSE Meaning!AtEnd(b, "violated", now, <<s[a]>>)
        BY <1>9, <2>3, <3>1, <3>2, WithinPending
      <4> QED BY <3>4, <4>1
    <3>6. /\ Meaning!MeansWithin(p, s, now, FALSE) = Meaning!Pending
          /\ Meaning!MeansWithin(p, s, now, TRUE) = Meaning!Decided("violated", now, <<s[a]>>)
      BY <3>5 DEF Meaning!AtEnd
    <3>7. Final(p, m) = "violated" /\ DecidingEvents(p, n) = <<s[a]>>
      BY <1>3, <1>9, <2>3, <3>1, <3>2, <3>3, KeptFacts DEF Final, DecidingEvents
    <3> QED BY <1>4, <1>5, <1>9, <3>6, <3>7 DEF Meaning!Means
  <2> QED BY <2>2, <2>3
<1>10. CASE p.kind = "before"
  <2>1. Meaning!Where(s, p.trigger) = {}
    BY <1>10, WhereFacts DEF Knows, KnowsBefore
  <2>2. Final(p, m) = None
    BY <1>10 DEF Final
  <2>3. Meaning!MeansBefore(p, s, now, FALSE) = Meaning!Pending
        /\ Meaning!MeansBefore(p, s, now, TRUE) = Meaning!Pending
    BY <2>1 DEF Meaning!MeansBefore
  <2> QED BY <1>10, <2>2, <2>3 DEF Meaning!Means
<1>11. CASE p.kind = "scoped_never"
  <2>1. /\ \A i \in 1 .. Len(s) : s[i].status \in p.bad => Openings(p, s, i) = {}
        /\ n.trigger = None
    BY <1>3, <1>11 DEF Knows, KnowsScopedNever
  <2>2. Final(p, m) = "satisfied" /\ DecidingEvents(p, n) = <<>>
    BY <1>11, <2>1 DEF Final, DecidingEvents
  <2>3. {i \in Meaning!Where(s, p.bad) : \E j \in 1 .. i : Meaning!OpenFrom(p, s, j, i)} = {}
    BY <2>1, LenProperties DEF Meaning!Where, Openings
  <2>4. /\ Meaning!MeansScopedNever(p, s, now, FALSE) = Meaning!Pending
        /\ Meaning!MeansScopedNever(p, s, now, TRUE) = Meaning!Decided("satisfied", now, <<>>)
    BY <2>3 DEF Meaning!MeansScopedNever, Meaning!AtEnd
  <2> QED BY <1>4, <1>5, <1>11, <2>2, <2>4 DEF Meaning!Means
<1>12. CASE p.kind = "previously"
  <2>1. Meaning!Where(s, p.trigger) = {}
    BY <1>12, WhereFacts DEF Knows, KnowsPreviously
  <2>2. Final(p, m) = None
    BY <1>12 DEF Final
  <2>3. Meaning!MeansPreviously(p, s, now, FALSE) = Meaning!Pending
        /\ Meaning!MeansPreviously(p, s, now, TRUE) = Meaning!Pending
    BY <2>1 DEF Meaning!MeansPreviously
  <2> QED BY <1>12, <2>2, <2>3 DEF Meaning!Means
<1>13. CASE p.kind = "since"
  <2>1. KnowsSince(p, m, s) /\ m.trigger = None
    BY <1>13 DEF Knows
  <2>2. Final(p, m) = "satisfied" /\ DecidingEvents(p, n) = Kept(m.evidence) \o Kept(None)
    BY <1>3, <1>13, <2>1 DEF Final, DecidingEvents
  <2>3. \A i \in 1 .. Len(s) : ~Broken(p, s, i)
    BY <2>1 DEF KnowsSince
  <2>4. \E x : \A b : /\ Meaning!Means(p, s, now, b) = Meaning!AtEnd(b, "satisfied", now, x)
                      /\ DecidingEvents(p, n) = x
    <3>1. CASE m.started
      <4>1. PICK a : LastAt(s, p.psi, a) /\ m.evidence = s[a]
        BY <2>1, <3>1 DEF KnowsSince
      <4>2. s[a] \in Event
        BY <4>1, ElementOfSeq DEF LastAt
      <4>3. DecidingEvents(p, n) = <<s[a]>>
        BY <2>2, <4>1, <4>2, KeptFacts
      <4>4. \A b : Meaning!Means(p, s, now, b) = Meaning!AtEnd(b, "satisfied", now, <<s[a]>>)
        BY <1>13, <2>3, <4>1, SinceMeans
      <4> QED BY <4>3, <4>4
    <3>2. CASE ~m.started
      <4>1. Nowhere(s, p.psi) /\ m.evidence = None
        BY <2>1, <3>2 DEF KnowsSince
      <4>2. DecidingEvents(p, n) = <<>>
        BY <2>2, <4>1 DEF Kept
      <4>3. \A b : Meaning!Means(p, s, now, b) = Meaning!AtEnd(b, "satisfied", now, <<>>)
        BY <1>13, <2>3, <4>1, SinceMeans
      <4> QED BY <4>2, <4>3
    <3> QED BY <3>1, <3>2
  <2>5. PICK x : \A b : /\ Meaning!Means(p, s, now, b) = Meaning!AtEnd(b, "satisfied", now, x)
                        /\ DecidingEvents(p, n) = x
    BY <2>4
  <2>6. Meaning!AtEnd(FALSE, "satisfied", now, x) = Meaning!Pending
        /\ Meaning!AtEnd(TRUE, "satisfied", now, x) = Meaning!Decided("satisfied", now, x)
    BY DEF Meaning!AtEnd
  <2> QED BY <1>4, <1>5, <2>2, <2>5, <2>6
<1> QED BY <1>1, <1>6, <1>7, <1>8, <1>9, <1>10, <1>11, <1>12, <1>13 DEF Kinds

(* The deadline that is due is the one the definition names; a clock that  *)
(* moves without reaching it leaves the knowledge as it was.               *)
LEMMA FiredConforms ==
  ASSUME NEW p \in Policies, NEW m, Sound(p, m), NEW s \in Seq(Event), NEW before,
         Knows(p, m, s, before), NEW now \in Int
  PROVE  LET f == Fired(m, now) IN
         IF f.status = None THEN f.monitor = m /\ Knows(p, m, s, now)
         ELSE /\ f.monitor.settled
              /\ Meaning!Means(p, s, now, FALSE)
                   = Meaning!Decided(f.status, m.deadline, DecidingEvents(p, f.monitor))
<1> DEFINE f == Fired(m, now)
           n == [m EXCEPT !.settled = TRUE]
<1>1. ~m.settled /\ NextDeadline(m) = m.deadline
  BY DEF Knows, NextDeadline
<1>2. m.deadline \in Int \cup {None} /\ None \notin Int /\ None # "violated"
  BY LifeAssumption DEF Sound, MonitorType
<1>3. DOMAIN m = {"settled", "trigger", "deadline", "flag", "started", "evidence"}
  BY DEF Sound, MonitorType
<1>4. CASE m.deadline = None \/ now < m.deadline
  <2>1. f = Quiet(m)
    BY <1>1, <1>2, <1>4 DEF Fired
  <2>2. p.kind = "within" => KnowsWithin(p, m, s, now)
    BY <1>4 DEF Knows, KnowsWithin
  <2>3. Knows(p, m, s, now)
    BY <2>2 DEF Knows
  <2> QED BY <2>1, <2>3 DEF Quiet
<1>5. CASE m.deadline # None /\ m.deadline <= now
  <2>1. p.kind = "within" /\ KnowsWithin(p, m, s, before)
    BY <1>5 DEF Sound, Knows
  <2>2. PICK a : /\ FirstAt(s, p.trigger, a) /\ m.trigger = s[a]
                 /\ \A i \in a + 1 .. Len(s) : s[i].status \notin p.response
    BY <1>5, <2>1 DEF KnowsWithin
  <2>3. f = [monitor |-> n, status |-> "violated"]
    BY <1>1, <1>2, <1>5 DEF Fired, OnTimeout
  <2>4. n.settled /\ n.trigger = s[a] /\ n.evidence = None
    BY <1>3, <2>1, <2>2 DEF KnowsWithin
  <2>5. s[a] \in Event
    BY <1>5, <2>1, <2>2, WithinPending
  <2>6. \A b : Meaning!MeansWithin(p, s, now, b)
          = IF m.deadline <= now THEN Meaning!Decided("violated", m.deadline, <<s[a]>>)
            ELSE Meaning!AtEnd(b, "violated", now, <<s[a]>>)
    BY <1>5, <2>1, <2>2, WithinPending
  <2>7. Meaning!MeansWithin(p, s, now, FALSE) = Meaning!Decided("violated", m.deadline, <<s[a]>>)
    BY <1>5, <2>6
  <2>8. Meaning!Means(p, s, now, FALSE) = Meaning!Decided("violated", m.deadline, <<s[a]>>)
    BY <2>1, <2>7 DEF Meaning!Means
  <2>9. DecidingEvents(p, n) = <<s[a]>>
    <3>1. DecidingEvents(p, n) = Kept(n.trigger) \o Kept(n.evidence)
      BY <2>1 DEF DecidingEvents
    <3> QED BY <2>4, <2>5, <3>1, KeptFacts
  <2> HIDE DEF n
  <2>10. f.status = "violated" /\ f.monitor = n /\ "violated" # None
    BY <1>2, <2>3
  <2> QED BY <2>4, <2>8, <2>9, <2>10
<1>6. m.deadline = None \/ now < m.deadline \/ m.deadline <= now
  <2>1. \A x \in Int : now < x \/ x <= now
    OBVIOUS
  <2> QED BY <1>2, <2>1
<1> QED BY <1>4, <1>5, <1>6

-----------------------------------------------------------------------------
(* The trace some time later: unchanged, or longer by one event.           *)
Grown(s, t, now) == t = s \/ \E e : Extended(s, e, t) /\ now <= e.time

(* A trace and one that has at most one more event.                        *)
LEMMA GrownFacts ==
  ASSUME NEW s \in Seq(Event), NEW t, NEW now, Grown(s, t, now)
  PROVE  /\ t \in Seq(Event) /\ Len(s) \in Nat /\ (Len(t) = Len(s) \/ Len(t) = Len(s) + 1)
         /\ DOMAIN s = 1 .. Len(s) /\ DOMAIN t = 1 .. Len(t)
         /\ \A i \in 1 .. Len(s) : t[i] = s[i]
         /\ \A i \in DOMAIN t : i \in 1 .. Len(s) \/ now <= t[i].time
<1>1. CASE t = s
  BY <1>1, LenProperties
<1>2. CASE t # s
  <2>1. PICK e : Extended(s, e, t) /\ now <= e.time
    BY <1>2 DEF Grown
  <2>2. /\ t \in Seq(Event) /\ Len(s) \in Nat /\ Len(t) = Len(s) + 1
        /\ DOMAIN s = 1 .. Len(s) /\ DOMAIN t = 1 .. Len(s) + 1
        /\ \A i \in 1 .. Len(s) : t[i] = s[i]
        /\ t[Len(s) + 1] = e
    BY <2>1, ExtendedFacts
  <2> QED BY <2>1, <2>2
<1> QED BY <1>1, <1>2

(* The first position is the same later, whatever is looked for.           *)
SameFirst(I, J) == J # {} /\ \E f \in I : Meaning!First(I) = f /\ Meaning!First(J) = f

(* What came first in the trace comes first in the longer one.             *)
LEMMA GrownFirst ==
  ASSUME NEW s \in Seq(Event), NEW t, NEW now, Grown(s, t, now),
         NEW I, I \subseteq 1 .. Len(s), I # {},
         NEW J, J \subseteq 1 .. Len(t), \A i \in 1 .. Len(s) : i \in J <=> i \in I
  PROVE  SameFirst(I, J)
<1>1. Len(s) \in Nat /\ (Len(t) = Len(s) \/ Len(t) = Len(s) + 1)
  BY GrownFacts
<1>2. J \subseteq 1 .. Len(s) + 1
  BY <1>1
<1>3. J \cap (1 .. Len(s)) = I
  OBVIOUS
<1>4. Meaning!First(J) = Meaning!First(I)
  <2>1. Len(s) \in Nat
    BY <1>1
  <2> QED BY <1>2, <1>3, <2>1, FirstStable
<1>5. I \subseteq Nat
  BY <1>1
<1>6. Meaning!First(I) \in I
  BY <1>5, FirstExists
<1> QED BY <1>3, <1>4, <1>6 DEF SameFirst

SameWhere(s, t, P) ==
  /\ Meaning!Where(t, P) # {}
  /\ \E f \in 1 .. Len(s) :
       /\ Meaning!First(Meaning!Where(s, P)) = f
       /\ Meaning!First(Meaning!Where(t, P)) = f
       /\ t[f] = s[f]

(* The first event of the trace that satisfies something is that of the    *)
(* longer one.                                                             *)
LEMMA GrownWhere ==
  ASSUME NEW s \in Seq(Event), NEW t, NEW now, Grown(s, t, now), NEW P,
         Meaning!Where(s, P) # {}
  PROVE  SameWhere(s, t, P)
<1> DEFINE I == Meaning!Where(s, P)
           J == Meaning!Where(t, P)
<1>1. Len(s) \in Nat /\ DOMAIN s = 1 .. Len(s) /\ DOMAIN t = 1 .. Len(t)
  BY GrownFacts
<1>2. \A i \in 1 .. Len(s) : t[i] = s[i]
  BY GrownFacts
<1>3. Len(t) \in Nat /\ Len(s) <= Len(t)
  BY <1>1, GrownFacts
<1>4. I \subseteq 1 .. Len(s) /\ J \subseteq 1 .. Len(t)
  BY <1>1 DEF Meaning!Where
<1>5. \A i \in 1 .. Len(s) : i \in J <=> i \in I
  <2> TAKE i \in 1 .. Len(s)
  <2>1. i \in DOMAIN s /\ t[i] = s[i]
    BY <1>1, <1>2
  <2>2. i \in 1 .. Len(t)
    BY <1>1, <1>3
  <2>3. i \in DOMAIN t
    BY <1>1, <2>2
  <2> QED BY <2>1, <2>3 DEF Meaning!Where
<1>6. I # {}
  OBVIOUS
<1> HIDE DEF I, J
<1>7. SameFirst(I, J)
  BY <1>4, <1>5, <1>6, GrownFirst
<1>8. PICK f \in I : Meaning!First(I) = f /\ Meaning!First(J) = f /\ J # {}
  BY <1>7 DEF SameFirst
<1>9. f \in 1 .. Len(s) /\ t[f] = s[f]
  BY <1>2, <1>4
<1> QED BY <1>8, <1>9 DEF I, J, SameWhere

(* What is decided stays decided, the same way, whatever comes later.      *)
Stays(p, s, now, t, later, b) == Meaning!Means(p, t, later, b) = Meaning!Means(p, s, now, FALSE)

(* Once the meaning of a trace is a verdict, it is that of every           *)
(* continuation.                                                           *)
LEMMA DecidedStays ==
  ASSUME NEW p \in Policies, NEW s \in Seq(Event), NEW now \in Int,
         NEW t, Grown(s, t, now), NEW later \in Int, now <= later, NEW b,
         Meaning!Means(p, s, now, FALSE).verdict # "pending"
  PROVE  Stays(p, s, now, t, later, b)
<1> USE DEF Stays
<1>1. p.kind \in Kinds
  BY LifeAssumption
<1>2. Meaning!Pending.verdict = "pending"
  BY DEF Meaning!Pending
<1>3. Meaning!Means(p, s, now, FALSE) # Meaning!Pending
  BY <1>2
<1>4. \A v, x : Meaning!AtEnd(FALSE, v, now, x) = Meaning!Pending
  BY DEF Meaning!AtEnd
<1>5. t \in Seq(Event) /\ Len(s) \in Nat /\ DOMAIN s = 1 .. Len(s) /\ DOMAIN t = 1 .. Len(t)
  BY GrownFacts
<1>6. \A i \in 1 .. Len(s) : t[i] = s[i]
  BY GrownFacts
<1>7. Len(t) \in Nat /\ Len(s) <= Len(t) /\ \A i \in 1 .. Len(s) : i \in 1 .. Len(t)
  BY <1>5, GrownFacts
<1>8. \A i \in DOMAIN t : i \in 1 .. Len(s) \/ now <= t[i].time
  BY GrownFacts
<1>9. CASE p.kind = "never"
  <2>1. Meaning!MeansNever(p, s, now, FALSE) # Meaning!Pending
    BY <1>3, <1>9 DEF Meaning!Means
  <2>2. Meaning!Where(s, p.bad) # {}
    BY <1>4, <2>1 DEF Meaning!MeansNever
  <2>3. SameWhere(s, t, p.bad)
    BY <2>2, GrownWhere
  <2>4. PICK f \in 1 .. Len(s) :
          /\ Meaning!Where(t, p.bad) # {} /\ Meaning!First(Meaning!Where(s, p.bad)) = f
          /\ Meaning!First(Meaning!Where(t, p.bad)) = f /\ t[f] = s[f]
    BY <2>3 DEF SameWhere
  <2>5. /\ Meaning!MeansNever(p, s, now, FALSE) = Meaning!Decided("violated", s[f].time, <<s[f]>>)
        /\ Meaning!MeansNever(p, t, later, b) = Meaning!Decided("violated", t[f].time, <<t[f]>>)
    BY <2>2, <2>4 DEF Meaning!MeansNever
  <2> QED BY <1>9, <2>4, <2>5 DEF Meaning!Means
<1>10. CASE p.kind = "once"
  <2>1. Meaning!MeansOnce(p, s, now, FALSE) # Meaning!Pending
    BY <1>3, <1>10 DEF Meaning!Means
  <2>2. Meaning!Where(s, p.good) # {}
    BY <1>4, <2>1 DEF Meaning!MeansOnce
  <2>3. SameWhere(s, t, p.good)
    BY <2>2, GrownWhere
  <2>4. PICK f \in 1 .. Len(s) :
          /\ Meaning!Where(t, p.good) # {} /\ Meaning!First(Meaning!Where(s, p.good)) = f
          /\ Meaning!First(Meaning!Where(t, p.good)) = f /\ t[f] = s[f]
    BY <2>3 DEF SameWhere
  <2>5. /\ Meaning!MeansOnce(p, s, now, FALSE) = Meaning!Decided("satisfied", s[f].time, <<s[f]>>)
        /\ Meaning!MeansOnce(p, t, later, b) = Meaning!Decided("satisfied", t[f].time, <<t[f]>>)
    BY <2>2, <2>4 DEF Meaning!MeansOnce
  <2> QED BY <1>10, <2>4, <2>5 DEF Meaning!Means
<1>11. CASE p.kind = "historically"
  <2>1. Meaning!MeansHistorically(p, s, now, FALSE) # Meaning!Pending
    BY <1>3, <1>11 DEF Meaning!Means
  <2>2. DOMAIN s \ Meaning!Where(s, p.phi) # {}
    BY <1>4, <2>1 DEF Meaning!MeansHistorically
  <2>3. /\ DOMAIN s \ Meaning!Where(s, p.phi) = Meaning!Where(s, Statuses \ p.phi)
        /\ DOMAIN t \ Meaning!Where(t, p.phi) = Meaning!Where(t, Statuses \ p.phi)
    BY <1>5, Complement
  <2>4. Meaning!Where(s, Statuses \ p.phi) # {}
    BY <2>2, <2>3
  <2>5. SameWhere(s, t, Statuses \ p.phi)
    BY <2>4, GrownWhere
  <2>6. PICK f \in 1 .. Len(s) :
          /\ Meaning!Where(t, Statuses \ p.phi) # {}
          /\ Meaning!First(Meaning!Where(s, Statuses \ p.phi)) = f
          /\ Meaning!First(Meaning!Where(t, Statuses \ p.phi)) = f /\ t[f] = s[f]
    BY <2>5 DEF SameWhere
  <2>7. /\ Meaning!MeansHistorically(p, s, now, FALSE) = Meaning!Decided("violated", s[f].time, <<s[f]>>)
        /\ Meaning!MeansHistorically(p, t, later, b) = Meaning!Decided("violated", t[f].time, <<t[f]>>)
    BY <2>3, <2>4, <2>6 DEF Meaning!MeansHistorically
  <2> QED BY <1>11, <2>6, <2>7 DEF Meaning!Means
<1>12. CASE p.kind = "before"
  <2>1. Meaning!MeansBefore(p, s, now, FALSE) # Meaning!Pending
    BY <1>3, <1>12 DEF Meaning!Means
  <2>2. Meaning!Where(s, p.trigger) # {}
    BY <2>1 DEF Meaning!MeansBefore
  <2>3. PICK f \in 1 .. Len(s) :
          /\ Meaning!Where(t, p.trigger) # {}
          /\ Meaning!First(Meaning!Where(s, p.trigger)) = f
          /\ Meaning!First(Meaning!Where(t, p.trigger)) = f /\ t[f] = s[f]
    <3>1. SameWhere(s, t, p.trigger)
      BY <2>2, GrownWhere
    <3> QED BY <3>1 DEF SameWhere
  <2> DEFINE A(u) == {i \in Meaning!Where(u, p.prior) : i <= f}
  <2>4. A(t) = A(s)
    <3>1. \A i \in 1 .. Len(t) : i <= f => i \in 1 .. Len(s)
      BY <1>5, <1>7
    <3>2. \A i : i \in A(t) <=> i \in A(s)
      BY <1>5, <1>6, <1>7, <3>1 DEF Meaning!Where
    <3> QED BY <3>2
  <2>5. A(s) # {} => t[Meaning!First(A(s))] = s[Meaning!First(A(s))]
    <3>1. A(s) \subseteq 1 .. Len(s) /\ A(s) \subseteq Nat
      BY <1>5 DEF Meaning!Where
    <3>2. A(s) # {} => Meaning!First(A(s)) \in A(s)
      BY <3>1, FirstExists
    <3>3. \A i \in A(s) : t[i] = s[i]
      BY <1>6, <3>1
    <3> QED BY <3>2, <3>3
  <2>6. /\ Meaning!MeansBefore(p, s, now, FALSE)
             = IF A(s) = {} THEN Meaning!Decided("violated", s[f].time, <<s[f]>>)
               ELSE Meaning!Decided("satisfied", s[f].time, <<s[Meaning!First(A(s))], s[f]>>)
        /\ Meaning!MeansBefore(p, t, later, b)
             = IF A(t) = {} THEN Meaning!Decided("violated", t[f].time, <<t[f]>>)
               ELSE Meaning!Decided("satisfied", t[f].time, <<t[Meaning!First(A(t))], t[f]>>)
    BY <2>2, <2>3 DEF Meaning!MeansBefore
  <2> HIDE DEF A
  <2>7. Meaning!MeansBefore(p, t, later, b) = Meaning!MeansBefore(p, s, now, FALSE)
    <3>1. CASE A(s) = {}
      BY <2>3, <2>4, <2>6, <3>1
    <3>2. CASE A(s) # {}
      <4> DEFINE o == Meaning!First(A(s))
      <4>1. t[o] = s[o] /\ t[f] = s[f]
        BY <2>3, <2>5, <3>2
      <4>2. /\ Meaning!MeansBefore(p, s, now, FALSE) = Meaning!Decided("satisfied", s[f].time, <<s[o], s[f]>>)
            /\ Meaning!MeansBefore(p, t, later, b) = Meaning!Decided("satisfied", t[f].time, <<t[o], t[f]>>)
        BY <2>4, <2>6, <3>2
      <4> HIDE DEF o
      <4> QED BY <4>1, <4>2
    <3> QED BY <3>1, <3>2
  <2> QED BY <1>12, <2>7 DEF Meaning!Means
<1>13. CASE p.kind = "previously"
  <2>1. Meaning!MeansPreviously(p, s, now, FALSE) # Meaning!Pending
    BY <1>3, <1>13 DEF Meaning!Means
  <2>2. Meaning!Where(s, p.trigger) # {}
    BY <2>1 DEF Meaning!MeansPreviously
  <2>3. PICK f \in 1 .. Len(s) :
          /\ Meaning!Where(t, p.trigger) # {}
          /\ Meaning!First(Meaning!Where(s, p.trigger)) = f
          /\ Meaning!First(Meaning!Where(t, p.trigger)) = f /\ t[f] = s[f]
    <3>1. SameWhere(s, t, p.trigger)
      BY <2>2, GrownWhere
    <3> QED BY <3>1 DEF SameWhere
  <2>4. f > 1 => t[f - 1] = s[f - 1]
    BY <1>5, <1>6
  <2>5. Meaning!MeansPreviously(p, t, later, b) = Meaning!MeansPreviously(p, s, now, FALSE)
    BY <2>2, <2>3, <2>4 DEF Meaning!MeansPreviously
  <2> QED BY <1>13, <2>5 DEF Meaning!Means
<1>14. CASE p.kind = "within"
  <2>1. Meaning!MeansWithin(p, s, now, FALSE) # Meaning!Pending
    BY <1>3, <1>14 DEF Meaning!Means
  <2>2. Meaning!Where(s, p.trigger) # {}
    BY <2>1 DEF Meaning!MeansWithin
  <2>3. PICK a \in 1 .. Len(s) :
          /\ Meaning!Where(t, p.trigger) # {}
          /\ Meaning!First(Meaning!Where(s, p.trigger)) = a
          /\ Meaning!First(Meaning!Where(t, p.trigger)) = a /\ t[a] = s[a]
    <3>1. SameWhere(s, t, p.trigger)
      BY <2>2, GrownWhere
    <3> QED BY <3>1 DEF SameWhere
  <2> DEFINE deadline == s[a].time + p.seconds
             R(u) == {i \in Meaning!Where(u, p.response) : a < i /\ u[i].time < deadline}
             W(u, at, ending) ==
               IF R(u) # {}
               THEN Meaning!Decided("satisfied", u[Meaning!First(R(u))].time, <<s[a], u[Meaning!First(R(u))]>>)
               ELSE IF deadline <= at THEN Meaning!Decided("violated", deadline, <<s[a]>>)
               ELSE Meaning!AtEnd(ending, "violated", at, <<s[a]>>)
  <2>4. /\ Meaning!MeansWithin(p, s, now, FALSE) = W(s, now, FALSE)
        /\ Meaning!MeansWithin(p, t, later, b) = W(t, later, b)
    BY <2>2, <2>3 DEF Meaning!MeansWithin
  <2>5. deadline \in Int
    <3>1. s[a] \in Event
      BY ElementOfSeq
    <3> QED BY <1>14, <3>1, EventFacts, SecondsFacts
  <2>6. \A i \in 1 .. Len(s) : i \in R(t) <=> i \in R(s)
    BY <1>5, <1>6, <1>7 DEF Meaning!Where
  <2>7. R(s) \subseteq 1 .. Len(s) /\ R(t) \subseteq 1 .. Len(t)
    BY <1>5 DEF Meaning!Where
  <2>8. deadline <= now => \A i \in R(t) : i \in 1 .. Len(s)
    <3> SUFFICES ASSUME deadline <= now, NEW i \in R(t), now <= t[i].time
                 PROVE  FALSE
      BY <1>5, <1>8, <2>7
    <3>1. t[i] \in Event
      BY <1>5, <2>7, ElementOfSeq
    <3>2. t[i].time \in Int /\ t[i].time < deadline
      BY <3>1, EventFacts
    <3> QED BY <2>5, <3>2
  <2> HIDE DEF R, deadline
  <2>9. CASE R(s) # {}
    <3>1. SameFirst(R(s), R(t))
      BY <2>6, <2>7, <2>9, GrownFirst
    <3>2. PICK f \in R(s) : R(t) # {} /\ Meaning!First(R(s)) = f /\ Meaning!First(R(t)) = f
      BY <3>1 DEF SameFirst
    <3>3. t[f] = s[f]
      BY <1>6, <2>7
    <3>4. W(t, later, b) = W(s, now, FALSE)
      BY <2>9, <3>2, <3>3
    <3> QED BY <1>14, <2>4, <3>4 DEF Meaning!Means
  <2>10. CASE R(s) = {}
    <3>1. deadline <= now
      BY <1>4, <2>1, <2>4, <2>10
    <3>2. R(t) = {}
      BY <2>6, <2>8, <2>10, <3>1
    <3>3. deadline <= later
      BY <2>5, <3>1
    <3>4. W(t, later, b) = W(s, now, FALSE)
      BY <2>10, <3>1, <3>2, <3>3
    <3> QED BY <1>14, <2>4, <3>4 DEF Meaning!Means
  <2> QED BY <2>9, <2>10
<1>15. CASE p.kind = "scoped_never"
  <2> DEFINE I(u) == {i \in Meaning!Where(u, p.bad) : \E j \in 1 .. i : Meaning!OpenFrom(p, u, j, i)}
             W(u, f, o) == Meaning!Decided("violated", u[f].time,
                                           IF o = f THEN <<u[f]>> ELSE <<u[o], u[f]>>)
  <2>1. Meaning!MeansScopedNever(p, s, now, FALSE) # Meaning!Pending
    BY <1>3, <1>15 DEF Meaning!Means
  <2>2. I(s) # {}
    BY <1>4, <2>1 DEF Meaning!MeansScopedNever
  <2>3. \A i \in 1 .. Len(s) : \A j \in 1 .. i :
          Meaning!OpenFrom(p, t, j, i) <=> Meaning!OpenFrom(p, s, j, i)
    <3> TAKE i \in 1 .. Len(s)
    <3> TAKE j \in 1 .. i
    <3>1. j \in 1 .. Len(s) /\ \A x \in j + 1 .. i : x \in 1 .. Len(s)
      BY <1>5
    <3>2. t[j] = s[j] /\ \A x \in j + 1 .. i : t[x] = s[x]
      BY <1>6, <3>1
    <3> QED BY <3>2 DEF Meaning!OpenFrom
  <2>4. \A i \in 1 .. Len(s) : i \in I(t) <=> i \in I(s)
    <3> TAKE i \in 1 .. Len(s)
    <3>1. i \in Meaning!Where(t, p.bad) <=> i \in Meaning!Where(s, p.bad)
      BY <1>5, <1>6, <1>7 DEF Meaning!Where
    <3> QED BY <2>3, <3>1
  <2>5. I(s) \subseteq 1 .. Len(s) /\ I(t) \subseteq 1 .. Len(t)
    BY <1>5 DEF Meaning!Where
  <2> HIDE DEF I
  <2>6. SameFirst(I(s), I(t))
    BY <2>2, <2>4, <2>5, GrownFirst
  <2>7. PICK f \in I(s) : I(t) # {} /\ Meaning!First(I(s)) = f /\ Meaning!First(I(t)) = f
    BY <2>6 DEF SameFirst
  <2>8. f \in 1 .. Len(s) /\ t[f] = s[f]
    BY <1>6, <2>5
  <2>9. Openings(p, t, f) = Openings(p, s, f)
    BY <2>3, <2>8 DEF Openings
  <2> DEFINE o == Meaning!First(Openings(p, s, f))
  <2>10. t[o] = s[o]
    <3>1. Openings(p, s, f) # {}
      BY DEF I, Openings
    <3>2. Openings(p, s, f) \subseteq 1 .. Len(s) /\ Openings(p, s, f) \subseteq Nat
      BY <1>5, <2>8 DEF Openings
    <3>3. o \in Openings(p, s, f)
      BY <3>1, <3>2, FirstExists
    <3>4. \A i \in Openings(p, s, f) : t[i] = s[i]
      BY <1>6, <3>2
    <3> QED BY <3>3, <3>4
  <2>11. /\ Meaning!MeansScopedNever(p, s, now, FALSE) = W(s, f, o)
         /\ Meaning!MeansScopedNever(p, t, later, b) = W(t, f, Meaning!First(Openings(p, t, f)))
    BY <2>2, <2>7 DEF Meaning!MeansScopedNever, I, Openings
  <2> HIDE DEF o
  <2>12. W(t, f, o) = W(s, f, o)
    BY <2>8, <2>10
  <2>13. Meaning!MeansScopedNever(p, t, later, b) = Meaning!MeansScopedNever(p, s, now, FALSE)
    BY <2>9, <2>11, <2>12 DEF o
  <2> QED BY <1>15, <2>13 DEF Meaning!Means
<1>16. CASE p.kind = "since"
  <2> DEFINE I(u) == {i \in DOMAIN u : /\ u[i].status \notin p.phi \cup p.psi
                                       /\ \E j \in 1 .. i - 1 : u[j].status \in p.psi}
             upto(u) == IF I(u) = {} THEN Len(u) ELSE Meaning!First(I(u))
             anchors(u) == {i \in Meaning!Where(u, p.psi) : i <= upto(u)}
             last(u) == CHOOSE i \in anchors(u) : \A j \in anchors(u) : j <= i
             anchor(u) == IF anchors(u) = {} THEN <<>> ELSE <<u[last(u)]>>
             W(u) == Meaning!Decided("violated", u[upto(u)].time, Append(anchor(u), u[upto(u)]))
  <2>1. Meaning!MeansSince(p, s, now, FALSE) # Meaning!Pending
    BY <1>3, <1>16 DEF Meaning!Means
  <2>2. I(s) # {}
    BY <1>4, <2>1 DEF Meaning!MeansSince
  <2>3. \A i \in 1 .. Len(s) : i \in I(t) <=> i \in I(s)
    <3> TAKE i \in 1 .. Len(s)
    <3>1. i \in DOMAIN s /\ i \in DOMAIN t /\ t[i] = s[i]
      BY <1>5, <1>6, <1>7
    <3>2. \A j \in 1 .. i - 1 : j \in 1 .. Len(s)
      BY <1>5
    <3>3. \A j \in 1 .. i - 1 : t[j] = s[j]
      BY <1>6, <3>2
    <3> QED BY <3>1, <3>3
  <2>4. I(s) \subseteq 1 .. Len(s) /\ I(t) \subseteq 1 .. Len(t)
    BY <1>5
  <2>5. I(t) # {} =>
          /\ Meaning!MeansSince(p, s, now, FALSE) = W(s)
          /\ Meaning!MeansSince(p, t, later, b) = W(t)
    BY <2>2 DEF Meaning!MeansSince
  <2> HIDE DEF I
  <2>6. SameFirst(I(s), I(t))
    BY <2>2, <2>3, <2>4, GrownFirst
  <2>7. PICK f \in I(s) : I(t) # {} /\ Meaning!First(I(s)) = f /\ Meaning!First(I(t)) = f
    BY <2>6 DEF SameFirst
  <2>8. f \in 1 .. Len(s) /\ t[f] = s[f]
    BY <1>6, <2>4
  <2>9. upto(s) = f /\ upto(t) = f
    BY <2>2, <2>7
  <2> HIDE DEF upto
  <2>10. anchors(t) = anchors(s)
    <3>1. \A i \in 1 .. Len(t) : i <= f => i \in 1 .. Len(s)
      BY <1>5, <1>7, <2>8
    <3>2. \A i : i \in anchors(t) <=> i \in anchors(s)
      BY <1>5, <1>6, <1>7, <2>9, <3>1 DEF Meaning!Where
    <3> QED BY <3>2
  <2>11. anchors(s) \subseteq 1 .. Len(s)
    BY <1>5 DEF Meaning!Where
  <2> HIDE DEF anchors
  <2>12. anchor(t) = anchor(s)
    <3>1. CASE anchors(s) = {}
      BY <2>10, <3>1
    <3>2. CASE anchors(s) # {}
      <4>1. last(s) \in anchors(s)
        BY <1>5, <2>11, <3>2, LastExists
      <4>2. last(t) = last(s)
        BY <2>10
      <4> HIDE DEF last
      <4>3. \A i \in anchors(s) : t[i] = s[i]
        BY <1>6, <2>11
      <4> QED BY <2>10, <3>2, <4>1, <4>2, <4>3
    <3> QED BY <3>1, <3>2
  <2> HIDE DEF anchor
  <2>13. W(t) = W(s)
    BY <2>8, <2>9, <2>12
  <2> QED BY <1>16, <2>5, <2>7, <2>13 DEF Meaning!Means
<1> QED
  BY <1>1, <1>9, <1>10, <1>11, <1>12, <1>13, <1>14, <1>15, <1>16 DEF Kinds

-----------------------------------------------------------------------------
(* What the definition gives a trace, as a list of verdicts.               *)
Told(p, s, now, b) ==
  LET means == Meaning!Means(p, s, now, b) IN
  IF means.verdict = "pending" THEN <<>> ELSE <<means>>

(* The monitor m, which has delivered vs, is abreast of the trace s at now:*)
(* it has reported what the trace means, exactly if it is settled, and     *)
(* while it is not settled it knows the trace.                             *)
Tells(p, m, s, now, vs) ==
  /\ vs = Told(p, s, now, FALSE)
  /\ m.settled => vs # <<>>
  /\ ~m.settled => Knows(p, m, s, now)

(* A trace without a verdict, and one with a verdict.                      *)
LEMMA ToldIs ==
  ASSUME NEW p, NEW s, NEW now, NEW b
  PROVE  /\ Meaning!Means(p, s, now, b) = Meaning!Pending => Told(p, s, now, b) = <<>>
         /\ \A v : Meaning!Means(p, s, now, b) = v /\ v.verdict # "pending" =>
              Told(p, s, now, b) = <<v>>
<1>1. Meaning!Pending.verdict = "pending"
  BY DEF Meaning!Pending
<1> QED BY <1>1 DEF Told

(* A monitor that is abreast: unsettled and with nothing to report, or     *)
(* settled by the verdict it reported.                                     *)
LEMMA TellsIs ==
  ASSUME NEW p, NEW m, NEW s, NEW now, NEW vs
  PROVE  /\ Told(p, s, now, FALSE) = <<>> /\ vs = <<>> /\ Knows(p, m, s, now) =>
              Tells(p, m, s, now, vs)
         /\ \A v : Told(p, s, now, FALSE) = <<v>> /\ vs = <<v>> /\ m.settled =>
              Tells(p, m, s, now, vs)
<1>1. \A v : <<v>> # <<>>
  OBVIOUS
<1> QED BY <1>1 DEF Tells, Knows

(* What an unsettled and what a settled monitor has delivered.             *)
LEMMA ToldFacts ==
  ASSUME NEW p \in Policies, NEW m, Sound(p, m), NEW s \in Seq(Event), NEW now, NEW vs,
         Tells(p, m, s, now, vs)
  PROVE  /\ ~m.settled => vs = <<>>
         /\ m.settled => /\ Meaning!Means(p, s, now, FALSE).verdict # "pending"
                         /\ vs = <<Meaning!Means(p, s, now, FALSE)>>
<1>1. ASSUME ~m.settled  PROVE vs = <<>>
  <2>1. Meaning!Means(p, s, now, FALSE) = Meaning!Pending
    BY <1>1, KnowsMeans DEF Tells
  <2>2. Meaning!Pending.verdict = "pending"
    BY DEF Meaning!Pending
  <2> QED BY <2>1, <2>2 DEF Tells, Told
<1> QED BY <1>1 DEF Tells, Told

(* What is decided stays told.                                             *)
LEMMA ToldStays ==
  ASSUME NEW p \in Policies, NEW s \in Seq(Event), NEW now \in Int,
         NEW t, Grown(s, t, now), NEW later \in Int, now <= later, NEW b,
         Meaning!Means(p, s, now, FALSE).verdict # "pending"
  PROVE  Told(p, t, later, b) = <<Meaning!Means(p, s, now, FALSE)>>
<1>1. Stays(p, s, now, t, later, b)
  BY DecidedStays
<1> QED BY <1>1 DEF Stays, Told

(* What is reported is a verdict in the form of Semantics.                 *)
LEMMA ReportedIsDecided ==
  ASSUME NEW p, NEW r, NEW at, r.status \in Conclusive
  PROVE  LET v == Meaning!Decided(r.status, at, DecidingEvents(p, r.monitor)) IN
         Reported(p, r, at) = <<v>> /\ v.verdict # "pending"
<1>1. r.status # None
  BY LifeAssumption DEF Conclusive
<1>2. r.status # "pending"
  BY DEF Conclusive
<1> QED BY <1>1, <1>2 DEF Reported, Meaning!Decided

(* A verdict and nothing, put together.                                    *)
LEMMA OneAndNothing ==
  ASSUME NEW v
  PROVE  <<v>> \o <<>> = <<v>> /\ <<>> \o <<v>> = <<v>> /\ <<>> \o <<>> = <<>>
OBVIOUS

(* A new monitor is abreast of the empty trace.                            *)
LEMMA LifetimeBegins ==
  ASSUME NEW p \in Policies, NEW now
  PROVE  Sound(p, Fresh) /\ Tells(p, Fresh, <<>>, now, <<>>)
<1> DEFINE s == <<>>
<1>1. p.kind \in Kinds /\ Sound(p, Fresh)
  BY LifeAssumption DEF Sound, Armed, Fresh, MonitorType
<1>2. s \in Seq(Event) /\ Len(s) = 0
  OBVIOUS
<1>3. /\ ~Fresh.settled /\ Fresh.trigger = None /\ Fresh.deadline = None
      /\ ~Fresh.flag /\ ~Fresh.started /\ Fresh.flag = Fresh.started
      /\ Fresh.evidence = None
  BY DEF Fresh
<1> HIDE DEF s
<1>4. \A P : Nowhere(s, P)
  BY <1>2 DEF Nowhere
<1>5. \A i \in 1 .. Len(s) : FALSE
  BY <1>2
<1>6. Openings(p, s, Len(s)) = {}
  BY <1>2 DEF Openings
<1>7. KnowsScopedNever(p, Fresh, s)
  BY <1>3, <1>5, <1>6 DEF KnowsScopedNever
<1>8. KnowsSince(p, Fresh, s)
  BY <1>3, <1>4, <1>5 DEF KnowsSince
<1>9. KnowsPreviously(p, Fresh, s)
  BY <1>2, <1>3, <1>4 DEF KnowsPreviously
<1>10. KnowsBefore(p, Fresh, s) /\ KnowsWithin(p, Fresh, s, now)
  BY <1>3, <1>4 DEF KnowsBefore, KnowsWithin
<1>11. Knows(p, Fresh, s, now)
  BY <1>3, <1>4, <1>7, <1>8, <1>9, <1>10 DEF Knows
<1>12. Meaning!Means(p, s, now, FALSE) = Meaning!Pending
  BY <1>1, <1>2, <1>11, KnowsMeans
<1>13. Told(p, s, now, FALSE) = <<>>
  BY <1>12, ToldIs
<1> QED BY <1>1, <1>3, <1>11, <1>13 DEF Tells, s

(* The clock moves: a deadline that is due fires, and only then.           *)
LEMMA MomentPasses ==
  ASSUME NEW p \in Policies, NEW m, Sound(p, m), NEW s \in Seq(Event),
         NEW now, NEW later \in Int, m.settled => now \in Int /\ now <= later,
         NEW vs, Tells(p, m, s, now, vs)
  PROVE  LET f == Fired(m, later) IN
         Sound(p, f.monitor) /\ Tells(p, f.monitor, s, later, vs \o Reported(p, f, m.deadline))
<1> DEFINE f == Fired(m, later)
           means == Meaning!Means(p, s, later, FALSE)
<1>1. SoundResult(p, f) /\ (m.settled => f = Quiet(m))
  BY FiredIsSound
<1>2. Sound(p, f.monitor)
  BY <1>1 DEF SoundResult
<1>3. f.status = None => Reported(p, f, m.deadline) = <<>>
  BY DEF Reported
<1>4. CASE m.settled
  <2>1. f.monitor = m /\ f.status = None
    BY <1>1, <1>4 DEF Quiet
  <2>2. Grown(s, s, now)
    BY DEF Grown
  <2> DEFINE v == Meaning!Means(p, s, now, FALSE)
  <2>3. vs = <<v>> /\ v.verdict # "pending"
    BY <1>4, ToldFacts
  <2>4. Told(p, s, later, FALSE) = <<v>>
    BY <1>4, <2>2, <2>3, ToldStays
  <2> HIDE DEF f, v
  <2>5. vs \o Reported(p, f, m.deadline) = <<v>>
    BY <1>3, <2>1, <2>3, OneAndNothing
  <2>6. Tells(p, f.monitor, s, later, vs \o Reported(p, f, m.deadline))
    BY <1>4, <2>1, <2>4, <2>5, TellsIs
  <2> QED BY <1>2, <2>6 DEF f
<1>5. CASE ~m.settled
  <2>1. Knows(p, m, s, now) /\ vs = <<>>
    BY <1>5, ToldFacts DEF Tells
  <2>2. IF f.status = None THEN f.monitor = m /\ Knows(p, m, s, later)
        ELSE f.monitor.settled /\ means = Meaning!Decided(f.status, m.deadline, DecidingEvents(p, f.monitor))
    BY <2>1, FiredConforms
  <2>3. CASE f.status = None
    <3>1. Told(p, s, later, FALSE) = <<>>
      <4>1. means = Meaning!Pending
        BY <2>2, <2>3, KnowsMeans
      <4> QED BY <4>1, ToldIs
    <3>2. vs \o Reported(p, f, m.deadline) = <<>>
      BY <1>3, <2>1, <2>3, OneAndNothing
    <3> HIDE DEF f
    <3>3. Tells(p, f.monitor, s, later, vs \o Reported(p, f, m.deadline))
      BY <2>2, <2>3, <3>1, <3>2, TellsIs
    <3> QED BY <1>2, <3>3 DEF f
  <2>4. CASE f.status # None
    <3> DEFINE v == Meaning!Decided(f.status, m.deadline, DecidingEvents(p, f.monitor))
    <3>1. f.status \in Conclusive
      BY <1>1, <2>4 DEF SoundResult
    <3>2. Reported(p, f, m.deadline) = <<v>> /\ v.verdict # "pending"
      BY <3>1, ReportedIsDecided
    <3>3. means = v /\ f.monitor.settled
      BY <2>2, <2>4
    <3>4. Told(p, s, later, FALSE) = <<v>>
      BY <3>2, <3>3, ToldIs
    <3> HIDE DEF v, f, means
    <3>5. vs \o Reported(p, f, m.deadline) = <<v>>
      BY <2>1, <3>2, OneAndNothing
    <3>6. Tells(p, f.monitor, s, later, vs \o Reported(p, f, m.deadline))
      BY <3>3, <3>4, <3>5, TellsIs
    <3> QED BY <1>2, <3>6 DEF f
  <2> QED BY <2>3, <2>4
<1> QED BY <1>4, <1>5

(* An event comes at the moment the clock has reached: what the monitor    *)
(* makes of it; one whose evaluation raises leaves no mark.                *)
LEMMA EventIsApplied ==
  ASSUME NEW p \in Policies, WellPosed(p), NEW m, Sound(p, m), NEW s \in Seq(Event),
         NEW e \in Event, NEW vs, Tells(p, m, s, e.time, vs)
  PROVE  LET r == Apply(p, m, e)
             t == IF Raises(p, m, e) THEN s ELSE Append(s, e)
         IN Sound(p, r.monitor) /\ Tells(p, r.monitor, t, e.time, vs \o Reported(p, r, e.time))
<1> DEFINE r == Apply(p, m, e)
           t == IF Raises(p, m, e) THEN s ELSE Append(s, e)
           means == Meaning!Means(p, t, e.time, FALSE)
<1>1. SoundResult(p, r) /\ (m.settled => r = Quiet(m))
  BY ApplyIsSound
<1>2. Sound(p, r.monitor) /\ e.time \in Int /\ e.time <= e.time
  BY <1>1, EventFacts DEF SoundResult
<1>3. r.status = None => Reported(p, r, e.time) = <<>>
  BY DEF Reported
<1>4. t \in Seq(Event) /\ Grown(s, t, e.time)
  BY <1>2 DEF Grown, Extended
<1>5. CASE m.settled
  <2>1. r.monitor = m /\ r.status = None
    BY <1>1, <1>5 DEF Quiet
  <2> HIDE DEF t
  <2> DEFINE v == Meaning!Means(p, s, e.time, FALSE)
  <2>2. vs = <<v>> /\ v.verdict # "pending"
    BY <1>5, ToldFacts
  <2>3. Told(p, t, e.time, FALSE) = <<v>>
    BY <1>2, <1>4, <2>2, ToldStays
  <2> HIDE DEF r, v
  <2>4. vs \o Reported(p, r, e.time) = <<v>>
    BY <1>3, <2>1, <2>2, OneAndNothing
  <2>5. Tells(p, r.monitor, t, e.time, vs \o Reported(p, r, e.time))
    BY <1>5, <2>1, <2>3, <2>4, TellsIs
  <2> QED BY <1>2, <2>5 DEF r, t
<1>6. CASE ~m.settled
  <2>1. Knows(p, m, s, e.time) /\ vs = <<>>
    BY <1>6, ToldFacts DEF Tells
  <2>2. Conforms(p, r, t, e.time)
    <3>1. CASE Raises(p, m, e)
      BY <2>1, <3>1 DEF Conforms, Apply, Quiet
    <3>2. CASE ~Raises(p, m, e)
      <4>1. Extended(s, e, t) /\ r = OnEvent(p, m, e)
        BY <3>2 DEF Extended, Apply
      <4> HIDE DEF r, t
      <4> QED BY <2>1, <4>1, OnEventConforms
    <3> QED BY <3>1, <3>2
  <2> HIDE DEF t
  <2>3. CASE r.status = None
    <3>1. Told(p, t, e.time, FALSE) = <<>> /\ ~r.monitor.settled /\ Knows(p, r.monitor, t, e.time)
      <4>1. Knows(p, r.monitor, t, e.time)
        BY <2>2, <2>3 DEF Conforms
      <4>2. means = Meaning!Pending
        BY <1>2, <1>4, <4>1, KnowsMeans
      <4>3. ~r.monitor.settled
        BY <4>1 DEF Knows
      <4>4. Told(p, t, e.time, FALSE) = <<>>
        BY <4>2, ToldIs
      <4> QED BY <4>1, <4>3, <4>4
    <3> HIDE DEF r
    <3>2. vs \o Reported(p, r, e.time) = <<>>
      BY <1>3, <2>1, <2>3, OneAndNothing
    <3>3. Tells(p, r.monitor, t, e.time, vs \o Reported(p, r, e.time))
      BY <3>1, <3>2, TellsIs
    <3> QED BY <1>2, <3>3 DEF r, t
  <2>4. CASE r.status # None
    <3> DEFINE v == Meaning!Decided(r.status, e.time, DecidingEvents(p, r.monitor))
    <3>1. r.status \in Conclusive
      BY <1>1, <2>4 DEF SoundResult
    <3> HIDE DEF r
    <3>2. Reported(p, r, e.time) = <<v>> /\ v.verdict # "pending"
      BY <3>1, ReportedIsDecided
    <3>3. means = v /\ r.monitor.settled
      BY <2>2, <2>4 DEF Conforms
    <3>4. Told(p, t, e.time, FALSE) = <<v>>
      BY <3>2, <3>3, ToldIs
    <3> HIDE DEF v, means
    <3>5. vs \o Reported(p, r, e.time) = <<v>>
      BY <2>1, <3>2, OneAndNothing
    <3>6. Tells(p, r.monitor, t, e.time, vs \o Reported(p, r, e.time))
      BY <3>3, <3>4, <3>5, TellsIs
    <3> QED BY <1>2, <3>6 DEF r, t
  <2> QED BY <2>3, <2>4
<1> QED BY <1>5, <1>6

(* The lifetime ends: the verdict for what was undecided.                  *)
LEMMA LifetimeEnds ==
  ASSUME NEW p \in Policies, NEW m, Sound(p, m), NEW s \in Seq(Event), NEW now \in Int,
         NEW vs, Tells(p, m, s, now, vs)
  PROVE  vs \o Reported(p, OnTerminal(p, m), now) = Told(p, s, now, TRUE)
<1> DEFINE r == OnTerminal(p, m)
<1>1. SoundResult(p, r) /\ (m.settled => r = Quiet(m))
  BY OnTerminalIsSound
<1>2. r.status = None => Reported(p, r, now) = <<>>
  BY DEF Reported
<1>3. CASE m.settled
  <2>1. r.status = None
    BY <1>1, <1>3 DEF Quiet
  <2>2. Grown(s, s, now) /\ now <= now
    BY DEF Grown
  <2> DEFINE v == Meaning!Means(p, s, now, FALSE)
  <2>3. vs = <<v>> /\ v.verdict # "pending"
    BY <1>3, ToldFacts
  <2>4. Told(p, s, now, TRUE) = <<v>>
    BY <2>2, <2>3, ToldStays
  <2> HIDE DEF r, v
  <2>5. vs \o Reported(p, r, now) = <<v>>
    BY <1>2, <2>1, <2>3, OneAndNothing
  <2> QED BY <2>4, <2>5 DEF r
<1>4. CASE ~m.settled
  <2>1. Knows(p, m, s, now) /\ vs = <<>>
    BY <1>4, ToldFacts DEF Tells
  <2>2. Meaning!Means(p, s, now, TRUE)
          = IF Final(p, m) = None THEN Meaning!Pending
            ELSE Meaning!Decided(Final(p, m), now, DecidingEvents(p, r.monitor))
    BY <2>1, KnowsMeans
  <2>3. CASE Final(p, m) = None
    <3>1. r.status = None
      BY <2>3 DEF OnTerminal, Quiet
    <3>2. Told(p, s, now, TRUE) = <<>>
      BY <2>2, <2>3, ToldIs
    <3> HIDE DEF r
    <3>3. vs \o Reported(p, r, now) = <<>>
      BY <1>2, <2>1, <3>1, OneAndNothing
    <3> QED BY <3>2, <3>3 DEF r
  <2>4. CASE Final(p, m) # None
    <3> DEFINE v == Meaning!Decided(r.status, now, DecidingEvents(p, r.monitor))
    <3>1. r.status = Final(p, m)
      BY <1>4, <2>4 DEF OnTerminal
    <3>2. r.status \in Conclusive
      BY <1>1, <2>4, <3>1 DEF SoundResult
    <3>3. Meaning!Means(p, s, now, TRUE) = v
      BY <2>2, <2>4, <3>1
    <3> HIDE DEF r
    <3>4. Reported(p, r, now) = <<v>> /\ v.verdict # "pending"
      BY <3>2, ReportedIsDecided
    <3> HIDE DEF v
    <3>5. Told(p, s, now, TRUE) = <<v>>
      BY <3>3, <3>4, ToldIs
    <3>6. vs \o Reported(p, r, now) = <<v>>
      BY <2>1, <3>4, OneAndNothing
    <3> QED BY <3>5, <3>6 DEF r
  <2> QED BY <2>3, <2>4
<1> QED BY <1>3, <1>4

-----------------------------------------------------------------------------
(* The inductive invariant: the monitor is abreast of its lifetime until   *)
(* that ends, and what it has delivered is what the lifetime means.        *)
Meant ==
  /\ VerdictIsMeaning
  /\ ~ended => Tells(policy, monitor, trace, clock, verdicts)
  /\ verdicts # <<>> => clock # None
MInv == IInv /\ (WellPosed(policy) => Meant)

(* One event of a lifetime, deadline, dispatch and end in turn, keeps the  *)
(* monitor abreast.                                                        *)
LEMMA HandleMeans ==
  ASSUME IInv, WellPosed(policy), Meant, NEW e \in Event,
         NEW dispatched \in BOOLEAN, NEW terminal \in BOOLEAN,
         Handle(e, dispatched, terminal)
  PROVE  Meant'
<1> DEFINE f == Fired(monitor, e.time)
           d == IF dispatched THEN Apply(policy, f.monitor, e) ELSE Quiet(f.monitor)
           r == IF terminal THEN OnTerminal(policy, d.monitor) ELSE Quiet(d.monitor)
           vf == verdicts \o Reported(policy, f, monitor.deadline)
           vd == vf \o Reported(policy, d, e.time)
           vr == vd \o Reported(policy, r, e.time)
<1>1. policy \in Policies /\ policy' = policy /\ Sound(policy, monitor) /\ trace \in Seq(Event)
  BY DEF IInv, TypeOK, Sound, Armed, Handle
<1>2. /\ ~ended /\ ended' = terminal /\ clock' = e.time /\ monitor' = r.monitor
      /\ verdicts' = vr
      /\ trace' = IF dispatched /\ ~Raises(policy, f.monitor, e) THEN Append(trace, e) ELSE trace
  BY DEF Handle
<1>3. e.time \in Int /\ e.time # None /\ trace' \in Seq(Event)
  BY <1>1, <1>2, EventFacts, LifeAssumption
<1>4. Tells(policy, monitor, trace, clock, verdicts)
  BY <1>2 DEF Meant
<1>5. monitor.settled => clock \in Int /\ clock <= e.time
  <2>1. monitor.settled => clock # None
    BY <1>4 DEF Tells, Meant
  <2> QED BY <2>1 DEF Handle, IInv, TypeOK
<1>6. Sound(policy, f.monitor) /\ Tells(policy, f.monitor, trace, e.time, vf)
  BY <1>1, <1>3, <1>4, <1>5, MomentPasses
<1> HIDE DEF f, vf
<1>7. Sound(policy, d.monitor) /\ Tells(policy, d.monitor, trace', e.time, vd)
  <2>1. CASE dispatched
    BY <1>1, <1>2, <1>6, <2>1, EventIsApplied
  <2>2. CASE ~dispatched
    <3>1. d.monitor = f.monitor /\ d.status = None /\ trace' = trace
      BY <1>2, <2>2 DEF Quiet
    <3>2. Reported(policy, d, e.time) = <<>>
      BY <3>1 DEF Reported
    <3>3. vf \o <<>> = vf
      BY <1>6, OneAndNothing DEF Tells, Told
    <3> HIDE DEF d
    <3> QED BY <1>6, <3>1, <3>2, <3>3
  <2> QED BY <2>1, <2>2
<1> HIDE DEF d, vd
<1>8. vr = Told(policy, trace', e.time, terminal)
      /\ (~terminal => Tells(policy, r.monitor, trace', e.time, vr))
  <2>1. CASE terminal
    <3>1. terminal = TRUE
      BY <2>1
    <3> QED BY <1>1, <1>3, <1>7, <3>1, LifetimeEnds
  <2>2. CASE ~terminal
    <3>1. r.monitor = d.monitor /\ r.status = None /\ terminal = FALSE
      BY <2>2 DEF Quiet
    <3>2. Reported(policy, r, e.time) = <<>>
      BY <3>1 DEF Reported
    <3>3. vd \o <<>> = vd
      BY <1>7, OneAndNothing DEF Tells, Told
    <3>4. vr = vd
      BY <3>2, <3>3
    <3> HIDE DEF r, vr
    <3> QED BY <1>7, <3>1, <3>4 DEF Tells
  <2> QED BY <2>1, <2>2
<1> HIDE DEF r, vr
<1>9. VerdictIsMeaning'
  BY <1>1, <1>2, <1>8 DEF VerdictIsMeaning, Told
<1>10. (~ended => Tells(policy, monitor, trace, clock, verdicts))'
  BY <1>1, <1>2, <1>8
<1> QED BY <1>2, <1>3, <1>9, <1>10 DEF Meant

(* A lifetime without events is pending.                                   *)
LEMMA InitMeans == Init => Meant
<1> SUFFICES ASSUME Init PROVE Meant
  OBVIOUS
<1>1. /\ policy \in Policies /\ monitor = Fresh /\ trace = <<>> /\ verdicts = <<>>
      /\ ended = FALSE
  BY DEF Init
<1>2. Tells(policy, monitor, trace, clock, verdicts)
  BY <1>1, LifetimeBegins
<1> QED BY <1>1, <1>2 DEF Meant, Tells, Told, VerdictIsMeaning

(* The automaton computes the operator: in every lifetime of every policy  *)
(* of the eight kinds, what the monitor has delivered at any point, the    *)
(* verdict, the event time and the deciding events, is what the definition *)
(* over the whole trace says.  A timeout and a response that are due at    *)
(* the same event, a predicate that raises and the end of a lifetime are   *)
(* included; a deadline of zero seconds and a closing event that also      *)
(* opens the scope are not (WellPosed).                                    *)
THEOREM VerdictsAreTheMeaning == Spec => [](WellPosed(policy) => VerdictIsMeaning)
<1>1. Init => MInv
  BY InitIInv, InitMeans DEF MInv
<1>2. MInv /\ [Next]_vars => MInv'
  <2> SUFFICES ASSUME MInv, [Next]_vars PROVE MInv'
    OBVIOUS
  <2>1. ASSUME NEW e \in Event, NEW dispatched \in BOOLEAN, NEW terminal \in BOOLEAN,
               Handle(e, dispatched, terminal)
        PROVE  MInv'
    <3>1. policy' = policy /\ IInv' 
      BY <2>1, HandlePreserves DEF MInv, Handle
    <3>2. WellPosed(policy) => Meant'
      BY <2>1, HandleMeans DEF MInv
    <3> QED BY <3>1, <3>2 DEF MInv, WellPosed
  <2>2. CASE UNCHANGED vars
    <3>1. IInv'
      BY <2>2, StutterPreserves DEF MInv
    <3>2. WellPosed(policy) => Meant'
      BY <2>2 DEF MInv, Meant, VerdictIsMeaning, vars
    <3>3. policy' = policy
      BY <2>2 DEF vars
    <3> QED BY <3>1, <3>2, <3>3 DEF MInv, WellPosed
  <2> QED BY <2>1, <2>2 DEF Next
<1>3. MInv => (WellPosed(policy) => VerdictIsMeaning)
  BY DEF MInv, Meant
<1> QED BY <1>1, <1>2, <1>3, PTL DEF Spec
=============================================================================
