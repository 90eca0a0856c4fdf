--------------------------- MODULE EngineMeaning ---------------------------
(***************************************************************************)
(* What the engine promises, by direct definition over the events it       *)
(* handled: each id's events are cut into lifetimes, and each lifetime     *)
(* gets the verdict Semantics gives its trace.  There are no timers here,  *)
(* no instances and no order of steps.                                     *)
(*                                                                         *)
(*   s     the events handled, in order                                    *)
(*   cuts  [Id -> the positions at which the id was reclaimed]             *)
(***************************************************************************)
EXTENDS Engine

Meaning == INSTANCE Semantics

(* The k-th of a set of positions, and what s has at them, in their order. *)
Nth(I, k) == CHOOSE i \in I : Cardinality({j \in I : j <= i}) = k
Only(s, I) == [k \in 1 .. Cardinality(I) |-> s[Nth(I, k)]]
Latest(I) == CHOOSE i \in I : \A j \in I : j <= i

(* A terminal event closes the lifetime it belongs to; a reclaim closes    *)
(* the one before it.                                                      *)
Ends(s, id) == {i \in DOMAIN s : s[i].type \in TerminalTypes /\ Carries(s[i], id)}
Starts(s, id, cut) ==
  {1} \cup cut \cup {i + 1 : i \in Ends(s, id)}

(* The lifetime that starts at a ends at b.                                *)
LastOf(s, id, cut, a) ==
  LET later == {i \in Starts(s, id, cut) : i > a}
  IN IF later = {} THEN Len(s) ELSE Earliest(later) - 1

(* When the lifetime a .. b is left behind: the clock its deadlines saw.   *)
ClockAt(s, cut, b) == IF b + 1 \in cut THEN s[b + 1].time ELSE s[b].time

(* The events an id's policy is given between a and b, and those of them   *)
(* that leave a mark on its monitor: their evaluation raises nothing.  An  *)
(* event that closes a scope does not get as far as the predicate that     *)
(* raises.                                                                 *)
Seen(s, id, a, b) == {i \in a .. b : Concerns(s[i], id)}
Marks(p, e) == \/ e.status \notin p.faulty
               \/ p.kind = "scoped_never" /\ e.status \in p.close
Applied(s, id, a, b) == {i \in Seen(s, id, a, b) : Marks(PolicyOf(id), s[i])}

(* The verdicts of the lifetimes, by their starts.                         *)
Lives(s, id, cut) ==
  [a \in Starts(s, id, cut) |->
     LET b == LastOf(s, id, cut, a) IN
     IF Seen(s, id, a, b) = {} THEN Meaning!Pending
     ELSE Meaning!Means(PolicyOf(id), Only(s, Applied(s, id, a, b)), ClockAt(s, cut, b),
                        b \in Ends(s, id))]

(* The verdicts there are, oldest lifetime first.                          *)
Promised(s, id, cut) ==
  LET lives == Lives(s, id, cut)
  IN Only(lives, {a \in DOMAIN lives : lives[a].verdict # "pending"})

(* The events of the newest lifetime, as long as it is undecided.          *)
StillPending(s, id, cut) ==
  LET lives == Lives(s, id, cut)
      a == Latest(DOMAIN lives)
  IN IF lives[a].verdict = "pending" THEN Seen(s, id, a, Len(s)) ELSE {}
=============================================================================
