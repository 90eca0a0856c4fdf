--------------------------- MODULE MCReplayEngine ---------------------------
(***************************************************************************)
(* Two entities of one field and a policy on another field; a TTL of 2 is  *)
(* shorter than the deadline.  An event is a template at a time; its       *)
(* tie-break is the position of the template in the content order ("end"   *)
(* sorts before "order").                                                  *)
(***************************************************************************)
EXTENDS ReplayEngine

MCNegInf == -100
Keys12 == {"k1", "k2"}

Within3 == [kind |-> "within", trigger |-> {"a"}, response |-> {"b"}, seconds |-> 3,
            faulty |-> {}, types |-> {"order"}, field |-> "o"]
Before1 == [kind |-> "before", prior |-> {"a"}, trigger |-> {"b"},
            faulty |-> {}, types |-> {"order"}, field |-> "o"]
NeverB  == [kind |-> "never", bad |-> {"b"}, faulty |-> {"a"},
            types |-> {"order", "end"}, field |-> "u"]
MCPolicies == {Within3, Before1, NeverB}

Template(n, type, status, o, u) ==
  [tie |-> n, type |-> type, status |-> status, bindings |-> [o |-> o, u |-> u]]

End  == Template(1, "end", "z", "k1", "k1")
A1   == Template(2, "order", "a", "k1", None)
A2   == Template(3, "order", "a", "k2", "k1")
B1   == Template(4, "order", "b", "k1", "k1")
MCEvent == {At(A1, t) : t \in 0 .. 2} \cup {At(A2, t) : t \in {0, 2, 4}}
             \cup {At(B1, t) : t \in (1 .. 4) \cup {Unusable}} \cup {At(End, t) : t \in 1 .. 3}

(* Any order with a window, event-time order without one.                  *)
InTimeOrder(past, e) ==
  \A i \in DOMAIN past : UsableTime(e.time) /\ UsableTime(past[i].time) =>
                           past[i].time <= e.time
MCMayFollow(windowed, past, e) == windowed \/ InTimeOrder(past, e)
=============================================================================
