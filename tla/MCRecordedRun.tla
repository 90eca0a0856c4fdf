--------------------------- MODULE MCRecordedRun ---------------------------
(***************************************************************************)
(* The wall clock ticks by 2, the grace is two ticks.  A deadline shorter  *)
(* than the grace, one longer, an untimed policy and a terminal event; an  *)
(* event is pushed when it happens, or late by the grace.                  *)
(***************************************************************************)
EXTENDS RecordedRun

MCNegInf == -100
Within(s) == [kind |-> "within", trigger |-> {"a"}, response |-> {"b"}, seconds |-> s,
              faulty |-> {}, types |-> {"order"}, field |-> "o"]
Before1 == [kind |-> "before", prior |-> {"a"}, trigger |-> {"b"},
            faulty |-> {}, types |-> {"order"}, field |-> "o"]
MCPolicies == {Within(2), Within(6), Before1}

(* The longer deadline alone.                                              *)
MCLong == {Within(6)}

Content(n, type, status) == [tie |-> n, type |-> type, status |-> status,
                             bindings |-> [o |-> "k1"]]
Contents == {Content(1, "closed", "z"), Content(2, "order", "a"), Content(3, "order", "b")}
MCEvent == {At(c, t) : c \in Contents, t \in 0 .. LastPush}
=============================================================================
