--------------------------- MODULE MCMonitorLife ---------------------------
(***************************************************************************)
(* One policy of every kind, and the overlaps that matter: a trigger that  *)
(* is its own prior, an event that opens a scope and is forbidden in it,   *)
(* an event that closes a scope and is forbidden, a faulty predicate.      *)
(***************************************************************************)
EXTENDS MonitorLife

MCEvent == [status : {"a", "b", "c"}, time : 0 .. 4]

MCUntimed == {
  [kind |-> "never", bad |-> {"b"}, faulty |-> {}],
  [kind |-> "never", bad |-> {"b"}, faulty |-> {"a"}],
  [kind |-> "once", good |-> {"b"}, faulty |-> {"c"}],
  [kind |-> "historically", phi |-> {"a", "b"}, faulty |-> {"b"}],
  [kind |-> "before", prior |-> {"a"}, trigger |-> {"b"}, faulty |-> {}],
  [kind |-> "before", prior |-> {"a", "b"}, trigger |-> {"b"}, faulty |-> {}],
  [kind |-> "before", prior |-> {"a", "c"}, trigger |-> {"b"}, faulty |-> {"a"}],
  [kind |-> "previously", prior |-> {"a"}, trigger |-> {"b"}, faulty |-> {}],
  [kind |-> "previously", prior |-> {"a", "c"}, trigger |-> {"b"}, faulty |-> {"c"}],
  [kind |-> "since", phi |-> {"b"}, psi |-> {"a"}, faulty |-> {}],
  [kind |-> "since", phi |-> {"b", "a"}, psi |-> {"a"}, faulty |-> {"b"}],
  [kind |-> "scoped_never", open |-> {"a"}, close |-> {}, bad |-> {"b"}, faulty |-> {}],
  [kind |-> "scoped_never", open |-> {"a"}, close |-> {"c"}, bad |-> {"b", "c"}, faulty |-> {}],
  [kind |-> "scoped_never", open |-> {"a", "b"}, close |-> {"c"}, bad |-> {"b"}, faulty |-> {"a"}]
}

MCTimed == {
  [kind |-> "within", trigger |-> {"a"}, response |-> {"b"}, seconds |-> 2, faulty |-> {}],
  [kind |-> "within", trigger |-> {"a"}, response |-> {"a", "b"}, seconds |-> 1, faulty |-> {}],
  [kind |-> "within", trigger |-> {"a"}, response |-> {"b"}, seconds |-> 3, faulty |-> {"b"}]
}

MCPolicies == MCUntimed \cup MCTimed

(* Six events of no matter what time for an untimed policy, four events    *)
(* around the deadlines for a bounded response.                            *)
MCMayHappen(p, n, e) == IF p.kind = "within" THEN n < 4 ELSE n < 6 /\ e.time = 1

(* A deadline of zero seconds, which the compiler accepts.                 *)
MCZero == {
  [kind |-> "within", trigger |-> {"a"}, response |-> {"b"}, seconds |-> 0, faulty |-> {}]
}
=============================================================================
