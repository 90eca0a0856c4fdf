----------------------------- MODULE MCLiveApp -----------------------------
(***************************************************************************)
(* Two service threads, of which one emits two events, the first with a    *)
(* time that is not a number; a policy of two types, one of which never    *)
(* occurs, and a policy of the type of the untimed event.                  *)
(***************************************************************************)
EXTENDS LiveApp, TLC

CONSTANTS t1, t2, p1, p2

Emitted(type, timed, at) == [type |-> type, key |-> "k", timed |-> timed, at |-> at]
MCWhat == (t1 :> <<Emitted("b", FALSE, 0), Emitted("a", TRUE, 1)>>)
          @@ (t2 :> <<Emitted("a", TRUE, 2)>>) @@ (Main :> <<>>)
MCOneEach == (t1 :> <<Emitted("b", FALSE, 0)>>) @@ (t2 :> <<Emitted("a", TRUE, 2)>>) @@ (Main :> <<>>)
MCOneOutcome == <<"violated">>
MCOutcomes == <<"satisfied", "violated">>
MCWatches == (p1 :> {"a", "c"}) @@ (p2 :> {"b"})
=============================================================================
