-------------------------- MODULE CanonicalStream --------------------------
(***************************************************************************)
(* What the reordering window promises its reader, without a watermark, a  *)
(* clock or a grace: an event offered to it is held or refused; what is    *)
(* held is handed over in canonical order, the events of one time          *)
(* together; and nothing is accepted that would have to be handed over     *)
(* before something already delivered.                                     *)
(***************************************************************************)
EXTENDS ReorderBuffer

CONSTANT Event   \* the events a client may offer

VARIABLES held,       \* entries accepted and not yet delivered
          accepted,   \* how many events were accepted
          refused,    \* number of events refused
          delivered   \* entries delivered, in order

vars == <<held, accepted, refused, delivered>>

Init ==
  /\ held = {}
  /\ accepted = 0
  /\ refused = 0
  /\ delivered = <<>>

Accept(e) ==
  /\ UsableTime(e.time)
  /\ \A i \in DOMAIN delivered : delivered[i].event.time < e.time
  /\ held' = held \cup {Entry(e, accepted)}
  /\ accepted' = accepted + 1
  /\ UNCHANGED <<refused, delivered>>

Refuse ==
  /\ refused' = refused + 1
  /\ UNCHANGED <<held, accepted, delivered>>

(* Deliver every held entry of S; all that stays is strictly later. *)
Deliver(S) ==
  /\ \A x \in S, y \in held \ S : x.event.time < y.event.time
  /\ delivered' = delivered \o InOrder(S)
  /\ held' = held \ S
  /\ UNCHANGED <<accepted, refused>>

Next ==
  \/ Refuse \/ \E e \in Event : Accept(e)
  \/ \E S \in SUBSET held : Deliver(S)

Spec == Init /\ [][Next]_vars
=============================================================================
