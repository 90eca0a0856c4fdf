------------------------------ MODULE Monitor ------------------------------
(***************************************************************************)
(* behave_rv.compile.automaton: the monitor of one policy for one entity.  *)
(*                                                                         *)
(* A predicate is the set of the statuses it holds for.  A policy is a     *)
(* record: its kind, the predicates of that kind, and "faulty", the        *)
(* statuses for which the last predicate the monitor evaluates raises.     *)
(* A monitor's fields are shared by the kinds:                             *)
(*   flag      _seen_prior, _open, _prev_phi, _s                           *)
(*   evidence  _prior_event, _opening_event, _prev_event, _anchor,         *)
(*             _response_event                                             *)
(***************************************************************************)
EXTENDS Integers, Sequences

CONSTANT None   \* Python's None: no event, no deadline, no verdict

Fresh == [settled |-> FALSE, trigger |-> None, deadline |-> None,
          flag |-> FALSE, started |-> FALSE, evidence |-> None]

Kinds == {"never", "once", "historically", "within", "before", "scoped_never",
          "previously", "since"}

Quiet(m) == [monitor |-> m, status |-> None]
Settle(m, e, status) ==
  [monitor |-> [m EXCEPT !.settled = TRUE, !.trigger = e], status |-> status]
Verdict(holds) == IF holds THEN "satisfied" ELSE "violated"

-----------------------------------------------------------------------------
(* on_event of each kind, for a monitor that is not settled.               *)

NeverOnEvent(p, m, e) ==
  IF e.status \in p.bad THEN Settle(m, e, "violated") ELSE Quiet(m)

OnceOnEvent(p, m, e) ==
  IF e.status \in p.good THEN Settle(m, e, "satisfied") ELSE Quiet(m)

HistoricallyOnEvent(p, m, e) ==
  IF e.status \notin p.phi THEN Settle(m, e, "violated") ELSE Quiet(m)

(* Mutant: the arming event is not kept.                                   *)
WithinForgetsTrigger(p, m, e) ==
  IF m.deadline = None
  THEN IF e.status \in p.trigger THEN Quiet([m EXCEPT !.deadline = e.time + p.seconds])
       ELSE Quiet(m)
  ELSE IF e.status \in p.response
       THEN [monitor |-> [m EXCEPT !.settled = TRUE, !.evidence = e],
             status |-> Verdict(e.time <= m.deadline)]
       ELSE Quiet(m)

(* Armed once, by the first trigger; only then does a response count.      *)
WithinOnEvent(p, m, e) ==
  IF m.deadline = None
  THEN IF e.status \in p.trigger
       THEN Quiet([m EXCEPT !.deadline = e.time + p.seconds, !.trigger = e])
       ELSE Quiet(m)
  ELSE IF e.status \in p.response
       THEN [monitor |-> [m EXCEPT !.settled = TRUE, !.evidence = e],
             status |-> Verdict(e.time <= m.deadline)]
       ELSE Quiet(m)

(* The first prior is kept; it may be the trigger event itself.            *)
NotePrior(p, m, e) ==
  IF e.status \in p.prior
  THEN [m EXCEPT !.flag = TRUE, !.evidence = IF @ = None THEN e ELSE @]
  ELSE m
BeforeOnEvent(p, m, e) ==
  LET n == NotePrior(p, m, e) IN
  IF e.status \in p.trigger THEN Settle(n, e, Verdict(n.flag)) ELSE Quiet(n)

(* The scope moves first, the forbidden check follows.                     *)
MoveScope(p, m, e) ==
  IF ~m.flag /\ e.status \in p.open
  THEN [m EXCEPT !.flag = TRUE, !.evidence = e]
  ELSE IF m.flag /\ e.status \in p.close
  THEN [m EXCEPT !.flag = FALSE, !.evidence = None]
  ELSE m
ScopedNeverOnEvent(p, m, e) ==
  LET n == MoveScope(p, m, e) IN
  IF n.flag /\ e.status \in p.bad THEN Settle(n, e, "violated") ELSE Quiet(n)

PreviouslyOnEvent(p, m, e) ==
  IF e.status \in p.trigger THEN Settle(m, e, Verdict(m.flag))
  ELSE Quiet([m EXCEPT !.flag = e.status \in p.prior, !.evidence = e])

SinceOnEvent(p, m, e) ==
  LET psi == e.status \in p.psi
      newS == psi \/ (e.status \in p.phi /\ m.flag)
      n == [m EXCEPT !.flag = newS,
                     !.started = @ \/ newS,
                     !.evidence = IF psi THEN e ELSE @]
  IN IF n.started /\ m.flag /\ ~newS THEN Settle(n, e, "violated") ELSE Quiet(n)

OnEvent(p, m, e) ==
  IF m.settled THEN Quiet(m)
  ELSE CASE p.kind = "never"        -> NeverOnEvent(p, m, e)
         [] p.kind = "once"         -> OnceOnEvent(p, m, e)
         [] p.kind = "historically" -> HistoricallyOnEvent(p, m, e)
         [] p.kind = "within"       -> WithinOnEvent(p, m, e)
         [] p.kind = "before"       -> BeforeOnEvent(p, m, e)
         [] p.kind = "scoped_never" -> ScopedNeverOnEvent(p, m, e)
         [] p.kind = "previously"   -> PreviouslyOnEvent(p, m, e)
         [] p.kind = "since"        -> SinceOnEvent(p, m, e)

-----------------------------------------------------------------------------
(* A predicate that raises inside on_event: the scope or the prior has     *)
(* been updated by then, the verdict has not been reached.                 *)
Raises(p, m, e) ==
  /\ ~m.settled
  /\ e.status \in p.faulty
  /\ p.kind = "scoped_never" => MoveScope(p, m, e).flag
PartlyApplied(p, m, e) ==
  CASE p.kind = "before"       -> NotePrior(p, m, e)
    [] p.kind = "scoped_never" -> MoveScope(p, m, e)
    [] OTHER                   -> m

(* Mutant: the monitor is left as the raise found it.                      *)
ApplyNoRollback(p, m, e) ==
  IF Raises(p, m, e) THEN Quiet(PartlyApplied(p, m, e)) ELSE OnEvent(p, m, e)

(* The engine's call of on_event: snapshot, and rollback on a raise, which *)
(* discards PartlyApplied.                                                 *)
Apply(p, m, e) ==
  IF Raises(p, m, e) THEN Quiet(m) ELSE OnEvent(p, m, e)

-----------------------------------------------------------------------------
NextDeadline(m) == IF m.settled THEN None ELSE m.deadline

OnTimeout(m, now) ==
  IF m.settled \/ m.deadline = None \/ now < m.deadline THEN Quiet(m)
  ELSE [monitor |-> [m EXCEPT !.settled = TRUE], status |-> "violated"]

(* The verdict, if any, at the end of a lifetime: before and previously    *)
(* inherit Monitor.on_terminal, and so does a within that is not armed.    *)
Final(p, m) ==
  CASE p.kind \in {"never", "scoped_never", "historically", "since"} -> "satisfied"
    [] p.kind = "once"                        -> "violated"
    [] p.kind = "within" /\ m.deadline # None -> "violated"
    [] OTHER                                  -> None

(* Mutant: a settled monitor concludes again.                              *)
OnTerminalAgain(p, m) ==
  IF Final(p, m) = None THEN Quiet(m)
  ELSE [monitor |-> [m EXCEPT !.settled = TRUE], status |-> Final(p, m)]

OnTerminal(p, m) ==
  IF m.settled \/ Final(p, m) = None THEN Quiet(m)
  ELSE [monitor |-> [m EXCEPT !.settled = TRUE], status |-> Final(p, m)]

(* The events that decided the verdict, oldest first.                      *)
Kept(e) == IF e = None THEN <<>> ELSE <<e>>
DecidingEvents(p, m) ==
  CASE p.kind \in {"never", "once", "historically"} -> Kept(m.trigger)
    [] p.kind = "within" -> Kept(m.trigger) \o Kept(m.evidence)
    [] p.kind = "before" -> Kept(m.evidence) \o Kept(m.trigger)
    [] p.kind = "since"  -> Kept(m.evidence) \o Kept(m.trigger)
    [] p.kind = "scoped_never" ->
         IF m.trigger = None THEN <<>>
         ELSE IF m.evidence \in {None, m.trigger} THEN <<m.trigger>>
         ELSE <<m.evidence, m.trigger>>
    [] p.kind = "previously" ->
         Kept(IF m.settled /\ m.flag THEN m.evidence ELSE None) \o Kept(m.trigger)
=============================================================================
