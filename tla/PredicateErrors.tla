-------------------------- MODULE PredicateErrors --------------------------
(***************************************************************************)
(* Containment of the errors of compiled predicates: the collector slot of *)
(* compile/automaton.py, installed by Engine.run for the time of a run and *)
(* drained after each dispatch.  A sink or a predicate may itself run an   *)
(* engine (a replay, say), so the runs of a thread nest.  Only predicates  *)
(* made by the compiler appear, which report before they raise.            *)
(***************************************************************************)
EXTENDS Naturals, Sequences, FiniteSets, Absent
Sequence == INSTANCE SequencesExt

CONSTANTS Thread,
          Run,         \* calls of Engine.run
          Policy,
          MaxRaised    \* bound: errors raised in one run

ASSUME RunAssumption == None \notin Run \cup Policy

VARIABLES slot,      \* automaton._error_collector: the run whose list it is
          errors,    \* the list of each run (pred_errors)
          recorded,  \* what each run has recorded: <<policy, error>>
          stack,     \* the runs of each thread, the innermost last
          ended,     \* runs that have ended
          raised,    \* history: the errors raised in each run
          failed,    \* history: a run has ended by an exception
          unseen     \* history: an error of a direct call was swallowed

history == <<failed, unseen>>
vars == <<slot, errors, recorded, stack, ended, raised, history>>

Init ==
  /\ slot = None
  /\ errors = [r \in Run |-> <<>>] /\ recorded = [r \in Run |-> {}]
  /\ stack = [t \in Thread |-> <<>>]
  /\ ended = {}
  /\ raised = [r \in Run |-> {}]
  /\ failed = FALSE /\ unseen = FALSE

Started == ended \cup UNION {{stack[t][i].run : i \in DOMAIN stack[t]} : t \in Thread}
Top(t) == Sequence!Last(stack[t])
Matching(t) == stack[t] # <<>> /\ Top(t).policy # None

(* Mutants: a run leaves an installed collector in place; it leaves its     *)
(* own there when it returns.                                              *)
InstalledOnce(r) == IF slot = None THEN r ELSE slot
RestoredNever(frame) == frame.run

(* set_predicate_error_collector, at the start and at the end of a run.    *)
Installed(r) == r

Restored(frame) == frame.previous

(* The prologue of Engine.run: outside a run, in a predicate or in a sink. *)
Begin(t, r) ==
  /\ r \notin Started
  /\ slot' = Installed(r)
  /\ stack' = [stack EXCEPT ![t] = Append(@, [run |-> r, previous |-> slot, policy |-> None])]
  /\ UNCHANGED <<errors, recorded, ended, raised, history>>

(* The loop over the candidates reaches a policy.                          *)
Dispatch(t, p) ==
  /\ stack[t] # <<>> /\ ~Matching(t)
  /\ stack' = [stack EXCEPT ![t][Len(stack[t])].policy = p]
  /\ UNCHANGED <<slot, errors, recorded, ended, raised, history>>

(* A predicate raises: reported and taken as no match, or, with no         *)
(* collector, raised through on_event and recorded there.                  *)
Raise(t) ==
  LET r == Top(t).run
      e == [run |-> r, policy |-> Top(t).policy, n |-> Cardinality(raised[r])]
  IN
  /\ Matching(t) /\ Cardinality(raised[r]) < MaxRaised
  /\ raised' = [raised EXCEPT ![r] = @ \cup {e}]
  /\ \/ /\ slot # None
        /\ errors' = [errors EXCEPT ![slot] = Append(@, e)]
        /\ UNCHANGED recorded
     \/ /\ slot = None
        /\ recorded' = [recorded EXCEPT ![r] = @ \cup {<<Top(t).policy, e>>}]
        /\ UNCHANGED errors
  /\ UNCHANGED <<slot, stack, ended, failed, unseen>>

(* The end of the policy's turn: the list is recorded and cleared.         *)
Drain(t) ==
  LET r == Top(t).run IN
  /\ Matching(t)
  /\ recorded' = [recorded EXCEPT ![r] = @ \cup {<<Top(t).policy, e>> : e \in Sequence!ToSet(errors[r])}]
  /\ errors' = [errors EXCEPT ![r] = <<>>]
  /\ stack' = [stack EXCEPT ![t][Len(stack[t])].policy = None]
  /\ UNCHANGED <<slot, ended, raised, history>>

Leave(t) ==
  /\ stack' = [stack EXCEPT ![t] = Sequence!Front(@)]
  /\ ended' = ended \cup {Top(t).run}
  /\ UNCHANGED <<errors, recorded, raised, unseen>>

Return(t) ==
  /\ stack[t] # <<>> /\ ~Matching(t)
  /\ slot' = Restored(Top(t))
  /\ Leave(t)
  /\ UNCHANGED failed

(* The source raises: run has no finally.  Within a sink or a predicate of *)
(* an outer run the exception is contained there.                          *)
Fail(t) ==
  /\ stack[t] # <<>> /\ ~Matching(t)
  /\ failed' = TRUE
  /\ UNCHANGED slot
  /\ Leave(t)

(* A predicate called outside an engine run raises.                        *)
DirectCall(t) ==
  /\ \A u \in Thread : stack[u] = <<>>
  /\ unseen' = (unseen \/ slot # None)
  /\ IF slot = None THEN UNCHANGED errors
     ELSE /\ Len(errors[slot]) < MaxRaised
          /\ errors' = [errors EXCEPT ![slot] =
                          Append(@, [run |-> None, policy |-> None, n |-> 0])]
  /\ UNCHANGED <<slot, recorded, stack, ended, raised, failed>>

Next ==
  \E t \in Thread :
    \/ \E r \in Run : Begin(t, r)
    \/ \E p \in Policy : Dispatch(t, p)
    \/ Raise(t)
    \/ Drain(t)
    \/ Return(t)
    \/ Fail(t)
    \/ DirectCall(t)

Spec == Init /\ [][Next]_vars

-----------------------------------------------------------------------------
(* Every error a run records is one its own policy raised.                *)
NoneMisattributed ==
  \A r \in Run : \A entry \in recorded[r] : entry[2].run = r /\ entry[2].policy = entry[1]

(* "Contain, record, continue" (test_predicate_errors.py:3-5): when a run  *)
(* has ended it has recorded all that its policies raised, if every run    *)
(* inside it returned.                                                     *)
NoneLost == ~failed => \A r \in ended : {entry[2] : entry \in recorded[r]} = raised[r]

(* "When no collector is installed (a predicate called outside an engine   *)
(* run), the error raises so direct callers still see it."                 *)
DirectCallersAlwaysSee == ~unseen
=============================================================================
