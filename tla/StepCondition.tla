--------------------------- MODULE StepCondition ---------------------------
(***************************************************************************)
(* behave_rv.catalog.condition: the fingerprint of a step predicate and    *)
(* the edits of the steps module it is meant to notice.  Calls go by plain *)
(* name to functions of the steps module; a parameter bound by the         *)
(* phrasing is part of the predicate's text.                               *)
(***************************************************************************)
EXTENDS SourceHash

CONSTANTS Func,      \* names of functions
          Pred,      \* the step predicate
          Constant,  \* names of the module's constants
          Value,     \* their values
          Body,      \* the functions an edit can leave
          Initial,   \* the modules the catalogue was saved from
          MaxEdits   \* bound: edits since then

(* A function as the parser gives it.                                      *)
IsFunction(fn) ==
  /\ DOMAIN fn = {"text", "calls", "reads"}
  /\ fn.calls \in Seq(Nat) /\ fn.reads \in Seq(Nat)

FuncAssumption ==
  /\ IsFiniteSet(Func) /\ Func \subseteq Nat /\ Pred \in Func /\ Func \cap Constant = {}
  /\ \A body \in Body : IsFunction(body)
  /\ Initial \subseteq [Func -> Body]
  /\ \A start \in Initial : Pred \in Defined(start)

(* Mutant: a called name is kept.                                          *)
OwnHashNamed(fn) == <<fn.text, fn.calls, Alpha(fn.calls \o fn.reads)>>

(* _own_hash: every name is normalised, the called ones too.               *)
OwnHash(fn) == <<fn.text, Alpha(fn.calls \o fn.reads)>>

(* Mutant: only the helpers the predicate itself calls.                    *)
HelpersOneDeep(code) == Called(code[Pred]) \cap Defined(code)

(* The functions reachable from the predicate, each visited once.          *)
Helpers(code) == Closure({Pred}, CallGraph(code)) \ {Pred}

(* fingerprint_bundle: the predicate's hash and the set of its helpers'.   *)
Fingerprint(code) ==
  [own |-> OwnHash(code[Pred]), calls |-> {OwnHash(code[h]) : h \in Helpers(code)}]

VARIABLES code,    \* the functions of the steps module
          value,   \* its constants
          base, baseValue,   \* history: both when the catalogue was saved
          names,   \* history: all edits since were renames
          edits    \* history: their number

vars == <<code, value, base, baseValue, names, edits>>

Init ==
  /\ code \in Initial /\ base = code
  /\ value \in [Constant -> Value] /\ baseValue = value
  /\ names = TRUE
  /\ edits = 0

Count == edits < MaxEdits /\ edits' = edits + 1 /\ UNCHANGED <<base, baseValue>>

Rewrite(f, body) ==
  /\ Count /\ body # code[f] /\ (f = Pred => body.text # "none")
  /\ code' = [code EXCEPT ![f] = body]
  /\ names' = FALSE
  /\ UNCHANGED value

Rename(f, g) ==
  /\ Count /\ f \in Defined(code) \ {Pred} /\ g \notin Defined(code)
  /\ \A h \in Defined(code) : g \notin Called(code[h]) \cup ReadBy(code[h])
  /\ code' = Renamed(code, f, g)
  /\ UNCHANGED <<value, names>>

SetConstant(c, v) ==
  /\ Count /\ v # value[c]
  /\ value' = [value EXCEPT ![c] = v]
  /\ names' = FALSE
  /\ UNCHANGED code

Next ==
  \/ \E f \in Func, body \in Body : Rewrite(f, body)
  \/ \E f, g \in Func : Rename(f, g)
  \/ \E c \in Constant, v \in Value : SetConstant(c, v)

Spec == Init /\ [][Next]_vars

-----------------------------------------------------------------------------
Silent == Fingerprint(code) = Fingerprint(base)

(* The texts of the functions a run of the predicate can enter.            *)
Texts(c) ==
  LET Closed(S) == Pred \in S /\ \A f \in S : Called(c[f]) \cap Defined(c) \subseteq S
  IN {c[f].text : f \in {g \in Func : \A S \in SUBSET Func : Closed(S) => g \in S}}

(* "Helper NAMES are not hashed (a helper rename absorbs)": any number of  *)
(* renames, of recursive helpers too, leaves the fingerprint as it was.    *)
RenameIsSilent == names => Silent

(* Transitive to full depth: when some function a run of the predicate can *)
(* enter has a text none had before, or a text is gone, the catalogue      *)
(* sees a change.                                                          *)
NewTextIsSeen == Silent => Texts(code) = Texts(base)

(* "Adding and amount > 0 ... would move the step's meaning with no Break  *)
(* -- a hole in the exact guarantee"; "a sound over-approximation"         *)
(* (condition.py:3-12): a silent predicate tests what it tested.           *)
SilentKeepsCondition ==
  Silent => Behaviour(code, value, Pred) = Behaviour(base, baseValue, Pred)
=============================================================================
