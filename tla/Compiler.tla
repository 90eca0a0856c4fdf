------------------------------ MODULE Compiler ------------------------------
(***************************************************************************)
(* behave_rv.compile.compiler: a scenario becomes a policy or is refused.  *)
(*                                                                         *)
(* A temporal form such as "never happens" is one word.  A scenario is     *)
(* [name, steps], a step [type, text]; its text is not empty and has no    *)
(* space around it.  Why a scenario is refused does not matter, so what    *)
(* can be refused is a set: of the one outcome, or empty.                  *)
(***************************************************************************)
EXTENDS StepRegistry, Absent

CONSTANTS Window,    \* [the words within "<n>" seconds -> n]
          Infinite   \* the n that float() makes infinite

(* The regular expressions, in the order they are tried: a form at the end *)
(* of the text, or "since" between two texts, the first one there.         *)
Early == {"never happens", "has happened", "always holds"}
Late == {"previously", "before"} \cup DOMAIN Window
SelfContained == Early \cup {"since"}
FormWords == SelfContained \cup Late \cup {"until"}

EndsIn(text, words) == Len(text) > 1 /\ Last(text) \in words
Cuts(text, word) == {i \in 2..(Len(text) - 1) : text[i] = word}

SplitAt(text, word) ==
  LET i == CHOOSE i \in Cuts(text, word) : \A j \in Cuts(text, word) : i <= j
  IN <<SubSeq(text, 1, i - 1), SubSeq(text, i + 1, Len(text))>>

Operator(text) ==
  IF EndsIn(text, Early) THEN {Last(text)}
  ELSE IF Cuts(text, "since") # {} THEN {"since"}
  ELSE IF EndsIn(text, Late) THEN {Last(text)}
  ELSE {}

Operands(operator, text) ==
  IF operator = "since" THEN SplitAt(text, "since") ELSE <<Front(text)>>

(* _parse_scope: the scope, and what closes it.                            *)
ScopeTexts(text) == IF Cuts(text, "until") # {} THEN SplitAt(text, "until") ELSE <<text>>

-----------------------------------------------------------------------------
(* _resolve_one, for each of some texts.                                   *)
ResolveEach(reg, texts) ==
  IF \E i \in DOMAIN texts : Cardinality(Resolve(reg, texts[i])) # 1 THEN {}
  ELSE {[i \in DOMAIN texts |-> CHOOSE r \in Resolve(reg, texts[i]) : TRUE]}

(* Mutant: both texts of a since, the other way round.                     *)
MonitorSwapped(operator, t, r, s) ==
  CASE operator = "never happens" /\ s = <<>> -> [kind |-> "never", bad |-> r[1]]
    [] operator = "never happens" /\ s # <<>> ->
         [kind |-> "scoped_never", open |-> s[1],
          close |-> IF Len(s) = 2 THEN s[2] ELSE None, bad |-> r[1]]
    [] operator = "has happened" -> [kind |-> "once", good |-> r[1]]
    [] operator = "always holds" -> [kind |-> "historically", phi |-> r[1]]
    [] operator = "since"        -> [kind |-> "since", phi |-> r[2], psi |-> r[1]]
    [] operator \in DOMAIN Window ->
         [kind |-> "within", trigger |-> t[1], response |-> r[1], seconds |-> Window[operator]]
    [] operator = "before"       -> [kind |-> "before", prior |-> r[1], trigger |-> t[1]]
    [] operator = "previously"   -> [kind |-> "previously", prior |-> r[1], trigger |-> t[1]]

(* _build_factory: the monitor, by the name of its kind and with the       *)
(* fields that Monitor gives it; t, r and s are what the When, the Then    *)
(* and the Given resolved to.                                              *)
MonitorOf(operator, t, r, s) ==
  CASE operator = "never happens" /\ s = <<>> -> [kind |-> "never", bad |-> r[1]]
    [] operator = "never happens" /\ s # <<>> ->
         [kind |-> "scoped_never", open |-> s[1],
          close |-> IF Len(s) = 2 THEN s[2] ELSE None, bad |-> r[1]]
    [] operator = "has happened" -> [kind |-> "once", good |-> r[1]]
    [] operator = "always holds" -> [kind |-> "historically", phi |-> r[1]]
    [] operator = "since"        -> [kind |-> "since", phi |-> r[1], psi |-> r[2]]
    [] operator \in DOMAIN Window ->
         [kind |-> "within", trigger |-> t[1], response |-> r[1], seconds |-> Window[operator]]
    [] operator = "before"       -> [kind |-> "before", prior |-> r[1], trigger |-> t[1]]
    [] operator = "previously"   -> [kind |-> "previously", prior |-> r[1], trigger |-> t[1]]

(* _split_steps                                                            *)
OfType(scenario, type) ==
  Chosen(scenario.steps, {i \in DOMAIN scenario.steps : scenario.steps[i].type = type})

(* The shapes that are refused whatever the texts resolve to.              *)
ShapeOk(operator, given, when) ==
  /\ Len(given) <= 1
  /\ given # <<>> => operator = "never happens"
  /\ IF operator \in SelfContained THEN when = <<>> ELSE Len(when) = 1
  /\ operator \in DOMAIN Window => Window[operator] # Infinite

(* Mutant: the keys are not compared.                                      *)
SingleKeyUnchecked(used) == TRUE

(* _single_key                                                             *)
SingleKey(used) == Cardinality({r.signature.key : r \in used}) = 1

(* compile_scenario                                                        *)
CompileScenario(reg, scenario) ==
  LET given == OfType(scenario, "given")
      when == OfType(scenario, "when")
      then == OfType(scenario, "then")
      Built(operator, t, r, s) ==
        LET used == ToSet(t) \cup ToSet(r) \cup ToSet(s) IN
        IF ~SingleKey(used) THEN {}
        ELSE {[id |-> scenario.name, monitor |-> MonitorOf(operator, t, r, s),
               key |-> (CHOOSE u \in used : TRUE).signature.key,
               types |-> {u.signature.type : u \in used},
               uses |-> {u.step : u \in used},
               deadline |-> operator \in DOMAIN Window,
               failing |-> CHOOSE i \in DOMAIN scenario.steps : scenario.steps[i] = then[1]]}
      Parsed(operator) ==
        IF ~ShapeOk(operator, given, when) THEN {}
        ELSE UNION {Built(operator, t, r, s) :
               t \in ResolveEach(reg, [i \in DOMAIN when |-> when[i].text]),
               r \in ResolveEach(reg, Operands(operator, then[1].text)),
               s \in ResolveEach(reg, IF given = <<>> THEN <<>> ELSE ScopeTexts(given[1].text))}
  IN IF Len(then) # 1 THEN {} ELSE UNION {Parsed(o) : o \in Operator(then[1].text)}

(* compile_feature: all of its scenarios, or nothing; the names are        *)
(* different.                                                              *)
CompileFeature(reg, feature) ==
  LET compiled == [i \in DOMAIN feature |-> CompileScenario(reg, feature[i])] IN
  IF \/ \E i \in DOMAIN feature : compiled[i] = {}
     \/ \E i, j \in DOMAIN feature : i # j /\ feature[i].name = feature[j].name
  THEN {}
  ELSE {[i \in DOMAIN feature |-> CHOOSE p \in compiled[i] : TRUE]}

-----------------------------------------------------------------------------
(* The predicates of a monitor.                                            *)
Predicates(m) ==
  {m[f] : f \in DOMAIN m \cap {"bad", "open", "close", "good", "phi", "psi",
                               "trigger", "response", "prior"}} \ {None}

(* Mutant: a type that was seen will do.                                   *)
UncheckableType(p, types, values) ==
  {r.step : r \in {q \in Predicates(p.monitor) : q.signature.type \notin types}}

(* _warn_if_uncheckable: the steps a warning names, for the event types    *)
(* and the <<type, value>> pairs of a trace.                               *)
Uncheckable(p, types, values) ==
  {r.step : r \in {q \in Predicates(p.monitor) :
     \/ q.signature.type \notin types
     \/ q.filler # <<>> /\ <<q.signature.type, q.filler>> \notin values}}

=============================================================================
