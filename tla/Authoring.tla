----------------------------- MODULE Authoring -----------------------------
(***************************************************************************)
(* The commands of behave_rv.__main__ in one process, as tests and tooling *)
(* call them: each loads a steps module, "run" into the default registry,  *)
(* "save" and "diff" into the same object while it is isolated(), and      *)
(* compiles policies against what was loaded.                              *)
(*                                                                         *)
(* A command is [name, module, feature, trace]; a steps module [imports,   *)
(* builds], two sequences of statements; a policy file a sequence of       *)
(* scenarios; a trace a set of events [type, value].                       *)
(***************************************************************************)
EXTENDS Compiler

CONSTANT Command(_)   \* bound: the commands that may be the n-th

VARIABLES registry,  \* what the default registry presents
          saved,     \* what isolated() has put aside, None outside
          call,      \* the command last called, None at first
          stage,     \* its progress: "begun", "loaded", "compiled", "done"
          outcome,   \* the policies compiled, or none
          listed,    \* what "run" lists as never observed
          before,    \* history: the registry when the command was called
          calls      \* history: number of commands

commandVars == <<registry, saved, call, stage, outcome, listed, before, calls>>

CommandInit ==
  /\ registry = EmptyRegistry /\ before = EmptyRegistry
  /\ saved = None /\ call = None /\ stage = "done"
  /\ outcome = {} /\ listed = {}
  /\ calls = 0

(* Mutant: the aliases stay where they are.                                *)
EnterKeepingAliases(name) ==
  IF name = "run" THEN UNCHANGED <<registry, saved>>
  ELSE saved' = registry /\ registry' = [EmptyRegistry EXCEPT !.aliases = registry.aliases]

(* isolated(): the entries, functions and aliases are exchanged for none.  *)
EnterIsolated(name) ==
  IF name = "run" THEN UNCHANGED <<registry, saved>>
  ELSE saved' = registry /\ registry' = EmptyRegistry

(* Mutant: an exception passes by.                                         *)
LeaveOnSuccess(reg, ok) ==
  IF saved = None \/ ~ok THEN registry' = reg /\ saved' = None
  ELSE registry' = saved /\ saved' = None

(* ... and are restored, whether the command returns or raises.            *)
LeaveIsolated(reg, ok) ==
  IF saved = None THEN registry' = reg /\ UNCHANGED saved
  ELSE registry' = saved /\ saved' = None

Call(c) ==
  /\ stage = "done"
  /\ call' = c /\ stage' = "begun"
  /\ EnterIsolated(c.name)
  /\ before' = registry /\ calls' = calls + 1
  /\ outcome' = {} /\ listed' = {}

(* _load_steps_module; what it raises ends the command.                    *)
LoadSteps ==
  /\ stage = "begun"
  /\ LET loaded == Load(call.module, registry) IN
     IF loaded.ok
     THEN /\ registry' = loaded.reg /\ UNCHANGED saved
          /\ stage' = "loaded"
     ELSE LeaveIsolated(loaded.reg, FALSE) /\ stage' = "done"
  /\ UNCHANGED <<call, outcome, listed, before, calls>>

(* compile_feature                                                         *)
Compile ==
  /\ stage = "loaded" /\ call.name # "save"
  /\ outcome' = CompileFeature(registry, call.feature)
  /\ stage' = "compiled"
  /\ UNCHANGED <<registry, saved, call, listed, before, calls>>

(* The event types and the values a trace shows: those of the run's engine *)
(* and those of _harvest_trace.                                            *)
TypesIn(trace) == {e.type : e \in trace}
ValuesIn(trace) == {<<e.type, e.value>> : e \in {x \in trace : x.value # None}}

(* A refused policy ends "run"; otherwise the engine runs over the trace   *)
(* and what it observed is marked.                                         *)
FinishRun ==
  /\ stage = "compiled" /\ call.name = "run"
  /\ stage' = "done"
  /\ IF outcome = {} THEN UNCHANGED <<registry, listed>>
     ELSE registry' = MarkObserved(registry, TypesIn(call.trace)) /\ listed' = Unobserved(registry')
  /\ UNCHANGED <<saved, call, outcome, before, calls>>

FinishCatalog ==
  /\ \/ stage = "compiled" /\ call.name = "diff"
     \/ stage = "loaded" /\ call.name = "save"
  /\ stage' = "done"
  /\ LeaveIsolated(registry, TRUE)
  /\ UNCHANGED <<call, outcome, listed, before, calls>>

CommandNext ==
  \/ \E c \in Command(calls + 1) : Call(c)
  \/ LoadSteps \/ Compile \/ FinishRun \/ FinishCatalog

CommandSpec == CommandInit /\ [][CommandNext]_commandVars

-----------------------------------------------------------------------------
(* Reference: what a module declares, in whichever of its two styles.      *)
Declared(m, do) ==
  {s.arg : s \in {t \in ToSet(IF m.imports # <<>> THEN m.imports ELSE m.builds) : t.do = do}}
Content(entry) == [id |-> entry.id, kind |-> entry.kind, phrasing |-> entry.phrasing,
                   signature |-> entry.signature]
Contents(entries) == {Content(e) : e \in entries}

(* "To capture that module's catalog in isolation -- and to load a         *)
(* different version of the same step_ids later in the same process"       *)
(* (registry.py, isolated): whatever was called before, save and diff see  *)
(* the steps and wordings of their module and no others; and a run that    *)
(* gets past loading has all of its module's, unless the module has a      *)
(* build_registry() and the registry is in use.                            *)
LoadedAsDeclared ==
  stage = "loaded" =>
    LET steps == Contents(Declared(call.module, "register"))
        aliases == Declared(call.module, "alias")
        present == Contents(ToSet(registry.entries))
    IN IF saved # None THEN present = steps /\ ToSet(registry.aliases) = aliases
       ELSE (call.module.imports # <<>> \/ before.entries = <<>>) =>
              steps \subseteq present /\ aliases \subseteq ToSet(registry.aliases)

(* "On exit the previous registrations are restored exactly", and "ids are *)
(* never reused": save and diff, failed or not, leave the default registry *)
(* as it was, and a run leaves every id with the step it had, and every    *)
(* alias.                                                                  *)
RegistrationsEndure ==
  (stage = "done" /\ call # None) =>
    IF call.name = "run"
    THEN /\ Contents(ToSet(before.entries)) \subseteq Contents(ToSet(registry.entries))
         /\ \A i, j \in DOMAIN registry.entries :
              registry.entries[i].id = registry.entries[j].id => i = j
         /\ IsPrefix(before.aliases, registry.aliases)
    ELSE registry = before

-----------------------------------------------------------------------------
(* Reference: the steps a monitor is written with.                         *)
Said(r) == With(r.phrasing, r.filler)
Line(type, text) == [type |-> type, text |-> text]

Written(m) ==
  CASE m.kind = "never"        -> {Line("then", Said(m.bad) \o <<"never happens">>)}
    [] m.kind = "scoped_never" ->
         {Line("given", IF m.close = None THEN Said(m.open)
                        ELSE Said(m.open) \o <<"until">> \o Said(m.close)),
          Line("then", Said(m.bad) \o <<"never happens">>)}
    [] m.kind = "once"         -> {Line("then", Said(m.good) \o <<"has happened">>)}
    [] m.kind = "historically" -> {Line("then", Said(m.phi) \o <<"always holds">>)}
    [] m.kind = "since"        -> {Line("then", Said(m.phi) \o <<"since">> \o Said(m.psi))}
    [] m.kind = "within"       ->
         {Line("when", Said(m.trigger)),
          Line("then", Said(m.response) \o <<CHOOSE w \in DOMAIN Window : Window[w] = m.seconds>>)}
    [] m.kind = "before"       ->
         {Line("when", Said(m.trigger)), Line("then", Said(m.prior) \o <<"before">>)}
    [] m.kind = "previously"   ->
         {Line("when", Said(m.trigger)), Line("then", Said(m.prior) \o <<"previously">>)}

MonitorsOver(P) ==
  {[kind |-> "never", bad |-> p] : p \in P}
  \cup {[kind |-> "scoped_never", open |-> o, close |-> c, bad |-> p] : o, p \in P, c \in P \cup {None}}
  \cup {[kind |-> "once", good |-> p] : p \in P}
  \cup {[kind |-> "historically", phi |-> p] : p \in P}
  \cup {[kind |-> "since", phi |-> p, psi |-> q] : p, q \in P}
  \cup {[kind |-> "within", trigger |-> p, response |-> q, seconds |-> n] :
          p, q \in P, n \in {Window[w] : w \in DOMAIN Window} \ {Infinite}}
  \cup {[kind |-> k, prior |-> p, trigger |-> q] : k \in {"before", "previously"}, p, q \in P}

(* The predicates a part of a scenario stands for without ambiguity, and   *)
(* the monitors of one key that are written as the scenario is.            *)
Spoken(reg, scenario) ==
  UNION {Resolve(reg, t) : t \in {u \in UNION {Parts(s.text) : s \in ToSet(scenario.steps)} :
                                    Cardinality(Resolve(reg, u)) = 1}}

Readings(reg, scenario) ==
  LET spoken == Spoken(reg, scenario)
      ofKey(k) == {r \in spoken : r.signature.key = k}
      monitors == UNION {MonitorsOver(ofKey(k)) : k \in {r.signature.key : r \in spoken}}
  IN {m \in monitors : /\ Cardinality(Written(m)) = Len(scenario.steps)
                       /\ Written(m) = ToSet(scenario.steps)}

(* A vocabulary without placeholders and without the words of the forms.   *)
Plain(reg) ==
  \A e \in ToSet(reg.entries) : \A ph \in ToSet(Phrasings(reg, e)) :
    ToSet(ph) \cap (FormWords \cup {Blank}) = {}

(* "Everything not in the table above is rejected at compile time [...],   *)
(* never mis-evaluated" (OPERATORS.md:180): an accepted scenario is the    *)
(* written form of the monitor that will run; over a plain vocabulary it   *)
(* is the form of no other, and a file is refused only when one of its     *)
(* scenarios is the form of none or two have one name.  The marks that     *)
(* explanations, notifications and scoping rely on are the monitor's.      *)
CompiledAsWritten ==
  stage = "compiled" =>
    /\ \A policies \in outcome : \A i \in DOMAIN policies :
         LET p == policies[i]
             readings == Readings(registry, call.feature[i])
         IN /\ p.monitor \in readings
            /\ Plain(registry) => readings = {p.monitor}
            /\ p.id = call.feature[i].name
            /\ call.feature[i].steps[p.failing].type = "then"
            /\ p.uses = {r.step : r \in Predicates(p.monitor)}
            /\ p.types = {r.signature.type : r \in Predicates(p.monitor)}
            /\ \A r \in Predicates(p.monitor) : r.signature.key = p.key
            /\ p.deadline <=> p.monitor.kind = "within"
    /\ (outcome = {} /\ Plain(registry)) =>
         \/ \E i \in DOMAIN call.feature : Readings(registry, call.feature[i]) = {}
         \/ \E i, j \in DOMAIN call.feature : i # j /\ call.feature[i].name = call.feature[j].name

(* "A renamed status silently disconnecting a policy" (compiler.py:95-96): *)
(* a policy no warning names can be decided by the trace: each of its      *)
(* predicates holds for some event.                                        *)
UnwarnedCanBeSeen ==
  (stage = "compiled" /\ call.name = "diff") =>
    \A policies \in outcome : \A i \in DOMAIN policies :
      Uncheckable(policies[i], TypesIn(call.trace), ValuesIn(call.trace)) = {} =>
        \A r \in Predicates(policies[i].monitor) : \E e \in call.trace :
          e.type = r.signature.type /\ (r.filler = <<>> \/ e.value = r.filler)

(* The same sentence, of the texts: what a placeholder stands for is a     *)
(* value and never a form of its own.                                      *)
FillersAreValues ==
  \A policies \in outcome : \A i \in DOMAIN policies :
    \A r \in Predicates(policies[i].monitor) : ToSet(r.filler) \cap FormWords = {}

(* "Import a steps module so its taps land in registry" (__main__.py:69):  *)
(* a run that gets past loading has the steps of its module.               *)
RunHasItsSteps ==
  (stage = "loaded" /\ call.name = "run") =>
    Contents(Declared(call.module, "register")) \subseteq Contents(ToSet(registry.entries))

(* "Steps never observed in this stream" (__main__.py:111).                *)
HarvestIsOfThisStream ==
  (stage = "done" /\ call # None /\ call.name = "run" /\ outcome # {}) =>
    listed = {e \in ToSet(registry.entries) : e.signature.type \notin TypesIn(call.trace)}
=============================================================================
