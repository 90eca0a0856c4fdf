--------------------------- MODULE CatalogReview ---------------------------
(***************************************************************************)
(* behave_rv.catalog, behave_rv.notify and "catalog save" / "catalog       *)
(* diff": the steps module is edited, its registry is compared with the    *)
(* committed catalogue, the owners of the policies that use a changed step *)
(* are told, and the catalogue is saved again.                             *)
(*                                                                         *)
(* A signature is [key, body]: its correlation key, and everything else    *)
(* that is compared (event type, fields, fingerprint) as one value.  A     *)
(* policy is [file, texts]: the scenario's step texts.  The fingerprint is *)
(* taken to differ whenever the behaviour of a step does; StepCondition    *)
(* shows where it does not.                                                *)
(***************************************************************************)
EXTENDS Naturals, FiniteSets

CONSTANTS None,
          StepId,     \* the ids a step can be registered under
          Matches,    \* [phrasing -> the texts it matches]
          Step,       \* the steps an edit can leave under an id
          Policy,     \* the scenarios of the .feature files
          Initial,    \* the steps modules the story starts from
          MaxEdits    \* bound: edits of the steps module

Phrasing == DOMAIN Matches

(* The catalogue does not keep the aliases of a step.                      *)
EntryOf(step) == [phrasing |-> step.phrasing, signature |-> step.signature]

(* A registered step is [phrasing, signature, aliases].                    *)
StepAssumption ==
  /\ IsFiniteSet(StepId)
  /\ None \notin Step \cup {EntryOf(s) : s \in Step}
  /\ \A s \in Step : s.phrasing \in Phrasing /\ s.aliases \subseteq Phrasing
  /\ Initial \subseteq [StepId -> Step \cup {None}]

(* StepRegistry.resolve: the step ids whose phrasing or alias matches.     *)
Resolve(code, t) ==
  {id \in StepId : code[id] # None /\
     \E ph \in {code[id].phrasing} \cup code[id].aliases : t \in Matches[ph]}

UsedStepIds(code, p) == UNION {Resolve(code, t) : t \in p.texts}

(* compile_scenario: each text resolves to one step, all with one key.     *)
Compiles(code, p) ==
  /\ \A t \in p.texts : Cardinality(Resolve(code, t)) = 1
  /\ Cardinality({code[id].signature.key : id \in UsedStepIds(code, p)}) = 1

(* compile_feature: one scenario refused, the whole file is.               *)
FileCompiles(code, f) == \A p \in {q \in Policy : q.file = f} : Compiles(code, p)

Entries(code) ==
  [id \in StepId |-> IF code[id] = None THEN None ELSE EntryOf(code[id])]

(* Mutants: a reworded step is not compared further; any difference is a   *)
(* change.                                                                 *)
StatusReworded(old, new) ==
  IF old = None THEN IF new = None THEN "absent" ELSE "added"
  ELSE IF new = None THEN "removed"
  ELSE IF old.phrasing # new.phrasing THEN "renamed"
  ELSE IF old.signature # new.signature THEN "changed"
  ELSE "unchanged"

StatusAnyDifference(old, new) ==
  IF old = None THEN IF new = None THEN "absent" ELSE "added"
  ELSE IF new = None THEN "removed"
  ELSE IF old # new THEN "changed"
  ELSE "unchanged"

(* classify_changes, for one step id.                                      *)
Status(old, new) ==
  IF old = None THEN IF new = None THEN "absent" ELSE "added"
  ELSE IF new = None THEN "removed"
  ELSE IF old.signature # new.signature THEN "changed"
  ELSE IF old.phrasing # new.phrasing THEN "renamed"
  ELSE "unchanged"

Moved(catalog, code) ==
  {id \in StepId : Status(catalog[id], Entries(code)[id]) \in {"changed", "removed"}}

WholeFile(f) == [file |-> f, texts |-> {}]

(* The breaks: each policy that uses a moved step is told, and each file   *)
(* that does not compile is told of every moved step.                      *)
Breaks(catalog, code) ==
  LET moved == Moved(catalog, code)
      compiled == {p \in Policy : FileCompiles(code, p.file)}
  IN {b \in [to : compiled, step : moved] : b.step \in UsedStepIds(code, b.to)}
     \cup [to : {WholeFile(p.file) : p \in Policy \ compiled}, step : moved]

(* The outcome of "catalog diff": the breaks, and the files it lists as    *)
(* uncompilable.  It exits with 1 when there are breaks.                   *)
Review(catalog, code) ==
  [breaks |-> Breaks(catalog, code),
   uncompilable |-> {f \in {p.file : p \in Policy} : ~FileCompiles(code, f)}]

Told(review, p) ==
  \/ p.file \in review.uncompilable
  \/ \E b \in review.breaks : b.to = p

-----------------------------------------------------------------------------
VARIABLES code,       \* the registry the steps module builds: [StepId -> Step or None]
          committed,  \* the catalogue file
          review,     \* what the last diff said, None after an edit or a save
          edits,      \* history: number of edits
          base,       \* history: the code the catalogue was saved from
          believed,   \* history: what the owner of a policy takes it to mean
          rewired     \* history: policies whose texts changed step ids since

vars == <<code, committed, review, edits, base, believed, rewired>>

(* What a policy means: the step each text stands for; None if refused.    *)
Binding(c, p) ==
  IF ~FileCompiles(c, p.file) THEN None
  ELSE [t \in p.texts |-> LET id == CHOOSE i \in Resolve(c, t) : TRUE
                          IN [id |-> id, signature |-> c[id].signature]]
Ids(binding) == [t \in DOMAIN binding |-> binding[t].id]
Meaning(binding) == [t \in DOMAIN binding |-> binding[t].signature]

Init ==
  /\ code \in Initial
  /\ committed = Entries(code) /\ base = code
  /\ review = None
  /\ edits = 0
  /\ believed = [p \in Policy |-> Binding(code, p)]
  /\ rewired = {}

(* A step is added, reworded, given or rid of an alias, changed in its     *)
(* condition, or removed.  A second, different step of one id is refused   *)
(* when the module loads (StepRegistry.register).                          *)
Edit(id, step) ==
  /\ edits < MaxEdits /\ step # code[id]
  /\ code' = [code EXCEPT ![id] = step]
  /\ review' = None
  /\ edits' = edits + 1
  /\ UNCHANGED <<committed, base, believed, rewired>>

Diff ==
  /\ review = None
  /\ review' = Review(committed, code)
  /\ UNCHANGED <<code, committed, edits, base, believed, rewired>>

(* The catalogue of the reviewed code is committed with it; an empty one   *)
(* is refused.  Who was told of a break, or that a file does not compile,  *)
(* has looked at his policy.                                               *)
Save ==
  LET told == {p \in Policy : Told(review, p) \/ believed[p] = None}
      now == [p \in Policy |-> Binding(code, p)]
  IN
  /\ review # None
  /\ \E id \in StepId : code[id] # None
  /\ committed' = Entries(code) /\ base' = code
  /\ review' = None
  /\ believed' = [p \in Policy |-> IF p \in told THEN now[p] ELSE believed[p]]
  /\ rewired' = (rewired \ told)
       \cup {p \in Policy \ told : Ids(now[p]) # Ids(believed[p])}
  /\ UNCHANGED <<code, edits>>

Next ==
  \/ \E id \in StepId, step \in Step \cup {None} : Edit(id, step)
  \/ Diff
  \/ Save

Spec == Init /\ [][Next]_vars

-----------------------------------------------------------------------------
(* The owners a diff is silent about.                                      *)
Untold == {p \in Policy : review # None /\ believed[p] # None /\ ~Told(review, p)}

(* "No policy can be silently broken by a step change" (dashboard.py, the  *)
(* page's contract check; STABILITY.md:9-11): a policy nobody was told of  *)
(* means what its owner believes, however many diffs lie between.          *)
NoSilentDrift ==
  \A p \in Untold : Meaning(Binding(code, p)) = Meaning(believed[p])

(* What the mechanism does guarantee, over any number of diffs: a silent   *)
(* policy means what its owner believes as long as each of its texts has   *)
(* stood for the same step id.  Rewordings, aliases, steps removed and     *)
(* added again, other scenarios of the file make no difference.            *)
SameIdsSameMeaning ==
  \A p \in Untold \ rewired :
    Ids(Binding(code, p)) = Ids(believed[p]) =>
      Meaning(Binding(code, p)) = Meaning(believed[p])

(* No false alarm from a rename (channel.py:15-16): when every policy      *)
(* compiles and means what it meant in the committed code, by the same     *)
(* ids, the diff exits with 0.                                             *)
RenameIsAbsorbed ==
  review # None =>
    ((\A p \in Policy : Binding(base, p) # None /\ Binding(code, p) = Binding(base, p))
       => review.breaks = {})
=============================================================================
