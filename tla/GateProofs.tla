----------------------------- MODULE GateProofs -----------------------------
(***************************************************************************)
(* The committed catalogue against every story of edits, diffs and saves.  *)
(*                                                                         *)
(* The steps: what a silent diff promises the owner of a policy, that a    *)
(* rewording is no break, and that the page of the dashboard shows what    *)
(* the command exits with.  All rest on one invariant: a diff on record is *)
(* the comparison of the catalogue with the registry of this moment, and a *)
(* policy nobody was told of is believed to mean what the catalogue holds. *)
(*                                                                         *)
(* The bodies behind a step: a rename leaves the fingerprint alone and a   *)
(* text nobody has seen changes it.  Both need to know what the closure of *)
(* the call graph is (ClosureIsReach): the set of functions the predicate  *)
(* reaches, which a rename renames with the rest.                          *)
(*                                                                         *)
(* The application: the changes of a diff account for every emit site of   *)
(* either version once (Classified), each with a reason for its status     *)
(* (Justified); and a slice holds every participant (by ClosureIsReach     *)
(* again), its fingerprints every text.  As long as functions were only    *)
(* renamed, the application is what was saved but for names (Follows), its *)
(* slices and fingerprints are moved along with it, and whatever has been  *)
(* paired so far, the rest can be paired as unchanged or as renamed        *)
(* (Absorbing).                                                            *)
(***************************************************************************)
EXTENDS Gate, FiniteSetTheorems, WellFoundedInduction, TLAPS

(* A registry: the step of each id, or none.                               *)
Registry == [StepId -> Step \cup {None}]

Registries == registry \in Registry /\ registryBase \in Registry

(* The catalogue is that of the code it was saved from, and the last diff  *)
(* is of the registry as it is.                                            *)
Recorded ==
  /\ committed = Steps!Entries(registryBase)
  /\ review # None => review = Steps!Review(committed, registry)

(* A policy that has stood for the same ids all along is believed to mean  *)
(* the steps of the catalogue.                                             *)
BelievedOf(p) ==
  /\ believed[p] = [t \in p.texts |-> believed[p][t]]
  /\ \A t \in p.texts :
       LET id == believed[p][t].id
       IN /\ id \in StepId /\ registryBase[id] # None
          /\ believed[p][t] = [id |-> id, signature |-> registryBase[id].signature]
Believed ==
  /\ DOMAIN believed = Scenario
  /\ \A p \in Scenario \ rewired : believed[p] # None => BelievedOf(p)

StepsInvariant == Registries /\ Recorded /\ Believed

-----------------------------------------------------------------------------
(* The instances count as this module does.                                *)
LEMMA StepsCount ==
  \A S : Steps!IsFiniteSet(S) = IsFiniteSet(S) /\ Steps!Cardinality(S) = Cardinality(S)
<1>1. \A S : Steps!IsFiniteSet(S) = IsFiniteSet(S)
  BY DEF Steps!IsFiniteSet, IsFiniteSet
<1>2. \A S : Steps!Cardinality(S) = Cardinality(S)
  BY DEF Steps!Cardinality, Cardinality
<1> QED  BY <1>1, <1>2

(* A text of a policy that compiles stands for one step.                   *)
LEMMA TextStandsForOne ==
  ASSUME NEW reg \in Registry, NEW p, Steps!Compiles(reg, p), NEW t \in p.texts
  PROVE  \E id \in StepId : Steps!Resolve(reg, t) = {id} /\ reg[id] # None
<1>1. Steps!StepAssumption
  BY GateAssumption
<1>2. /\ Steps!Resolve(reg, t) \subseteq StepId /\ IsFiniteSet(StepId)
      /\ Cardinality(Steps!Resolve(reg, t)) = 1
  BY <1>1, StepsCount DEF Steps!StepAssumption, Steps!Compiles, Steps!Resolve
<1>3. IsFiniteSet(Steps!Resolve(reg, t))
  BY <1>2, FS_Subset
<1>4. PICK id : Steps!Resolve(reg, t) = {id}
  BY <1>2, <1>3, FS_Singleton
<1> QED  BY <1>2, <1>4 DEF Steps!Resolve

(* What such a policy means: the step each text stands for.                *)
LEMMA BindingIs ==
  ASSUME NEW reg \in Registry, NEW p \in Scenario, Steps!FileCompiles(reg, p.file)
  PROVE  /\ Steps!Binding(reg, p) = [t \in p.texts |-> Steps!Binding(reg, p)[t]]
         /\ \A t \in p.texts :
              LET id == Steps!Binding(reg, p)[t].id
              IN /\ id \in Steps!UsedStepIds(reg, p)
                 /\ id \in StepId /\ reg[id] # None /\ Steps!Resolve(reg, t) = {id}
                 /\ Steps!Binding(reg, p)[t] = [id |-> id, signature |-> reg[id].signature]
<1> DEFINE Stands(t) == CHOOSE i \in Steps!Resolve(reg, t) : TRUE
           B == Steps!Binding(reg, p)
<1>1. B = [t \in p.texts |-> [id |-> Stands(t), signature |-> reg[Stands(t)].signature]]
  BY DEF Steps!Binding
<1>2. Steps!Compiles(reg, p)
  BY DEF Steps!FileCompiles
<1>3. ASSUME NEW t \in p.texts
      PROVE  /\ Stands(t) \in StepId /\ reg[Stands(t)] # None
             /\ Steps!Resolve(reg, t) = {Stands(t)}
             /\ Stands(t) \in Steps!UsedStepIds(reg, p)
  <2>1. PICK id \in StepId : Steps!Resolve(reg, t) = {id} /\ reg[id] # None
    BY <1>2, TextStandsForOne
  <2>2. Stands(t) = id
    BY <2>1
  <2> QED  BY <2>1, <2>2 DEF Steps!UsedStepIds
<1> HIDE DEF Stands, B
<1>4. ASSUME NEW t \in p.texts
      PROVE  /\ B[t].id = Stands(t)
             /\ B[t] = [id |-> Stands(t), signature |-> reg[Stands(t)].signature]
  BY <1>1
<1>5. B = [t \in p.texts |-> B[t]]
  BY <1>1
<1> QED  BY <1>3, <1>4, <1>5 DEF B

(* A step that did not move has the signature the catalogue has for it.    *)
LEMMA UnmovedSame ==
  ASSUME NEW old \in Registry, NEW new \in Registry, NEW id \in StepId,
         old[id] # None, new[id] # None
  PROVE  id \notin Steps!Moved(Steps!Entries(old), new) <=> old[id].signature = new[id].signature
<1>1. Steps!StepAssumption
  BY GateAssumption
<1>2. old[id] \in Step /\ new[id] \in Step
  BY DEF Registry
<1>3. /\ Steps!Entries(old)[id] = Steps!EntryOf(old[id])
      /\ Steps!Entries(new)[id] = Steps!EntryOf(new[id])
  BY DEF Steps!Entries
<1>4. Steps!EntryOf(old[id]) # None /\ Steps!EntryOf(new[id]) # None
  BY <1>1, <1>2 DEF Steps!StepAssumption
<1>5. /\ Steps!EntryOf(old[id]).signature = old[id].signature
      /\ Steps!EntryOf(new[id]).signature = new[id].signature
  BY DEF Steps!EntryOf
<1> DEFINE o == Steps!EntryOf(old[id])
           n == Steps!EntryOf(new[id])
<1> HIDE DEF o, n
<1>6. ASSUME o # None, n # None
      PROVE  Steps!Status(o, n) \in {"changed", "removed"} <=> o.signature # n.signature
  <2>1. CASE o.signature # n.signature
    BY <1>6, <2>1 DEF Steps!Status
  <2>2. CASE o.signature = n.signature
    <3>1. Steps!Status(o, n) = IF o.phrasing # n.phrasing THEN "renamed" ELSE "unchanged"
      BY <1>6, <2>2 DEF Steps!Status
    <3> QED  BY <2>2, <3>1
  <2> QED  BY <2>1, <2>2
<1>7. Steps!Status(Steps!Entries(old)[id], Steps!Entries(new)[id]) \in {"changed", "removed"}
        <=> old[id].signature # new[id].signature
  BY <1>3, <1>4, <1>5, <1>6 DEF o, n
<1> QED  BY <1>7 DEF Steps!Moved

(* Whom a diff is silent to compiles and uses no step that moved.          *)
LEMMA SilenceMeans ==
  ASSUME Recorded, review # None, NEW p \in Scenario, ~Steps!Told(review, p)
  PROVE  /\ Steps!FileCompiles(registry, p.file)
         /\ Steps!Moved(committed, registry) \cap Steps!UsedStepIds(registry, p) = {}
<1>1. /\ review.breaks = Steps!Breaks(committed, registry)
      /\ review.uncompilable = {f \in {q.file : q \in Scenario} : ~Steps!FileCompiles(registry, f)}
  BY DEF Recorded, Steps!Review
<1>2. Steps!FileCompiles(registry, p.file)
  BY <1>1 DEF Steps!Told
<1>3. ASSUME NEW id \in Steps!Moved(committed, registry) \cap Steps!UsedStepIds(registry, p)
      PROVE  FALSE
  <2>1. [to |-> p, step |-> id] \in Steps!Breaks(committed, registry)
    BY <1>2, <1>3 DEF Steps!Breaks
  <2>2. [to |-> p, step |-> id].to = p
    OBVIOUS
  <2> QED  BY <1>1, <2>1, <2>2 DEF Steps!Told
<1> QED  BY <1>2, <1>3

(* What such a policy means is what its owner believes, if its texts have  *)
(* stood for the same ids.                                                 *)
LEMMA SilentKeeps ==
  ASSUME StepsInvariant, review # None, NEW p \in Scenario \ rewired, believed[p] # None,
         ~Steps!Told(review, p),
         Steps!Ids(Steps!Binding(registry, p)) = Steps!Ids(believed[p])
  PROVE  /\ Steps!Binding(registry, p) = believed[p]
         /\ \A t \in p.texts :
              LET id == believed[p][t].id
              IN /\ id \in StepId /\ registry[id] # None
                 /\ believed[p][t] = [id |-> id, signature |-> registry[id].signature]
<1> DEFINE B == Steps!Binding(registry, p)
<1>1. BelievedOf(p) /\ registry \in Registry /\ registryBase \in Registry
      /\ committed = Steps!Entries(registryBase)
  BY DEF StepsInvariant, Registries, Believed, Recorded
<1>2. /\ Steps!FileCompiles(registry, p.file)
      /\ Steps!Moved(committed, registry) \cap Steps!UsedStepIds(registry, p) = {}
  BY SilenceMeans DEF StepsInvariant
<1>3. /\ B = [t \in p.texts |-> B[t]]
      /\ \A t \in p.texts : /\ B[t].id \in Steps!UsedStepIds(registry, p)
                            /\ B[t].id \in StepId /\ registry[B[t].id] # None
                            /\ B[t] = [id |-> B[t].id, signature |-> registry[B[t].id].signature]
  BY <1>1, <1>2, BindingIs
<1>4. believed[p] = [t \in p.texts |-> believed[p][t]]
  BY <1>1 DEF BelievedOf
<1>5. Steps!Ids(B) = Steps!Ids(believed[p])
  OBVIOUS
<1> HIDE DEF B
<1>6. ASSUME NEW t \in p.texts  PROVE B[t].id = believed[p][t].id
  <2>1. Steps!Ids(B)[t] = B[t].id
    BY <1>3 DEF Steps!Ids
  <2>2. Steps!Ids(believed[p])[t] = believed[p][t].id
    BY <1>4 DEF Steps!Ids
  <2> QED  BY <1>5, <2>1, <2>2
<1>7. ASSUME NEW t \in p.texts
      PROVE  /\ B[t] = believed[p][t]
             /\ believed[p][t].id \in StepId /\ registry[believed[p][t].id] # None
             /\ believed[p][t]
                  = [id |-> believed[p][t].id, signature |-> registry[believed[p][t].id].signature]
  <2> DEFINE id == believed[p][t].id
  <2>1. /\ registryBase[id] # None
        /\ believed[p][t] = [id |-> id, signature |-> registryBase[id].signature]
    BY <1>1 DEF BelievedOf
  <2>2. B[t].id = id
    BY <1>6
  <2> HIDE DEF id
  <2>3. /\ id \in Steps!UsedStepIds(registry, p) /\ id \in StepId /\ registry[id] # None
        /\ B[t] = [id |-> id, signature |-> registry[id].signature]
    BY <1>3, <2>2
  <2>4. id \notin Steps!Moved(Steps!Entries(registryBase), registry)
    BY <1>1, <1>2, <2>3
  <2>5. registryBase[id].signature = registry[id].signature
    BY <1>1, <2>1, <2>3, <2>4, UnmovedSame
  <2> QED  BY <2>1, <2>3, <2>5 DEF id
<1>8. B = believed[p]
  BY <1>3, <1>4, <1>7
<1> QED  BY <1>7, <1>8 DEF B

-----------------------------------------------------------------------------
(* The story starts with a catalogue of the registry and nobody told.      *)
LEMMA StepsInit == GateInit => StepsInvariant
<1> SUFFICES ASSUME GateInit  PROVE StepsInvariant
  OBVIOUS
<1>1. /\ registry \in InitialRegistry /\ committed = Steps!Entries(registry)
      /\ registryBase = registry /\ review = None
      /\ believed = [p \in Scenario |-> Steps!Binding(registry, p)]
  BY DEF GateInit, Steps!Init
<1>2. registry \in Registry
  BY <1>1, GateAssumption DEF Steps!StepAssumption, Registry
<1>3. ASSUME NEW p \in Scenario, believed[p] # None  PROVE BelievedOf(p)
  <2>1. Steps!FileCompiles(registry, p.file)
    BY <1>1, <1>3 DEF Steps!Binding
  <2>2. believed[p] = Steps!Binding(registry, p)
    BY <1>1
  <2> QED  BY <1>1, <1>2, <2>1, <2>2, BindingIs DEF BelievedOf
<1> QED  BY <1>1, <1>2, <1>3 DEF StepsInvariant, Registries, Recorded, Believed

(* An edit forgets the diff; a diff records the comparison; a save makes   *)
(* the registry the catalogue and asks only those it told.                 *)
LEMMA StepsEdit ==
  ASSUME StepsInvariant, NEW id \in StepId, NEW step \in Step \cup {None}, Steps!Edit(id, step)
  PROVE  StepsInvariant'
<1>1. /\ registry' = [registry EXCEPT ![id] = step] /\ review' = None
      /\ UNCHANGED <<committed, registryBase, believed, rewired>>
  BY DEF Steps!Edit
<1>2. Registries'
  BY <1>1 DEF StepsInvariant, Registries, Registry
<1>3. Recorded' /\ Believed'
  BY <1>1 DEF StepsInvariant, Recorded, Believed, BelievedOf
<1> QED  BY <1>2, <1>3 DEF StepsInvariant

(* catalog diff makes the comparison the invariant speaks of.              *)
LEMMA StepsDiff == ASSUME StepsInvariant, Steps!Diff  PROVE StepsInvariant'
<1>1. /\ review' = Steps!Review(committed, registry)
      /\ UNCHANGED <<registry, committed, registryBase, believed, rewired>>
  BY DEF Steps!Diff
<1>2. Recorded'
  BY <1>1 DEF StepsInvariant, Recorded
<1>3. Registries' /\ Believed'
  BY <1>1 DEF StepsInvariant, Registries, Believed, BelievedOf
<1> QED  BY <1>2, <1>3 DEF StepsInvariant

(* catalog save: the owners who were told have looked, the others need not. *)
LEMMA StepsSave == ASSUME StepsInvariant, Steps!Save  PROVE StepsInvariant'
<1> DEFINE told == {p \in Scenario : Steps!Told(review, p) \/ believed[p] = None}
           now == [p \in Scenario |-> Steps!Binding(registry, p)]
<1>1. /\ review # None /\ review' = None
      /\ committed' = Steps!Entries(registry) /\ registryBase' = registry
      /\ registry' = registry
      /\ believed' = [p \in Scenario |-> IF p \in told THEN now[p] ELSE believed[p]]
      /\ rewired' = (rewired \ told)
           \cup {p \in Scenario \ told : Steps!Ids(now[p]) # Steps!Ids(believed[p])}
  BY DEF Steps!Save
<1>2. Registries' /\ Recorded'
  BY <1>1 DEF StepsInvariant, Registries, Recorded
<1>3. ASSUME NEW p \in Scenario, p \notin rewired', believed'[p] # None
      PROVE  BelievedOf(p)'
  <2>1. CASE p \in told
    <3>1. believed'[p] = Steps!Binding(registry, p)
      BY <1>1, <2>1
    <3>2. Steps!FileCompiles(registry, p.file)
      BY <1>3, <3>1 DEF Steps!Binding
    <3>3. registry \in Registry
      BY DEF StepsInvariant, Registries
    <3> QED  BY <1>1, <3>1, <3>2, <3>3, BindingIs DEF BelievedOf
  <2>2. CASE p \notin told
    <3>1. /\ believed'[p] = believed[p] /\ believed[p] # None /\ ~Steps!Told(review, p)
          /\ p \notin rewired
          /\ Steps!Ids(Steps!Binding(registry, p)) = Steps!Ids(believed[p])
      BY <1>1, <1>3, <2>2
    <3>2. \A t \in p.texts :
            LET id == believed[p][t].id
            IN /\ id \in StepId /\ registry[id] # None
               /\ believed[p][t] = [id |-> id, signature |-> registry[id].signature]
      BY <1>1, <3>1, SilentKeeps
    <3>3. believed[p] = [t \in p.texts |-> believed[p][t]]
      BY <3>1 DEF StepsInvariant, Believed, BelievedOf
    <3> QED  BY <1>1, <3>1, <3>2, <3>3 DEF BelievedOf
  <2> QED  BY <2>1, <2>2
<1>4. Believed'
  BY <1>1, <1>3 DEF Believed
<1> QED  BY <1>2, <1>4 DEF StepsInvariant

(* No step of the story breaks the invariant.                              *)
LEMMA StepsKept == StepsInvariant /\ [GateNext]_gvars => StepsInvariant'
<1> SUFFICES ASSUME StepsInvariant, [GateNext]_gvars  PROVE StepsInvariant'
  OBVIOUS
<1>1. CASE EditSteps
  BY <1>1, StepsEdit DEF EditSteps
<1>2. ASSUME EditApp  PROVE StepsInvariant'
  BY <1>2 DEF EditApp, StepsInvariant, Registries, Recorded, Believed, BelievedOf
<1>3. ASSUME UNCHANGED stepVars  PROVE StepsInvariant'
  BY <1>3 DEF stepVars, StepsInvariant, Registries, Recorded, Believed, BelievedOf
<1>4. CASE EditBodies
  BY <1>3, <1>4 DEF EditBodies
<1>5. ASSUME NEW withApp \in BOOLEAN, GateDiff(withApp)  PROVE StepsInvariant'
  BY <1>5, StepsDiff DEF GateDiff
<1>6. ASSUME NEW withApp \in BOOLEAN, GateSave(withApp)  PROVE StepsInvariant'
  BY <1>6, StepsSave DEF GateSave
<1>7. CASE UNCHANGED gvars
  BY <1>3, <1>7 DEF gvars
<1> QED  BY <1>1, <1>2, <1>4, <1>5, <1>6, <1>7 DEF GateNext

(* The invariant of the steps holds of every story.                        *)
LEMMA StepsHold == GateSpec => []StepsInvariant
  BY StepsInit, StepsKept, PTL DEF GateSpec

(* Over any number of edits, diffs and saves (catalog diff, catalog save): *)
(* a policy the diff is silent about means what its owner takes it to mean *)
(* as long as each of its texts has stood for the same step id.            *)
THEOREM SilentPoliciesKeepTheirMeaning == GateSpec => []SameIdsSameMeaning
<1>1. StepsInvariant => SameIdsSameMeaning
  <2> SUFFICES ASSUME StepsInvariant, NEW p \in Steps!Untold \ rewired,
                      Steps!Ids(Steps!Binding(registry, p)) = Steps!Ids(believed[p])
               PROVE  Steps!Meaning(Steps!Binding(registry, p)) = Steps!Meaning(believed[p])
    BY DEF SameIdsSameMeaning, Steps!SameIdsSameMeaning
  <2>1. p \in Scenario \ rewired /\ review # None /\ believed[p] # None /\ ~Steps!Told(review, p)
    BY DEF Steps!Untold
  <2>2. Steps!Binding(registry, p) = believed[p]
    BY <2>1, SilentKeeps
  <2> QED  BY <2>2
<1> QED  BY <1>1, StepsHold, PTL

(* No false alarm from a rewording (classify_changes, notifications): when *)
(* every policy compiles and means by the same ids what it meant in the    *)
(* committed code, the diff finds no break, whatever else was reworded,    *)
(* added or removed.                                                       *)
THEOREM RewordingsRaiseNoAlarm == GateSpec => []RewordingIsAbsorbed
<1>1. StepsInvariant => RewordingIsAbsorbed
  <2> SUFFICES ASSUME StepsInvariant, review # None,
                      \A p \in Scenario :
                        /\ Steps!Binding(registryBase, p) # None
                        /\ Steps!Binding(registry, p) = Steps!Binding(registryBase, p)
               PROVE  review.breaks = {}
    BY DEF RewordingIsAbsorbed, Steps!RenameIsAbsorbed
  <2>1. /\ registry \in Registry /\ registryBase \in Registry
        /\ committed = Steps!Entries(registryBase)
        /\ review.breaks = Steps!Breaks(committed, registry)
    BY DEF StepsInvariant, Registries, Recorded, Steps!Review
  <2>2. \A p \in Scenario : /\ Steps!FileCompiles(registry, p.file)
                            /\ Steps!FileCompiles(registryBase, p.file)
    BY DEF Steps!Binding
  <2>3. ASSUME NEW p \in Scenario, NEW id \in Steps!UsedStepIds(registry, p)
        PROVE  id \notin Steps!Moved(committed, registry)
    <3>1. PICK t \in p.texts : id \in Steps!Resolve(registry, t)
      BY DEF Steps!UsedStepIds
    <3> DEFINE B == Steps!Binding(registry, p)
               A == Steps!Binding(registryBase, p)
    <3>2. /\ B[t].id \in StepId /\ registry[B[t].id] # None
          /\ Steps!Resolve(registry, t) = {B[t].id}
          /\ B[t] = [id |-> B[t].id, signature |-> registry[B[t].id].signature]
      BY <2>1, <2>2, BindingIs
    <3>3. /\ A[t].id \in StepId /\ registryBase[A[t].id] # None
          /\ A[t] = [id |-> A[t].id, signature |-> registryBase[A[t].id].signature]
      BY <2>1, <2>2, BindingIs
    <3>4. A = B
      OBVIOUS
    <3> HIDE DEF A, B
    <3>5. B[t].id = id
      BY <3>1, <3>2
    <3>6. B[t].signature = registry[id].signature /\ B[t].signature = registryBase[id].signature
      BY <3>2, <3>3, <3>4, <3>5
    <3> QED  BY <2>1, <3>2, <3>3, <3>4, <3>5, <3>6, UnmovedSame
  <2>4. ASSUME NEW b \in Steps!Breaks(committed, registry)  PROVE FALSE
    <3>1. /\ b.to \in Scenario /\ b.step \in Steps!Moved(committed, registry)
          /\ b.step \in Steps!UsedStepIds(registry, b.to)
      BY <2>2 DEF Steps!Breaks
    <3> QED  BY <2>3, <3>1
  <2> QED  BY <2>1, <2>4
<1> QED  BY <1>1, StepsHold, PTL

(* "Same mechanism as catalog diff --app": for a registry all of whose     *)
(* policies compile, the contract check of the page (_check_stability,     *)
(* _check_app_surface) is red exactly when the command exits with 1, amber *)
(* exactly when it does so only with --fail-on-app-risk, and both name the *)
(* same policies and steps.                                                *)
THEOREM PageShowsTheGate == GateSpec => []PageAgreesWithGate
<1>1. StepsInvariant => PageAgreesWithGate
  <2> SUFFICES ASSUME StepsInvariant, review # None,
                      \A p \in Scenario : Steps!FileCompiles(registry, p.file)
               PROVE  /\ PageStepBreaks = review.breaks
                      /\ PageStatus = "breaks" <=> ExitCode(FALSE) = 1
                      /\ PageStatus = "risks" <=> (ExitCode(FALSE) = 0 /\ ExitCode(TRUE) = 1)
    BY DEF PageAgreesWithGate
  <2>1. review.breaks = Steps!Breaks(committed, registry)
    BY DEF StepsInvariant, Recorded, Steps!Review
  <2>2. PageStepBreaks = review.breaks
    <3>1. {p \in Scenario : Steps!FileCompiles(registry, p.file)} = Scenario
      OBVIOUS
    <3>2. Steps!Breaks(committed, registry) = PageStepBreaks \cup {}
      BY <3>1 DEF Steps!Breaks, PageStepBreaks
    <3> QED  BY <2>1, <3>2
  <2> QED  BY <2>2 DEF PageStatus, PageBreaks, ExitCode
<1> QED  BY <1>1, StepsHold, PTL

-----------------------------------------------------------------------------
(* The rounds up to the n-th.                                              *)
Rounds(n, seeds, graph, g) ==
  g = [k \in 0 .. n |-> IF k = 0 THEN seeds ELSE g[k - 1] \cup UNION {graph[f] : f \in g[k - 1]}]

(* A recursive function over the rounds exists.                            *)
LEMMA RoundsExist ==
  ASSUME NEW seeds, NEW graph, NEW n \in Nat
  PROVE  \E g : Rounds(n, seeds, graph, g)
<1> DEFINE Missing == {m \in Nat : ~ \E g : Rounds(m, seeds, graph, g)}
<1>1. SUFFICES ASSUME Missing # {}  PROVE FALSE
  OBVIOUS
<1>2. PICK m \in Missing : \A j \in Missing : <<j, m>> \notin OpToRel(<, Nat)
  BY <1>1, NatLessThanWellFounded, WFMin
<1>3. CASE m = 0
  <2>1. Rounds(0, seeds, graph, [k \in 0 .. 0 |-> seeds])
    BY DEF Rounds
  <2> QED  BY <1>2, <1>3, <2>1
<1>4. CASE m # 0
  <2>1. m \in Nat /\ m - 1 \in Nat /\ m - 1 < m /\ m # 0
    <3>1. m \in Nat
      OBVIOUS
    <3> QED  BY <1>4, <3>1
  <2>2. m - 1 \notin Missing
    <3>1. <<m - 1, m>> \in OpToRel(<, Nat)
      BY <2>1 DEF OpToRel
    <3> QED  BY <1>2, <3>1
  <2>3. PICK g : Rounds(m - 1, seeds, graph, g)
    BY <2>1, <2>2
  <2>4. /\ DOMAIN g = 0 .. m - 1 /\ g[0] = seeds
        /\ \A k \in 1 .. m - 1 : g[k] = g[k - 1] \cup UNION {graph[f] : f \in g[k - 1]}
    BY <2>1, <2>3 DEF Rounds
  <2> DEFINE last == g[m - 1] \cup UNION {graph[f] : f \in g[m - 1]}
             h == [k \in 0 .. m |-> IF k = m THEN last ELSE g[k]]
  <2>5. \A k \in 0 .. m - 1 : h[k] = g[k]
    BY <2>1
  <2>6. h[m] = h[m - 1] \cup UNION {graph[f] : f \in h[m - 1]}
    BY <2>1, <2>5
  <2> HIDE DEF last
  <2>7. ASSUME NEW k \in 0 .. m
        PROVE  h[k] = IF k = 0 THEN seeds ELSE h[k - 1] \cup UNION {graph[f] : f \in h[k - 1]}
    <3>1. CASE k = m
      BY <2>1, <2>6, <3>1
    <3>2. CASE k = 0
      BY <2>1, <2>4, <2>5, <3>2
    <3>3. CASE k # m /\ k # 0
      <4>1. k \in 1 .. m - 1 /\ k \in 0 .. m - 1 /\ k - 1 \in 0 .. m - 1
        BY <2>1, <3>3
      <4>2. h[k] = g[k] /\ h[k - 1] = g[k - 1]
        BY <2>5, <4>1
      <4> QED  BY <2>4, <3>3, <4>1, <4>2
    <3> QED  BY <3>1, <3>2, <3>3
  <2>8. h = [k \in 0 .. m |-> h[k]]
    OBVIOUS
  <2> HIDE DEF h
  <2>9. Rounds(m, seeds, graph, h)
    BY <2>7, <2>8 DEF Rounds
  <2> QED  BY <1>2, <2>9
<1> QED  BY <1>3, <1>4

(* The closure is what its rounds have collected after as many as there are *)
(* nodes.                                                                  *)
LEMMA ClosureRounds ==
  ASSUME NEW seeds, NEW graph, Cardinality(DOMAIN graph) \in Nat
  PROVE  \E g : /\ Rounds(Cardinality(DOMAIN graph), seeds, graph, g)
                /\ Closure(seeds, graph) = g[Cardinality(DOMAIN graph)]
<1> DEFINE N == Cardinality(DOMAIN graph)
           grown == CHOOSE g : Rounds(N, seeds, graph, g)
<1>1. Rounds(N, seeds, graph, grown)
  BY RoundsExist
<1>2. Closure(seeds, graph) = grown[N]
  BY DEF Closure, Rounds
<1> QED  BY <1>1, <1>2

(* What a graph's closure is: the seeds, closed under the graph, and no    *)
(* more than any such set.                                                 *)
ClosedIn(S, graph) == \A f \in S : graph[f] \subseteq S

(* The rounds suffice: nothing reachable is further away than there are    *)
(* nodes.                                                                  *)
LEMMA ClosureIsReach ==
  ASSUME NEW Nodes, IsFiniteSet(Nodes), NEW graph \in [Nodes -> SUBSET Nodes],
         NEW seeds \in SUBSET Nodes
  PROVE  /\ seeds \subseteq Closure(seeds, graph) /\ Closure(seeds, graph) \subseteq Nodes
         /\ ClosedIn(Closure(seeds, graph), graph)
         /\ \A S \in SUBSET Nodes :
              seeds \subseteq S /\ ClosedIn(S, graph) => Closure(seeds, graph) \subseteq S
<1> DEFINE N == Cardinality(Nodes)
<1>1. N \in Nat /\ DOMAIN graph = Nodes
  BY FS_CardinalityType
<1>2. PICK g : Rounds(N, seeds, graph, g) /\ Closure(seeds, graph) = g[N]
  BY <1>1, ClosureRounds
<1> HIDE DEF N
<1>3. /\ g[0] = seeds
      /\ \A k \in 1 .. N : g[k] = g[k - 1] \cup UNION {graph[f] : f \in g[k - 1]}
  <2>1. \A k \in 0 .. N :
          g[k] = IF k = 0 THEN seeds ELSE g[k - 1] \cup UNION {graph[f] : f \in g[k - 1]}
    BY <1>2 DEF Rounds
  <2>2. 0 \in 0 .. N /\ \A k \in 1 .. N : k \in 0 .. N /\ k # 0
    BY <1>1
  <2> QED  BY <2>1, <2>2
<1>4. \A k \in 0 .. N : k + 1 \in 0 .. N =>
        g[k + 1] = g[k] \cup UNION {graph[f] : f \in g[k]}
  <2> TAKE k \in 0 .. N
  <2> HAVE k + 1 \in 0 .. N
  <2>1. k + 1 \in 1 .. N /\ k + 1 - 1 = k
    BY <1>1
  <2> QED  BY <1>3, <2>1
<1> DEFINE Good(k) ==
             /\ seeds \subseteq g[k] /\ g[k] \subseteq Nodes
             /\ ClosedIn(g[k], graph) \/ k <= Cardinality(g[k])
             /\ \A S \in SUBSET Nodes : seeds \subseteq S /\ ClosedIn(S, graph) => g[k] \subseteq S
           Bad == {k \in 0 .. N : ~Good(k)}
<1>5. Good(0)
  <2>1. IsFiniteSet(seeds)
    BY FS_Subset
  <2>2. 0 <= Cardinality(seeds)
    BY <2>1, FS_CardinalityType
  <2> QED  BY <1>3, <2>2
<1>6. ASSUME NEW k \in 0 .. N, k + 1 \in 0 .. N, Good(k)  PROVE Good(k + 1)
  <2> DEFINE more == UNION {graph[f] : f \in g[k]}
  <2>1. g[k + 1] = g[k] \cup more
    BY <1>4, <1>6
  <2>2. \A f \in g[k] : graph[f] \subseteq more
    OBVIOUS
  <2>3. more \subseteq Nodes
    BY <1>6
  <2>4. ASSUME NEW S \in SUBSET Nodes, g[k] \subseteq S, ClosedIn(S, graph)
        PROVE  more \subseteq S
    BY <2>4 DEF ClosedIn
  <2>5. ClosedIn(g[k], graph) => more \subseteq g[k]
    BY DEF ClosedIn
  <2>6. ~ClosedIn(g[k], graph) => ~(more \subseteq g[k])
    BY DEF ClosedIn
  <2> HIDE DEF more
  <2>7. seeds \subseteq g[k + 1] /\ g[k + 1] \subseteq Nodes
    BY <1>6, <2>1, <2>3
  <2>8. ClosedIn(g[k + 1], graph) \/ k + 1 <= Cardinality(g[k + 1])
    <3>1. CASE ClosedIn(g[k], graph)
      <4>1. g[k + 1] = g[k]
        BY <2>1, <2>5, <3>1
      <4> QED  BY <3>1, <4>1
    <3>2. CASE ~ClosedIn(g[k], graph)
      <4>1. PICK x : x \in more /\ x \notin g[k]
        BY <2>6, <3>2
      <4>2. IsFiniteSet(g[k]) /\ IsFiniteSet(g[k + 1])
        BY <1>6, <2>7, FS_Subset
      <4>3. /\ IsFiniteSet(g[k] \cup {x})
            /\ Cardinality(g[k] \cup {x}) = Cardinality(g[k]) + 1
        BY <4>1, <4>2, FS_AddElement
      <4>4. g[k] \cup {x} \subseteq g[k + 1]
        BY <2>1, <4>1
      <4>5. Cardinality(g[k] \cup {x}) <= Cardinality(g[k + 1])
        BY <4>2, <4>4, FS_Subset
      <4> DEFINE a == Cardinality(g[k])
                 b == Cardinality(g[k + 1])
      <4>6. a \in Nat /\ b \in Nat /\ a + 1 <= b /\ k <= a
        BY <1>6, <3>2, <4>2, <4>3, <4>5, FS_CardinalityType
      <4> HIDE DEF a, b
      <4>7. k + 1 <= b
        BY <1>1, <4>6
      <4> QED  BY <4>7 DEF b
    <3> QED  BY <3>1, <3>2
  <2>9. ASSUME NEW S \in SUBSET Nodes, seeds \subseteq S, ClosedIn(S, graph)
        PROVE  g[k + 1] \subseteq S
    BY <1>6, <2>1, <2>4, <2>9
  <2> QED  BY <2>7, <2>8, <2>9
<1>7. Bad = {}
  <2> SUFFICES ASSUME Bad # {}  PROVE FALSE
    OBVIOUS
  <2>1. Bad \subseteq Nat
    BY <1>1
  <2> HIDE DEF Good, Bad
  <2>2. PICK m \in Bad : \A j \in Bad : <<j, m>> \notin OpToRel(<, Nat)
    BY <2>1, NatLessThanWellFounded, WFMin
  <2> USE DEF Bad
  <2>3. m \in 0 .. N /\ ~Good(m)
    OBVIOUS
  <2>4. m # 0
    BY <1>5, <2>3
  <2>5. m - 1 \in 0 .. N /\ m - 1 + 1 = m /\ m - 1 \in Nat /\ m \in Nat /\ m - 1 < m
    BY <1>1, <2>3, <2>4
  <2>6. m - 1 \notin Bad
    <3>1. <<m - 1, m>> \in OpToRel(<, Nat)
      BY <2>5 DEF OpToRel
    <3> QED  BY <2>2, <3>1
  <2>7. Good(m - 1)
    BY <2>5, <2>6
  <2>8. Good(m - 1 + 1)
    BY <1>6, <2>3, <2>5, <2>7
  <2> QED  BY <2>3, <2>5, <2>8
<1>8. Good(N)
  <2>1. N \in 0 .. N
    BY <1>1
  <2> HIDE DEF Good
  <2> QED  BY <1>7, <2>1
<1>9. ClosedIn(g[N], graph)
  <2>1. CASE N <= Cardinality(g[N])
    <3>1. IsFiniteSet(g[N]) /\ g[N] \subseteq Nodes
      BY <1>8, FS_Subset
    <3>2. Cardinality(g[N]) = N
      <4>1. Cardinality(g[N]) <= Cardinality(Nodes) /\ Cardinality(g[N]) \in Nat
        BY <3>1, FS_Subset, FS_CardinalityType
      <4> QED  BY <1>1, <2>1, <4>1 DEF N
    <3>3. g[N] = Nodes
      BY <3>1, <3>2, FS_Subset DEF N
    <3> QED  BY <3>3 DEF ClosedIn
  <2> QED  BY <1>8, <2>1
<1> QED  BY <1>2, <1>8, <1>9

(* The instances build on the same operators.                              *)
LEMMA ConditionOperators ==
  /\ \A S : Condition!Cardinality(S) = Cardinality(S)
  /\ \A S, graph : Condition!Closure(S, graph) = Closure(S, graph)
  /\ \A fn : Condition!Called(fn) = Called(fn) /\ Condition!ReadBy(fn) = ReadBy(fn)
<1>1. \A S : Condition!Cardinality(S) = Cardinality(S)
  BY DEF Condition!Cardinality, Cardinality
<1>2. \A S, graph : Condition!Closure(S, graph) = Closure(S, graph)
  BY DEF Condition!Closure, Closure, Condition!Cardinality, Cardinality
<1>3. \A fn : Condition!Called(fn) = Called(fn) /\ Condition!ReadBy(fn) = ReadBy(fn)
  BY DEF Condition!Called, Called, Condition!ReadBy, ReadBy
<1> QED  BY <1>1, <1>2, <1>3

-----------------------------------------------------------------------------
(* A steps module: its functions, of which the predicate is one.           *)
Module(c) ==
  /\ DOMAIN c = StepFunc /\ \A f \in StepFunc : Condition!IsFunction(c[f])
  /\ Pred \in Condition!Defined(c)

(* The functions a run of the predicate can enter.                         *)
Reached(c) == Closure({Pred}, Condition!CallGraph(c))

(* The helpers a predicate's fingerprint covers are those it reaches by    *)
(* calls within its module.                                                *)
LEMMA ReachedIs ==
  ASSUME NEW c, Module(c)
  PROVE  /\ Pred \in Reached(c) /\ Reached(c) \subseteq Condition!Defined(c)
         /\ \A f \in Reached(c) :
              Condition!Called(c[f]) \cap Condition!Defined(c) \subseteq Reached(c)
         /\ \A S \in SUBSET StepFunc :
              (/\ Pred \in S
               /\ \A f \in S : Condition!Called(c[f]) \cap Condition!Defined(c) \subseteq S)
              => Reached(c) \subseteq S
<1> DEFINE G == Condition!CallGraph(c)
           D == Condition!Defined(c)
<1>1. Pred \in StepFunc /\ IsFiniteSet(StepFunc) /\ DOMAIN c = StepFunc
  <2>1. \A S : Condition!IsFiniteSet(S) = IsFiniteSet(S)
    BY DEF Condition!IsFiniteSet, IsFiniteSet
  <2> QED  BY <2>1, GateAssumption DEF Condition!FuncAssumption, Module
<1>2. D \subseteq StepFunc /\ Pred \in D
  BY <1>1 DEF Condition!Defined, Module
<1>3. /\ G \in [StepFunc -> SUBSET StepFunc]
      /\ \A f \in StepFunc : G[f] = Condition!Called(c[f]) \cap D
  <2> HIDE DEF D
  <2>1. G = [f \in StepFunc |-> Condition!Called(c[f]) \cap D]
    BY <1>1 DEF Condition!CallGraph, D
  <2> HIDE DEF G
  <2> QED  BY <1>2, <2>1
<1> HIDE DEF G, D
<1>4. /\ {Pred} \subseteq Closure({Pred}, G) /\ Closure({Pred}, G) \subseteq StepFunc
      /\ ClosedIn(Closure({Pred}, G), G)
      /\ \A S \in SUBSET StepFunc :
           {Pred} \subseteq S /\ ClosedIn(S, G) => Closure({Pred}, G) \subseteq S
  BY <1>1, <1>3, ClosureIsReach
<1>5. ClosedIn(D, G)
  BY <1>2, <1>3 DEF ClosedIn
<1>6. \A S \in SUBSET StepFunc :
        ClosedIn(S, G) <=> \A f \in S : Condition!Called(c[f]) \cap D \subseteq S
  BY <1>3 DEF ClosedIn
<1>7. Closure({Pred}, G) = Reached(c)
  BY DEF Reached, G
<1> QED  BY <1>2, <1>4, <1>5, <1>6, <1>7 DEF D

(* These are the functions whose texts the reference collects, and those   *)
(* of the fingerprint.                                                     *)
LEMMA TextsAre ==
  ASSUME NEW c, Module(c)
  PROVE  /\ Condition!Texts(c) = {c[f].text : f \in Reached(c)}
         /\ Condition!Helpers(c) = Reached(c) \ {Pred}
<1> DEFINE Closed(S) == /\ Pred \in S
                        /\ \A f \in S : Condition!Called(c[f]) \cap Condition!Defined(c) \subseteq S
           Least == {g \in StepFunc : \A S \in SUBSET StepFunc : Closed(S) => g \in S}
<1>1. Reached(c) \in SUBSET StepFunc
  BY ReachedIs DEF Condition!Defined, Module
<1>2. Closed(Reached(c)) /\ \A S \in SUBSET StepFunc : Closed(S) => Reached(c) \subseteq S
  BY ReachedIs
<1>3. Condition!Texts(c) = {c[f].text : f \in Least}
  BY DEF Condition!Texts
<1> HIDE DEF Closed
<1>4. Least = Reached(c)
  BY <1>1, <1>2
<1>5. Condition!Helpers(c) = Reached(c) \ {Pred}
  BY ConditionOperators DEF Condition!Helpers, Reached
<1> QED  BY <1>3, <1>4, <1>5

(* Equal fingerprints mean equal texts.                                    *)
LEMMA FingerprintHoldsTexts ==
  ASSUME NEW c, Module(c), NEW d, Module(d),
         Condition!Fingerprint(c) = Condition!Fingerprint(d)
  PROVE  Condition!Texts(c) \subseteq Condition!Texts(d)
<1>1. /\ Condition!OwnHash(c[Pred]) = Condition!OwnHash(d[Pred])
      /\ {Condition!OwnHash(c[h]) : h \in Reached(c) \ {Pred}}
           = {Condition!OwnHash(d[h]) : h \in Reached(d) \ {Pred}}
  BY TextsAre DEF Condition!Fingerprint
<1>2. \A fn : Condition!OwnHash(fn)[1] = fn.text
  BY DEF Condition!OwnHash
<1>3. ASSUME NEW f \in Reached(c)  PROVE \E h \in Reached(d) : d[h].text = c[f].text
  <2>1. CASE f = Pred
    <3>1. Pred \in Reached(d)
      BY ReachedIs
    <3> QED  BY <1>1, <1>2, <2>1, <3>1
  <2>2. CASE f # Pred
    <3>1. PICK h \in Reached(d) : Condition!OwnHash(c[f]) = Condition!OwnHash(d[h])
      BY <1>1, <2>2
    <3> QED  BY <1>2, <3>1
  <2> QED  BY <2>1, <2>2
<1> QED  BY <1>3, TextsAre

-----------------------------------------------------------------------------
(* A name stands for the first place it occurs at.                         *)
FirstPlace(list, i, j) ==
  /\ j \in 1 .. i /\ list[j] = list[i]
  /\ \A k \in 1 .. (j - 1) : list[k] # list[i]

(* Renaming by order of appearance puts for each name the place it first   *)
(* appears at.                                                             *)
LEMMA AlphaIsFirst ==
  ASSUME NEW n \in Nat, NEW list, DOMAIN list = 1 .. n
  PROVE  /\ DOMAIN Condition!Alpha(list) = 1 .. n
         /\ \A i \in 1 .. n : FirstPlace(list, i, Condition!Alpha(list)[i])
<1>1. Condition!Alpha(list) =
        [i \in 1 .. n |->
           CHOOSE j \in 1 .. i :
             list[j] = list[i] /\ \A k \in 1 .. (j - 1) : list[k] # list[i]]
  BY DEF Condition!Alpha
<1>2. ASSUME NEW i \in 1 .. n  PROVE FirstPlace(list, i, Condition!Alpha(list)[i])
  <2> DEFINE Same == {j \in 1 .. i : list[j] = list[i]}
             Is(j) == list[j] = list[i] /\ \A k \in 1 .. (j - 1) : list[k] # list[i]
  <2>1. i \in Same /\ Same \subseteq Nat
    OBVIOUS
  <2>2. PICK m \in Same : \A j \in Same : <<j, m>> \notin OpToRel(<, Nat)
    <3> HIDE DEF Same
    <3> QED  BY <2>1, NatLessThanWellFounded, WFMin
  <2>3. m \in 1 .. i /\ list[m] = list[i]
    OBVIOUS
  <2>4. ASSUME NEW k \in 1 .. (m - 1), list[k] = list[i]  PROVE FALSE
    <3>1. k \in Same /\ k < m /\ k \in Nat /\ m \in Nat
      BY <2>3, <2>4
    <3>2. <<k, m>> \in OpToRel(<, Nat)
      BY <3>1 DEF OpToRel
    <3> QED  BY <2>2, <3>1, <3>2
  <2>5. \E j \in 1 .. i : Is(j)
    BY <2>3, <2>4
  <2>6. Condition!Alpha(list)[i] = CHOOSE j \in 1 .. i : Is(j)
    BY <1>1
  <2> HIDE DEF Is
  <2>7. Condition!Alpha(list)[i] \in 1 .. i /\ Is(Condition!Alpha(list)[i])
    BY <2>5, <2>6
  <2> QED  BY <2>7 DEF FirstPlace, Is
<1> QED  BY <1>1, <1>2

(* Two lists that repeat themselves at the same places are normalised to   *)
(* the same.                                                               *)
LEMMA AlphaForgetsNames ==
  ASSUME NEW n \in Nat, NEW old, DOMAIN old = 1 .. n, NEW new, DOMAIN new = 1 .. n,
         \A i, j \in 1 .. n : new[i] = new[j] <=> old[i] = old[j]
  PROVE  Condition!Alpha(new) = Condition!Alpha(old)
<1> DEFINE A == Condition!Alpha(old)
           B == Condition!Alpha(new)
<1>1. /\ DOMAIN A = 1 .. n /\ \A i \in 1 .. n : FirstPlace(old, i, A[i])
      /\ DOMAIN B = 1 .. n /\ \A i \in 1 .. n : FirstPlace(new, i, B[i])
  BY AlphaIsFirst
<1>2. A = [i \in 1 .. n |-> A[i]] /\ B = [i \in 1 .. n |-> B[i]]
  BY <1>1 DEF Condition!Alpha
<1> HIDE DEF A, B
<1>3. ASSUME NEW i \in 1 .. n  PROVE A[i] = B[i]
  <2>1. /\ A[i] \in 1 .. i /\ old[A[i]] = old[i] /\ \A k \in 1 .. (A[i] - 1) : old[k] # old[i]
        /\ B[i] \in 1 .. i /\ new[B[i]] = new[i] /\ \A k \in 1 .. (B[i] - 1) : new[k] # new[i]
    BY <1>1 DEF FirstPlace
  <2>2. \A k \in 1 .. i : k \in 1 .. n
    OBVIOUS
  <2>3. old[B[i]] = old[i] /\ new[A[i]] = new[i]
    BY <2>1, <2>2
  <2> DEFINE a == A[i]
             b == B[i]
  <2>4. a \in 1 .. i /\ b \in 1 .. i /\ b \notin 1 .. (a - 1) /\ a \notin 1 .. (b - 1)
    BY <2>1, <2>3
  <2> HIDE DEF a, b
  <2>5. a = b
    BY <2>4
  <2> QED  BY <2>5 DEF a, b
<1> QED  BY <1>2, <1>3 DEF A, B

(* What a rename does to one function.                                     *)
New(f, g, name) == IF name = f THEN g ELSE name
Listed(f, g, s) == [i \in DOMAIN s |-> New(f, g, s[i])]
Rewritten(f, g, fn) ==
  [fn EXCEPT !.calls = Listed(f, g, @), !.reads = Listed(f, g, @)]

(* A function in which the unused name g replaces f keeps its own hash.    *)
LEMMA RewrittenSame ==
  ASSUME NEW f \in Nat, NEW g \in Nat, NEW fn, Condition!IsFunction(fn),
         g \notin Condition!Called(fn) \cup Condition!ReadBy(fn)
  PROVE  /\ Condition!IsFunction(Rewritten(f, g, fn))
         /\ Rewritten(f, g, fn).text = fn.text
         /\ Condition!Called(Rewritten(f, g, fn)) = {New(f, g, name) : name \in Condition!Called(fn)}
         /\ Condition!OwnHash(Rewritten(f, g, fn)) = Condition!OwnHash(fn)
<1> DEFINE r == Rewritten(f, g, fn)
           c == fn.calls
           d == fn.reads
<1>1. /\ DOMAIN fn = {"text", "calls", "reads"}
      /\ c \in Seq(Nat) /\ d \in Seq(Nat)
  BY DEF Condition!IsFunction
<1>2. /\ DOMAIN r = {"text", "calls", "reads"}
      /\ r.text = fn.text /\ r.calls = Listed(f, g, c) /\ r.reads = Listed(f, g, d)
  BY <1>1 DEF Rewritten
<1>3. /\ \A i \in DOMAIN c : c[i] # g
      /\ \A i \in DOMAIN d : d[i] # g
  BY DEF Condition!Called, Condition!ReadBy
<1> HIDE DEF r, c, d
<1>4. ASSUME NEW s \in Seq(Nat)
      PROVE  Listed(f, g, s) \in Seq(Nat) /\ Len(Listed(f, g, s)) = Len(s)
  <2>1. \A i \in 1 .. Len(s) : New(f, g, s[i]) \in Nat
    BY DEF New
  <2>2. Listed(f, g, s) = [i \in 1 .. Len(s) |-> New(f, g, s[i])] /\ Len(s) \in Nat
    BY DEF Listed
  <2> QED  BY <2>1, <2>2
<1>5. Listed(f, g, c) \in Seq(Nat) /\ Listed(f, g, d) \in Seq(Nat)
  BY <1>1, <1>4
<1>6. Condition!IsFunction(r)
  BY <1>2, <1>5 DEF Condition!IsFunction
<1>7. Condition!Called(r) = {New(f, g, name) : name \in Condition!Called(fn)}
  <2>1. Condition!Called(fn) = {c[i] : i \in DOMAIN c}
    BY DEF Condition!Called, c
  <2>2. Condition!Called(r) = {Listed(f, g, c)[i] : i \in DOMAIN Listed(f, g, c)}
    BY <1>2 DEF Condition!Called
  <2> QED  BY <2>1, <2>2 DEF Listed
<1>8. Condition!Alpha(r.calls \o r.reads) = Condition!Alpha(c \o d)
  <2> DEFINE old == c \o d
             new == Listed(f, g, c) \o Listed(f, g, d)
             n == Len(c) + Len(d)
  <2>1. n \in Nat /\ DOMAIN old = 1 .. n /\ DOMAIN new = 1 .. n
    <3> DEFINE p == Listed(f, g, c)
               q == Listed(f, g, d)
    <3>1. p \in Seq(Nat) /\ q \in Seq(Nat) /\ Len(p) = Len(c) /\ Len(q) = Len(d)
      BY <1>1, <1>4, <1>5
    <3> HIDE DEF p, q
    <3>2. n \in Nat /\ DOMAIN old = 1 .. n
      BY <1>1
    <3>3. DOMAIN (p \o q) = 1 .. (Len(p) + Len(q))
      <4>1. \A s, t \in Seq(Nat) : DOMAIN (s \o t) = 1 .. (Len(s) + Len(t))
        OBVIOUS
      <4> QED  BY <3>1, <4>1
    <3>4. Len(p) + Len(q) = n
      BY <3>1
    <3> QED  BY <3>2, <3>3, <3>4 DEF p, q
  <2>2. \A i \in 1 .. n : new[i] = New(f, g, old[i]) /\ old[i] # g
    <3> SUFFICES ASSUME NEW i \in 1 .. n  PROVE new[i] = New(f, g, old[i]) /\ old[i] # g
      OBVIOUS
    <3> DEFINE x == Len(c)
               y == Len(d)
    <3>1. x \in Nat /\ y \in Nat /\ DOMAIN c = 1 .. x /\ DOMAIN d = 1 .. y
          /\ Len(Listed(f, g, c)) = x /\ Len(Listed(f, g, d)) = y
      BY <1>1, <1>4
    <3>2. CASE i <= x
      <4>1. i \in DOMAIN c /\ old[i] = c[i] /\ new[i] = Listed(f, g, c)[i]
        BY <1>1, <1>5, <3>1, <3>2
      <4> QED  BY <1>3, <4>1 DEF Listed
    <3>3. CASE ~(i <= x)
      <4>1. i - x \in DOMAIN d /\ old[i] = d[i - x] /\ new[i] = Listed(f, g, d)[i - x]
        BY <1>1, <1>5, <3>1, <3>3
      <4>2. Listed(f, g, d)[i - x] = New(f, g, d[i - x])
        BY ONLY <4>1 DEF Listed
      <4>3. d[i - x] # g
        BY ONLY <4>1, <1>3
      <4> QED  BY ONLY <4>1, <4>2, <4>3
    <3> QED  BY <3>2, <3>3
  <2> HIDE DEF old, new, n
  <2>3. \A i, j \in 1 .. n : new[i] = new[j] <=> old[i] = old[j]
    BY <2>2 DEF New
  <2>4. Condition!Alpha(new) = Condition!Alpha(old)
    BY <2>1, <2>3, AlphaForgetsNames
  <2> QED  BY <1>2, <2>4 DEF old, new
<1>9. Condition!OwnHash(r) = Condition!OwnHash(fn)
  BY <1>2, <1>8 DEF Condition!OwnHash, c, d
<1> QED  BY <1>2, <1>6, <1>7, <1>9 DEF r

-----------------------------------------------------------------------------
(* The names f and g exchanged: where a function is after the rename.      *)
Swap(f, g, h) == IF h = f THEN g ELSE IF h = g THEN f ELSE h

(* A rename of f to g, of a name not in use, and what it leaves.           *)
Renaming(c, f, g) ==
  /\ f \in Condition!Defined(c) \ {Pred} /\ g \in StepFunc \ Condition!Defined(c)
  /\ \A h \in Condition!Defined(c) :
       g \notin Condition!Called(c[h]) \cup Condition!ReadBy(c[h])

(* A module after a renaming: each function, rewritten, under its new name. *)
LEMMA RenamedIs ==
  ASSUME NEW c, Module(c), NEW f, NEW g, Renaming(c, f, g), NEW d, d = Condition!Renamed(c, f, g)
  PROVE  /\ DOMAIN d = StepFunc
         /\ \A h \in StepFunc \ {g} : d[Swap(f, g, h)] = Rewritten(f, g, c[h])
         /\ d[f] = c[g]
<1>1. f \in StepFunc /\ g \in StepFunc /\ f # g /\ DOMAIN c = StepFunc
  BY DEF Module, Renaming, Condition!Defined
<1>2. ASSUME NEW fn, Condition!IsFunction(fn)
      PROVE  [fn EXCEPT !.calls = [i \in DOMAIN @ |-> IF @[i] = f THEN g ELSE @[i]],
                        !.reads = [i \in DOMAIN @ |-> IF @[i] = f THEN g ELSE @[i]]]
               = Rewritten(f, g, fn)
  BY DEF Rewritten, Listed, New
<1>3. \A h \in StepFunc : d[h] = IF h = g THEN Rewritten(f, g, c[f])
                                 ELSE IF h = f THEN c[g] ELSE Rewritten(f, g, c[h])
  BY <1>1, <1>2 DEF Condition!Renamed, Module
<1>4. DOMAIN d = StepFunc
  BY <1>1 DEF Condition!Renamed
<1>5. ASSUME NEW h \in StepFunc \ {g}
      PROVE  d[Swap(f, g, h)] = Rewritten(f, g, c[h])
  <2>1. CASE h = f
    BY <1>1, <1>3, <2>1 DEF Swap
  <2>2. CASE h # f
    BY <1>3, <2>2 DEF Swap
  <2> QED  BY <2>1, <2>2
<1> QED  BY <1>1, <1>3, <1>4, <1>5

(* A rename keeps each function's hash and moves its calls along.          *)
LEMMA RenamedFunctions ==
  ASSUME NEW c, Module(c), NEW f, NEW g, Renaming(c, f, g), NEW d, d = Condition!Renamed(c, f, g)
  PROVE  /\ Module(d)
         /\ Condition!Defined(d) = {Swap(f, g, h) : h \in Condition!Defined(c)}
         /\ \A h \in Condition!Defined(c) :
              /\ Condition!OwnHash(d[Swap(f, g, h)]) = Condition!OwnHash(c[h])
              /\ Condition!Called(d[Swap(f, g, h)]) \cap Condition!Defined(d)
                   = {Swap(f, g, k) : k \in Condition!Called(c[h]) \cap Condition!Defined(c)}
<1> DEFINE C == Condition!Defined(c)
           D == Condition!Defined(d)
<1>1. /\ DOMAIN c = StepFunc /\ \A h \in StepFunc : Condition!IsFunction(c[h])
      /\ Pred \in C /\ StepFunc \subseteq Nat
  BY GateAssumption DEF Module, Condition!FuncAssumption
<1>2. /\ C = {h \in StepFunc : c[h].text # "none"} /\ f \in C /\ f # Pred
      /\ g \in StepFunc /\ g \notin C /\ f # g /\ C \subseteq StepFunc
      /\ \A h \in C : g \notin Condition!Called(c[h]) \cup Condition!ReadBy(c[h])
  BY <1>1 DEF Renaming, Condition!Defined
<1>3. /\ DOMAIN d = StepFunc /\ d[f] = c[g]
      /\ \A h \in StepFunc \ {g} : d[Swap(f, g, h)] = Rewritten(f, g, c[h])
  BY RenamedIs
<1>4. D = {h \in StepFunc : d[h].text # "none"}
  BY <1>3 DEF Condition!Defined
<1> HIDE DEF C, D
<1>5. \A h \in C : /\ Condition!IsFunction(Rewritten(f, g, c[h]))
                   /\ Rewritten(f, g, c[h]).text = c[h].text
                   /\ Condition!Called(Rewritten(f, g, c[h]))
                        = {New(f, g, name) : name \in Condition!Called(c[h])}
                   /\ Condition!OwnHash(Rewritten(f, g, c[h])) = Condition!OwnHash(c[h])
  BY <1>1, <1>2, RewrittenSame
<1>6. \A h \in StepFunc \ {g} : Rewritten(f, g, c[h]).text = c[h].text
  BY DEF Rewritten
<1>7. \A h \in StepFunc : /\ Swap(f, g, h) \in StepFunc /\ Swap(f, g, Swap(f, g, h)) = h
                          /\ Swap(f, g, h) = g <=> h = f
                          /\ Swap(f, g, h) = f <=> h = g
  BY <1>2 DEF Swap
<1>8. ASSUME NEW x \in StepFunc  PROVE x \in D <=> Swap(f, g, x) \in C
  <2>1. CASE x = f
    <3>1. d[x].text = "none" /\ Swap(f, g, x) = g
      BY <1>2, <1>3, <2>1 DEF Swap
    <3> QED  BY <1>2, <1>4, <3>1
  <2>2. CASE x # f
    <3>1. Swap(f, g, x) \in StepFunc \ {g}
      BY <1>7, <2>2
    <3>2. d[x].text = c[Swap(f, g, x)].text
      BY <1>3, <1>6, <1>7, <3>1
    <3> QED  BY <1>2, <1>4, <3>1, <3>2
  <2> QED  BY <2>1, <2>2
<1>9. D = {Swap(f, g, h) : h \in C}
  <2>1. D \subseteq StepFunc /\ C \subseteq StepFunc
    BY <1>2, <1>4
  <2> QED  BY <1>7, <1>8, <2>1
<1>10. ASSUME NEW h \in C
       PROVE  Condition!Called(d[Swap(f, g, h)]) \cap D
                = {Swap(f, g, k) : k \in Condition!Called(c[h]) \cap C}
  <2>1. h \in StepFunc \ {g}
    BY <1>2
  <2>2. Condition!Called(d[Swap(f, g, h)]) = {New(f, g, name) : name \in Condition!Called(c[h])}
    BY <1>3, <1>5, <2>1
  <2>3. \A name \in Condition!Called(c[h]) : name # g
    BY <1>2
  <2>4. \A name \in Condition!Called(c[h]) : New(f, g, name) = Swap(f, g, name)
    BY <2>3 DEF New, Swap
  <2>5. \A name \in Condition!Called(c[h]) : Swap(f, g, name) \in D <=> name \in C
    <3> TAKE name \in Condition!Called(c[h])
    <3>1. CASE name \in StepFunc
      BY <1>7, <1>8, <3>1
    <3>2. CASE name \notin StepFunc
      <4>1. Swap(f, g, name) = name
        BY <1>2, <3>2 DEF Swap
      <4> QED  BY <1>2, <1>4, <3>2, <4>1
    <3> QED  BY <3>1, <3>2
  <2> QED  BY <2>2, <2>4, <2>5
<1>11. Module(d)
  <2>1. Swap(f, g, Pred) = Pred
    BY <1>1, <1>2 DEF Swap
  <2>2. Pred \in D
    BY <1>1, <1>9, <2>1
  <2>3. ASSUME NEW x \in StepFunc  PROVE Condition!IsFunction(d[x])
    <3>1. CASE x = f
      BY <1>1, <1>2, <1>3, <3>1
    <3>2. CASE x # f
      <4>1. Swap(f, g, x) \in StepFunc \ {g} /\ d[x] = Rewritten(f, g, c[Swap(f, g, x)])
        <5>1. Swap(f, g, x) \in StepFunc \ {g}
          BY <1>7, <3>2
        <5> QED  BY <1>3, <1>7, <5>1
      <4>2. \A h \in StepFunc : Condition!IsFunction(Rewritten(f, g, c[h]))
        <5> TAKE h \in StepFunc
        <5>1. /\ c[h].calls \in Seq(Nat) /\ c[h].reads \in Seq(Nat) /\ f \in Nat /\ g \in Nat
              /\ DOMAIN c[h] = {"text", "calls", "reads"}
          BY <1>1, <1>2 DEF Condition!IsFunction
        <5>2. \A s \in Seq(Nat) : Listed(f, g, s) \in Seq(Nat)
          <6> TAKE s \in Seq(Nat)
          <6>1. \A i \in 1 .. Len(s) : New(f, g, s[i]) \in Nat
            BY <5>1 DEF New
          <6>2. Listed(f, g, s) = [i \in 1 .. Len(s) |-> New(f, g, s[i])] /\ Len(s) \in Nat
            BY DEF Listed
          <6> QED  BY <6>1, <6>2
        <5> QED  BY <5>1, <5>2 DEF Rewritten, Condition!IsFunction
      <4> QED  BY <4>1, <4>2
    <3> QED  BY <3>1, <3>2
  <2> QED  BY <1>3, <2>2, <2>3 DEF Module, D
<1>12. ASSUME NEW h \in C
       PROVE  Condition!OwnHash(d[Swap(f, g, h)]) = Condition!OwnHash(c[h])
  <2>1. h \in StepFunc \ {g}
    BY <1>2
  <2> QED  BY <1>3, <1>5, <2>1
<1> QED  BY <1>9, <1>10, <1>11, <1>12 DEF C, D

(* A run of the predicate enters the same functions, under their new names. *)
LEMMA RenamedReached ==
  ASSUME NEW c, Module(c), NEW f, NEW g, Renaming(c, f, g), NEW d, d = Condition!Renamed(c, f, g)
  PROVE  Reached(d) = {Swap(f, g, h) : h \in Reached(c)}
<1> DEFINE C == Condition!Defined(c)
           D == Condition!Defined(d)
           R == Reached(c)
           P == Reached(d)
           moved == {Swap(f, g, h) : h \in R}
           back == {h \in C : Swap(f, g, h) \in P}
<1>1. Module(d) /\ D = {Swap(f, g, h) : h \in C}
  BY RenamedFunctions
<1>2. \A h \in C : Condition!Called(d[Swap(f, g, h)]) \cap D
                     = {Swap(f, g, k) : k \in Condition!Called(c[h]) \cap C}
  BY RenamedFunctions
<1>3. /\ Pred \in R /\ R \subseteq C /\ \A h \in R : Condition!Called(c[h]) \cap C \subseteq R
      /\ \A S \in SUBSET StepFunc :
           Pred \in S /\ (\A h \in S : Condition!Called(c[h]) \cap C \subseteq S) => R \subseteq S
  BY ReachedIs
<1>4. /\ Pred \in P /\ P \subseteq D /\ \A x \in P : Condition!Called(d[x]) \cap D \subseteq P
      /\ \A S \in SUBSET StepFunc :
           Pred \in S /\ (\A x \in S : Condition!Called(d[x]) \cap D \subseteq S) => P \subseteq S
  BY <1>1, ReachedIs
<1>5. C \subseteq StepFunc /\ D \subseteq StepFunc /\ Pred \in C /\ f # Pred /\ g # Pred
  BY <1>1 DEF Module, Renaming, Condition!Defined
<1> HIDE DEF C, D, R, P
<1>6. Swap(f, g, Pred) = Pred
  BY <1>5 DEF Swap
<1>7. P \subseteq moved
  <2>1. moved \subseteq StepFunc /\ Pred \in moved
    BY <1>1, <1>3, <1>5, <1>6
  <2>2. ASSUME NEW x \in moved  PROVE Condition!Called(d[x]) \cap D \subseteq moved
    <3>1. PICK h \in R : x = Swap(f, g, h)
      OBVIOUS
    <3>2. Condition!Called(d[x]) \cap D = {Swap(f, g, k) : k \in Condition!Called(c[h]) \cap C}
      BY <1>2, <1>3, <3>1
    <3>3. Condition!Called(c[h]) \cap C \subseteq R
      BY <1>3
    <3> QED  BY <3>2, <3>3
  <2> HIDE DEF moved
  <2> QED  BY <1>4, <2>1, <2>2
<1>8. R \subseteq back
  <2>1. back \subseteq StepFunc /\ Pred \in back
    BY <1>4, <1>5, <1>6
  <2>2. ASSUME NEW h \in back  PROVE Condition!Called(c[h]) \cap C \subseteq back
    <3>1. h \in C /\ Swap(f, g, h) \in P
      OBVIOUS
    <3>2. Condition!Called(d[Swap(f, g, h)]) \cap D \subseteq P
      BY <1>4, <3>1
    <3>3. \A k \in Condition!Called(c[h]) \cap C : Swap(f, g, k) \in P
      BY <1>2, <3>1, <3>2
    <3> QED  BY <3>3
  <2> HIDE DEF back
  <2> QED  BY <1>3, <2>1, <2>2
<1>9. P = moved
  BY <1>7, <1>8
<1> QED  BY <1>9 DEF P, R

(* A rename of a helper leaves the predicate's fingerprint as it was.      *)
LEMMA RenameIsUnseen ==
  ASSUME NEW c, Module(c), NEW f, NEW g, Renaming(c, f, g), NEW d, d = Condition!Renamed(c, f, g)
  PROVE  Condition!Fingerprint(d) = Condition!Fingerprint(c)
<1> DEFINE R == Reached(c)
           P == Reached(d)
<1>1. Module(d) /\ \A h \in Condition!Defined(c) :
                     Condition!OwnHash(d[Swap(f, g, h)]) = Condition!OwnHash(c[h])
  BY RenamedFunctions
<1>2. P = {Swap(f, g, h) : h \in R}
  BY RenamedReached
<1>3. Pred \in R /\ R \subseteq Condition!Defined(c)
  BY ReachedIs
<1>4. /\ Condition!Helpers(c) = R \ {Pred} /\ Condition!Helpers(d) = P \ {Pred}
  BY <1>1, TextsAre
<1>5. g # Pred /\ f # Pred
  BY DEF Module, Renaming
<1> HIDE DEF R, P
<1>6. Swap(f, g, Pred) = Pred /\ \A h : Swap(f, g, h) = Pred => h = Pred
  BY <1>5 DEF Swap
<1>7. Condition!OwnHash(d[Pred]) = Condition!OwnHash(c[Pred])
  BY <1>1, <1>3, <1>6
<1>8. {Condition!OwnHash(d[x]) : x \in P \ {Pred}} = {Condition!OwnHash(c[h]) : h \in R \ {Pred}}
  <2>1. P \ {Pred} = {Swap(f, g, h) : h \in R \ {Pred}}
    BY <1>2, <1>6
  <2>2. \A h \in R \ {Pred} : Condition!OwnHash(d[Swap(f, g, h)]) = Condition!OwnHash(c[h])
    BY <1>1, <1>3
  <2> DEFINE Own(fn) == Condition!OwnHash(fn)
  <2>3. \A h \in R \ {Pred} : Own(d[Swap(f, g, h)]) = Own(c[h])
    BY <2>2
  <2> HIDE DEF Own
  <2>4. {Own(d[x]) : x \in P \ {Pred}} = {Own(c[h]) : h \in R \ {Pred}}
    BY <2>1, <2>3
  <2> QED  BY <2>4 DEF Own
<1> QED  BY <1>4, <1>7, <1>8 DEF Condition!Fingerprint

-----------------------------------------------------------------------------
(* The steps module and the one the catalogue was saved from are modules   *)
(* with the predicate in them, and only renames so far keep the            *)
(* fingerprint.                                                            *)
BodiesInvariant ==
  /\ Module(bodies) /\ Module(bodiesBase)
  /\ names => Condition!Silent

(* Before the first edit both codes are the same.                          *)
LEMMA BodiesInit == GateInit => BodiesInvariant
<1> SUFFICES ASSUME GateInit  PROVE BodiesInvariant
  OBVIOUS
<1>1. bodies \in InitialBodies /\ bodiesBase = bodies
  BY DEF GateInit, Condition!Init
<1>2. Module(bodies)
  BY <1>1, GateAssumption DEF Module, Condition!FuncAssumption
<1> QED  BY <1>1, <1>2 DEF BodiesInvariant, Condition!Silent

(* A rewrite leaves the predicate defined; a rename is of a helper to a    *)
(* name not in use; a constant is in no function.                          *)
LEMMA BodiesEdit ==
  ASSUME BodiesInvariant, Condition!Next  PROVE BodiesInvariant'
<1>1. Module(bodies) /\ Module(bodiesBase)
  BY DEF BodiesInvariant
<1>2. ASSUME NEW f \in StepFunc, NEW body \in Body, Condition!Rewrite(f, body)
      PROVE  BodiesInvariant'
  <2>1. /\ f = Pred => body.text # "none"
        /\ bodies' = [bodies EXCEPT ![f] = body]
        /\ names' = FALSE /\ bodiesBase' = bodiesBase
    BY <1>2 DEF Condition!Rewrite, Condition!Count
  <2>2. Condition!IsFunction(body)
    BY GateAssumption DEF Condition!FuncAssumption
  <2>3. DOMAIN bodies = StepFunc /\ Pred \in StepFunc /\ bodies[Pred].text # "none"
        /\ \A h \in StepFunc : Condition!IsFunction(bodies[h])
    BY <1>1 DEF Module, Condition!Defined
  <2> DEFINE after == [bodies EXCEPT ![f] = body]
  <2>4. DOMAIN after = StepFunc /\ \A h \in StepFunc : after[h] = IF h = f THEN body ELSE bodies[h]
    BY <2>3
  <2> HIDE DEF after
  <2>5. Module(after)
    <3>1. after[Pred].text # "none"
      BY <2>1, <2>3, <2>4
    <3> QED  BY <2>2, <2>3, <2>4, <3>1 DEF Module, Condition!Defined
  <2>6. bodies' = after
    BY <2>1 DEF after
  <2>7. Module(bodies') /\ Module(bodiesBase')
    BY <1>1, <2>1, <2>5, <2>6
  <2> QED  BY <2>1, <2>7 DEF BodiesInvariant, Module, Condition!Defined
<1>3. ASSUME NEW f \in StepFunc, NEW g \in StepFunc, Condition!Rename(f, g)
      PROVE  BodiesInvariant'
  <2>1. /\ Renaming(bodies, f, g) /\ bodies' = Condition!Renamed(bodies, f, g)
        /\ names' = names /\ bodiesBase' = bodiesBase
    BY <1>3 DEF Condition!Rename, Condition!Count, Renaming
  <2>2. Module(bodies')
    BY <1>1, <2>1, RenamedFunctions
  <2>3. Condition!Fingerprint(bodies') = Condition!Fingerprint(bodies)
    BY <1>1, <2>1, RenameIsUnseen
  <2>4. names' => Condition!Fingerprint(bodies') = Condition!Fingerprint(bodiesBase')
    BY <2>1, <2>3 DEF BodiesInvariant, Condition!Silent
  <2>5. names' => Condition!Silent'
    BY <2>4 DEF Condition!Silent
  <2>6. Module(bodiesBase')
    BY <1>1, <2>1
  <2> QED  BY <2>2, <2>5, <2>6 DEF BodiesInvariant
<1>4. ASSUME NEW c \in StepConstant, NEW v \in StepValue, Condition!SetConstant(c, v)
      PROVE  BodiesInvariant'
  <2>1. bodies' = bodies /\ bodiesBase' = bodiesBase /\ names' = FALSE
    BY <1>4 DEF Condition!SetConstant, Condition!Count
  <2> QED  BY <1>1, <2>1 DEF BodiesInvariant
<1> QED  BY <1>2, <1>3, <1>4 DEF Condition!Next

(* The invariant of the bodies holds of every story.                       *)
LEMMA BodiesHold == GateSpec => []BodiesInvariant
<1>1. GateInit => BodiesInvariant
  BY BodiesInit
<1>2. BodiesInvariant /\ [GateNext]_gvars => BodiesInvariant'
  <2> SUFFICES ASSUME BodiesInvariant, [GateNext]_gvars  PROVE BodiesInvariant'
    OBVIOUS
  <2>1. ASSUME UNCHANGED bodyVars  PROVE BodiesInvariant'
    BY <2>1 DEF bodyVars, BodiesInvariant, Module, Condition!Silent
  <2>2. CASE EditBodies
    BY <2>2, BodiesEdit DEF EditBodies
  <2>3. CASE ~EditBodies
    <3>1. UNCHANGED bodyVars
      BY <2>3 DEF GateNext, gvars, EditSteps, EditApp, GateDiff, GateSave
    <3> QED  BY <2>1, <3>1
  <2> QED  BY <2>2, <2>3
<1> QED  BY <1>1, <1>2, PTL DEF GateSpec

(* "Helper NAMES are not hashed" (fingerprint_bundle, _Alpha): however     *)
(* many helpers were renamed, recursive ones too, while nothing else       *)
(* changed, the fingerprint is the one in the catalogue.                   *)
THEOREM RenamesAreSilent == GateSpec => []RenameIsSilent
<1>1. BodiesInvariant => RenameIsSilent
  BY DEF BodiesInvariant, RenameIsSilent, Condition!RenameIsSilent
<1> QED  BY <1>1, BodiesHold, PTL

(* "Transitive to full depth" (_collect_helpers): an unchanged fingerprint *)
(* means that the functions a run of the predicate can enter, however deep *)
(* and whatever their cycles, have the texts they had.                     *)
THEOREM NewTextsAreSeen == GateSpec => []NewTextIsSeen
<1>1. BodiesInvariant => NewTextIsSeen
  <2> SUFFICES ASSUME BodiesInvariant, Condition!Silent
               PROVE  Condition!Texts(bodies) = Condition!Texts(bodiesBase)
    BY DEF NewTextIsSeen, Condition!NewTextIsSeen
  <2>1. /\ Module(bodies) /\ Module(bodiesBase)
        /\ Condition!Fingerprint(bodies) = Condition!Fingerprint(bodiesBase)
    BY DEF BodiesInvariant, Condition!Silent
  <2> QED  BY <2>1, FingerprintHoldsTexts
<1> QED  BY <1>1, BodiesHold, PTL

-----------------------------------------------------------------------------
(* Sites of one application: one for each function that emits.             *)
Keyed(sites) ==
  /\ IsFiniteSet(sites)
  /\ \A s \in sites : s.id \in Func /\ s.interface \in Events
  /\ \A s, t \in sites : s.id = t.id => s = t

(* Every site of S is on the old side of one change of C, and there is     *)
(* nothing else on that side; the same for the new side.                   *)
OldOnce(C, S) ==
  /\ \A c \in C : c.old # None => \E s \in S : c.old = Brief(s)
  /\ \A s \in S : \E c \in C : c.old = Brief(s)
  /\ \A c, d \in C : c.old # None /\ c.old = d.old => c = d
NewOnce(C, S) ==
  /\ \A c \in C : c.new # None => \E s \in S : c.new = Brief(s)
  /\ \A s \in S : \E c \in C : c.new = Brief(s)
  /\ \A c, d \in C : c.new # None /\ c.new = d.new => c = d

(* What the status of a change says of its two sites.                      *)
Alike(o, n) == o.fingerprint = n.fingerprint \/ ProvenRename(o, n)
SaysOf(status, o, n) ==
  \/ status = "interface-break" /\ o.interface # n.interface
  \/ status = "behavior-risk" /\ o.interface = n.interface
  \/ status \in {"unchanged", "renamed"} /\ o.interface = n.interface /\ Alike(o, n)
Fit(good, run, status, o) ==
  good \subseteq run.unclaimed /\ good # {} /\ \A n \in good : SaysOf(status, o, n)
Justified(c, old, new) ==
  \/ \E o \in old, n \in new : c = Change(c.status, o, n) /\ SaysOf(c.status, o, n)
  \/ \E o \in old : c = Removed(o)
  \/ \E n \in new : c = Added(n)

(* A pairing under way.                                                    *)
Running(run, old, new) ==
  /\ DOMAIN run = {"left", "unmatched", "unclaimed", "changes"}
  /\ run.left \subseteq old /\ run.unmatched \subseteq old \ run.left /\ run.unclaimed \subseteq new
  /\ \A c \in run.changes : Justified(c, old, new) /\ c.old # None
  /\ OldOnce(run.changes, old \ (run.left \cup run.unmatched))
  /\ NewOnce(run.changes, new \ run.unclaimed)

(* How many rounds it may still take.                                      *)
Ahead(run) == 2 * Cardinality(run.left) + Cardinality(run.unmatched)

(* What a site is reported as is not None, and tells it from the others.   *)
LEMMA BriefTells ==
  ASSUME NEW sites, Keyed(sites)
  PROVE  /\ \A s \in sites : Brief(s) # None /\ Brief(s).id = s.id /\ Brief(s).event = s.interface
         /\ \A s, t \in sites : Brief(s) = Brief(t) => s = t
<1>1. ASSUME NEW s \in sites  PROVE Brief(s) # None /\ Brief(s).id = s.id /\ Brief(s).event = s.interface
  <2>1. Brief(s) \in [id : Func, event : Events]
    BY DEF Keyed, Brief
  <2> QED  BY <2>1, AppAssumption DEF Brief
<1> QED  BY <1>1 DEF Keyed

(* A change more, for a site more.                                         *)
LEMMA OldOnceGrows ==
  ASSUME NEW sites, Keyed(sites), NEW S, S \subseteq sites, NEW C, OldOnce(C, S),
         NEW o \in sites, o \notin S, NEW c, c.old = Brief(o)
  PROVE  OldOnce(C \cup {c}, S \cup {o})
<1>1. \A d \in C : d.old # c.old
  <2> SUFFICES ASSUME NEW d \in C, d.old = c.old  PROVE FALSE
    OBVIOUS
  <2>1. d.old # None
    BY BriefTells
  <2>2. PICK s \in S : d.old = Brief(s)
    BY <2>1 DEF OldOnce
  <2>3. s = o
    BY <2>2, BriefTells
  <2> QED  BY <2>3
<1>2. \A d \in C \cup {c} : d.old # None => \E s \in S \cup {o} : d.old = Brief(s)
  BY DEF OldOnce
<1>3. \A s \in S \cup {o} : \E d \in C \cup {c} : d.old = Brief(s)
  BY DEF OldOnce
<1>4. \A d, e \in C \cup {c} : d.old # None /\ d.old = e.old => d = e
  BY <1>1 DEF OldOnce
<1> QED  BY <1>2, <1>3, <1>4 DEF OldOnce

(* The same for the new side.                                              *)
LEMMA NewOnceGrows ==
  ASSUME NEW sites, Keyed(sites), NEW S, S \subseteq sites, NEW C, NewOnce(C, S),
         NEW n \in sites, n \notin S, NEW c, c.new = Brief(n)
  PROVE  NewOnce(C \cup {c}, S \cup {n})
<1>1. \A d \in C : d.new # c.new
  <2> SUFFICES ASSUME NEW d \in C, d.new = c.new  PROVE FALSE
    OBVIOUS
  <2>1. d.new # None
    BY BriefTells
  <2>2. PICK s \in S : d.new = Brief(s)
    BY <2>1 DEF NewOnce
  <2>3. s = n
    BY <2>2, BriefTells
  <2> QED  BY <2>3
<1>2. \A d \in C \cup {c} : d.new # None => \E s \in S \cup {n} : d.new = Brief(s)
  BY DEF NewOnce
<1>3. \A s \in S \cup {n} : \E d \in C \cup {c} : d.new = Brief(s)
  BY DEF NewOnce
<1>4. \A d, e \in C \cup {c} : d.new # None /\ d.new = e.new => d = e
  BY <1>1 DEF NewOnce
<1> QED  BY <1>2, <1>3, <1>4 DEF NewOnce

(* The first of some sites is one of them.                                 *)
LEMMA FirstIs ==
  ASSUME NEW sites, Keyed(sites), NEW S, S \subseteq sites, S # {}
  PROVE  First(S) \in S
<1> DEFINE I == {s.id : s \in S}
<1>1. I \subseteq Nat /\ I # {}
  <2>1. \A s \in S : s.id \in Nat
    BY AppAssumption DEF Keyed
  <2> QED  BY <2>1
<1>2. PICK x \in I : \A y \in I : <<y, x>> \notin OpToRel(<, Nat)
  <2> HIDE DEF I
  <2> QED  BY <1>1, NatLessThanWellFounded, WFMin
<1>3. \A y \in I : x <= y
  <2> TAKE y \in I
  <2>1. ~(y < x)
    BY <1>1, <1>2 DEF OpToRel
  <2> QED  BY <1>1, <2>1
<1>4. \E s \in S : \A t \in S : s.id <= t.id
  <2>1. PICK s \in S : x = s.id
    BY <1>2
  <2>2. \A t \in S : t.id \in I
    OBVIOUS
  <2> HIDE DEF I
  <2>3. \A t \in S : s.id <= t.id
    BY <1>3, <2>1, <2>2
  <2> QED  BY <2>3
<1> QED  BY <1>4 DEF First

(* A site with nothing on the other side.                                  *)
LEMMA OnceStays ==
  ASSUME NEW C, NEW S, NEW c
  PROVE  /\ OldOnce(C, S) /\ c.old = None => OldOnce(C \cup {c}, S)
         /\ NewOnce(C, S) /\ c.new = None => NewOnce(C \cup {c}, S)
<1>1. ASSUME OldOnce(C, S), c.old = None  PROVE OldOnce(C \cup {c}, S)
  <2>1. \A d \in C \cup {c} : d.old # None => d \in C
    BY <1>1
  <2>2. \A d, e \in C \cup {c} : d.old # None /\ d.old = e.old => d = e
    <3> SUFFICES ASSUME NEW d \in C \cup {c}, NEW e \in C \cup {c}, d.old # None, d.old = e.old
                 PROVE  d = e
      OBVIOUS
    <3>1. d \in C /\ e \in C
      BY <2>1
    <3> QED  BY <1>1, <3>1 DEF OldOnce
  <2> QED  BY <1>1, <2>1, <2>2 DEF OldOnce
<1>2. ASSUME NewOnce(C, S), c.new = None  PROVE NewOnce(C \cup {c}, S)
  <2>1. \A d \in C \cup {c} : d.new # None => d \in C
    BY <1>2
  <2>2. \A d, e \in C \cup {c} : d.new # None /\ d.new = e.new => d = e
    <3> SUFFICES ASSUME NEW d \in C \cup {c}, NEW e \in C \cup {c}, d.new # None, d.new = e.new
                 PROVE  d = e
      OBVIOUS
    <3>1. d \in C /\ e \in C
      BY <2>1
    <3> QED  BY <1>2, <3>1 DEF NewOnce
  <2> QED  BY <1>2, <2>1, <2>2 DEF NewOnce
<1> QED  BY <1>1, <1>2

(* What is claimed is claimed for good.                                    *)
LEMMA ClaimKeeps ==
  ASSUME NEW old, NEW new, Keyed(old), Keyed(new), NEW run, Running(run, old, new),
         NEW o \in run.left \cup run.unmatched, NEW good, NEW status, Fit(good, run, status, o)
  PROVE  /\ Running(Claim(run, o, good, status), old, new)
         /\ Claim(run, o, good, status).left = run.left \ {o}
         /\ Claim(run, o, good, status).unmatched = run.unmatched \ {o}
<1> DEFINE n == First(good)
           c == Change(status, o, n)
           r == Claim(run, o, good, status)
           done == old \ (run.left \cup run.unmatched)
           used == new \ run.unclaimed
<1>1. /\ DOMAIN run = {"left", "unmatched", "unclaimed", "changes"}
      /\ run.left \subseteq old /\ run.unmatched \subseteq old \ run.left /\ run.unclaimed \subseteq new
      /\ \A d \in run.changes : Justified(d, old, new) /\ d.old # None
      /\ OldOnce(run.changes, done) /\ NewOnce(run.changes, used)
  BY DEF Running
<1>2. n \in good /\ n \in new /\ n \in run.unclaimed /\ SaysOf(status, o, n)
  BY <1>1, FirstIs DEF Fit
<1>3. o \in old /\ o \notin done /\ n \notin used /\ done \subseteq old /\ used \subseteq new
  BY <1>1, <1>2
<1>4. c.status = status /\ c.old = Brief(o) /\ c.new = Brief(n) /\ c = Change(c.status, o, n)
  BY DEF Change
<1>5. Justified(c, old, new) /\ c.old # None
  BY <1>2, <1>3, <1>4, BriefTells DEF Justified
<1>6. /\ DOMAIN r = {"left", "unmatched", "unclaimed", "changes"}
      /\ r.left = run.left \ {o} /\ r.unmatched = run.unmatched \ {o}
      /\ r.unclaimed = run.unclaimed \ {n} /\ r.changes = run.changes \cup {c}
  BY <1>1 DEF Claim, Without
<1>7. /\ old \ (r.left \cup r.unmatched) = done \cup {o}
      /\ new \ r.unclaimed = used \cup {n}
  BY <1>2, <1>3, <1>6
<1> HIDE DEF c, n, r, done, used
<1>8. OldOnce(r.changes, done \cup {o}) /\ NewOnce(r.changes, used \cup {n})
  BY <1>1, <1>2, <1>3, <1>4, <1>6, OldOnceGrows, NewOnceGrows
<1>9. Running(r, old, new)
  BY <1>1, <1>5, <1>6, <1>7, <1>8 DEF Running
<1> QED  BY <1>6, <1>9 DEF r

(* A site with no new one is removed for good.                             *)
LEMMA RemoveKeeps ==
  ASSUME NEW old, NEW new, Keyed(old), Keyed(new), NEW run, Running(run, old, new),
         NEW o \in run.left \cup run.unmatched
  PROVE  /\ Running(Remove(run, o), old, new)
         /\ Remove(run, o).left = run.left \ {o}
         /\ Remove(run, o).unmatched = run.unmatched \ {o}
<1> DEFINE c == Removed(o)
           r == Remove(run, o)
           done == old \ (run.left \cup run.unmatched)
           used == new \ run.unclaimed
<1>1. /\ DOMAIN run = {"left", "unmatched", "unclaimed", "changes"}
      /\ run.left \subseteq old /\ run.unmatched \subseteq old \ run.left /\ run.unclaimed \subseteq new
      /\ \A d \in run.changes : Justified(d, old, new) /\ d.old # None
      /\ OldOnce(run.changes, done) /\ NewOnce(run.changes, used)
  BY DEF Running
<1>2. o \in old /\ o \notin done /\ done \subseteq old
  BY <1>1
<1>3. c.old = Brief(o) /\ c.new = None
  BY DEF Removed
<1>4. Justified(c, old, new) /\ c.old # None
  BY <1>2, <1>3, BriefTells DEF Justified
<1>5. /\ DOMAIN r = {"left", "unmatched", "unclaimed", "changes"}
      /\ r.left = run.left \ {o} /\ r.unmatched = run.unmatched \ {o}
      /\ r.unclaimed = run.unclaimed /\ r.changes = run.changes \cup {c}
  BY <1>1 DEF Remove, Without
<1>6. /\ old \ (r.left \cup r.unmatched) = done \cup {o}
      /\ new \ r.unclaimed = used
  BY <1>2, <1>5
<1> HIDE DEF c, r, done, used
<1>7. OldOnce(r.changes, done \cup {o}) /\ NewOnce(r.changes, used)
  BY <1>1, <1>2, <1>3, <1>5, OldOnceGrows, OnceStays
<1>8. Running(r, old, new)
  BY <1>1, <1>4, <1>5, <1>6, <1>7 DEF Running
<1> QED  BY <1>5, <1>8 DEF r

(* A round keeps the books and is a step towards the end.                  *)
LEMMA PairKeeps ==
  ASSUME NEW old, NEW new, Keyed(old), Keyed(new), NEW run, Running(run, old, new)
  PROVE  /\ Running(Pair(run), old, new)
         /\ Ahead(run) \in Nat
         /\ Ahead(run) = 0 => run.left = {} /\ run.unmatched = {}
         /\ Ahead(Pair(run)) = 0 \/ Ahead(Pair(run)) < Ahead(run)
<1>1. /\ DOMAIN run = {"left", "unmatched", "unclaimed", "changes"}
      /\ run.left \subseteq old /\ run.unmatched \subseteq old \ run.left /\ run.unclaimed \subseteq new
  BY DEF Running
<1>2. IsFiniteSet(run.left) /\ IsFiniteSet(run.unmatched)
  BY <1>1, FS_Subset DEF Keyed
<1> DEFINE l == Cardinality(run.left)
           u == Cardinality(run.unmatched)
<1>3. /\ l \in Nat /\ u \in Nat /\ (l = 0 <=> run.left = {}) /\ (u = 0 <=> run.unmatched = {})
  BY <1>2, FS_CardinalityType, FS_EmptySet
<1>4. \A S, x : IsFiniteSet(S) /\ x \in S => Cardinality(S \ {x}) = Cardinality(S) - 1
  BY FS_RemoveElement
<1>5. \A S, x : IsFiniteSet(S) /\ x \notin S => Cardinality(S \cup {x}) = Cardinality(S) + 1
  BY FS_AddElement
<1>6. Ahead(run) \in Nat /\ (Ahead(run) = 0 => run.left = {} /\ run.unmatched = {})
  <2> HIDE DEF l, u
  <2>1. Ahead(run) = 2 * l + u
    BY DEF Ahead, l, u
  <2> QED  BY <1>3, <2>1
<1>7. CASE run.left # {}
  <2> DEFINE o == First(run.left)
             good == {n \in run.unclaimed : n.interface = o.interface /\ n.fingerprint = o.fingerprint}
  <2>1. o \in run.left /\ o \in old /\ o \notin run.unmatched
    BY <1>1, <1>7, FirstIs
  <2>2. Pair(run) = ExactPass(run, o)
    BY <1>7 DEF Pair
  <2> HIDE DEF o
  <2>3. CASE good = {}
    <3> DEFINE r == [run EXCEPT !.left = @ \ {o}, !.unmatched = @ \cup {o}]
    <3>1. Pair(run) = r
      BY <2>2, <2>3 DEF ExactPass
    <3>2. /\ DOMAIN r = {"left", "unmatched", "unclaimed", "changes"}
          /\ r.left = run.left \ {o} /\ r.unmatched = run.unmatched \cup {o}
          /\ r.unclaimed = run.unclaimed /\ r.changes = run.changes
      BY <1>1
    <3> HIDE DEF r
    <3>3. r.left \cup r.unmatched = run.left \cup run.unmatched
      BY <2>1, <3>2
    <3>4. Running(r, old, new)
      BY <1>1, <2>1, <3>2, <3>3 DEF Running
    <3>5. Cardinality(r.left) = l - 1 /\ Cardinality(r.unmatched) = u + 1
      BY <1>2, <1>4, <1>5, <2>1, <3>2
    <3>6. Ahead(r) < Ahead(run)
      <4> HIDE DEF l, u
      <4>1. Ahead(run) = 2 * l + u /\ Ahead(r) = 2 * (l - 1) + (u + 1)
        BY <3>5 DEF Ahead, l, u
      <4> QED  BY <1>3, <4>1
    <3> QED  BY <1>6, <3>1, <3>4, <3>6
  <2>4. CASE good # {}
    <3> DEFINE r == Claim(run, o, good, "renamed")
    <3>1. Pair(run) = r
      BY <2>2, <2>4 DEF ExactPass
    <3>2. Fit(good, run, "renamed", o)
      BY <2>4 DEF Fit, SaysOf, Alike
    <3>3. /\ Running(r, old, new) /\ r.left = run.left \ {o} /\ r.unmatched = run.unmatched \ {o}
      <4> HIDE DEF good
      <4> QED  BY <2>1, <3>2, ClaimKeeps
    <3> HIDE DEF r
    <3>4. Cardinality(r.left) = l - 1 /\ r.unmatched = run.unmatched
      BY <1>2, <1>4, <2>1, <3>3
    <3>5. Ahead(r) < Ahead(run)
      <4> HIDE DEF l, u
      <4>1. Ahead(run) = 2 * l + u /\ Ahead(r) = 2 * (l - 1) + u
        BY <3>4 DEF Ahead, l, u
      <4> QED  BY <1>3, <4>1
    <3> QED  BY <1>6, <3>1, <3>3, <3>5
  <2> QED  BY <2>3, <2>4
<1>8. CASE run.left = {} /\ run.unmatched # {}
  <2> DEFINE o == First(run.unmatched)
             same == {n \in run.unclaimed : n.interface = o.interface}
             proven == {n \in same : ProvenRename(o, n)}
  <2>1. o \in run.unmatched /\ o \in old
    BY <1>1, <1>8, FirstIs
  <2>2. Pair(run) = InterfacePass(run, o)
    BY <1>8 DEF Pair
  <2> HIDE DEF o
  <2>3. /\ Running(Pair(run), old, new) /\ Pair(run).left = run.left \ {o}
        /\ Pair(run).unmatched = run.unmatched \ {o}
    <3>1. CASE same = {}
      <4>1. Pair(run) = Remove(run, o)
        BY <2>2, <3>1 DEF InterfacePass
      <4> QED  BY <2>1, <4>1, RemoveKeeps
    <3>2. CASE same # {} /\ proven # {}
      <4>1. Pair(run) = Claim(run, o, proven, "renamed")
        BY <2>2, <3>2 DEF InterfacePass
      <4>2. Fit(proven, run, "renamed", o)
        BY <3>2 DEF Fit, SaysOf, Alike
      <4> HIDE DEF proven
      <4> QED  BY <2>1, <4>1, <4>2, ClaimKeeps
    <3>3. CASE same # {} /\ proven = {}
      <4>1. Pair(run) = Claim(run, o, same, "behavior-risk")
        BY <2>2, <3>3 DEF InterfacePass
      <4>2. Fit(same, run, "behavior-risk", o)
        BY <3>3 DEF Fit, SaysOf
      <4> HIDE DEF same
      <4> QED  BY <2>1, <4>1, <4>2, ClaimKeeps
    <3> QED  BY <3>1, <3>2, <3>3
  <2> DEFINE r == Pair(run)
  <2> HIDE DEF r
  <2>4. Cardinality(r.unmatched) = u - 1 /\ r.left = run.left
    BY <1>2, <1>4, <1>8, <2>1, <2>3 DEF r
  <2>5. Ahead(r) < Ahead(run)
    <3> HIDE DEF l, u
    <3>1. Ahead(run) = 2 * l + u /\ Ahead(r) = 2 * l + (u - 1)
      BY <2>4 DEF Ahead, l, u
    <3> QED  BY <1>3, <3>1
  <2> QED  BY <1>6, <2>3, <2>5 DEF r
<1>9. CASE run.left = {} /\ run.unmatched = {}
  <2>1. Pair(run) = run
    BY <1>9 DEF Pair
  <2>2. l = 0 /\ u = 0
    BY <1>3, <1>9
  <2>3. Ahead(run) = 0
    <3> HIDE DEF l, u
    <3>1. Ahead(run) = 2 * l + u
      BY DEF Ahead, l, u
    <3> QED  BY <2>2, <3>1
  <2> QED  BY <1>6, <2>1, <2>3
<1> QED  BY <1>7, <1>8, <1>9

-----------------------------------------------------------------------------
(* What holds at 0 and is handed on from each number to the next.          *)
LEMMA CountUp ==
  ASSUME NEW N \in Nat, NEW S, 0 \in S, \A k \in 0 .. N - 1 : k \in S => k + 1 \in S
  PROVE  N \in S
<1> DEFINE Missing == {k \in 0 .. N : k \notin S}
<1>1. SUFFICES ASSUME Missing # {}  PROVE FALSE
  OBVIOUS
<1>2. PICK m \in Missing : \A j \in Missing : <<j, m>> \notin OpToRel(<, Nat)
  <2>1. Missing \subseteq Nat
    OBVIOUS
  <2> HIDE DEF Missing
  <2> QED  BY <1>1, <2>1, NatLessThanWellFounded, WFMin
<1>3. m \in Nat /\ m # 0 /\ m <= N /\ m \notin S
  <2>1. m \in 0 .. N /\ m \notin S
    OBVIOUS
  <2> QED  BY <2>1
<1>4. m - 1 \in 0 .. N - 1 /\ m - 1 \in 0 .. N /\ m - 1 \in Nat /\ m - 1 < m /\ (m - 1) + 1 = m
  BY <1>3
<1>5. m - 1 \notin Missing
  <2>1. <<m - 1, m>> \in OpToRel(<, Nat)
    BY <1>3, <1>4 DEF OpToRel
  <2> HIDE DEF Missing
  <2> QED  BY <1>2, <2>1
<1>6. m - 1 \in S
  BY <1>4, <1>5
<1> HIDE DEF Missing
<1>7. (m - 1) + 1 \in S
  BY <1>4, <1>6
<1> QED  BY <1>3, <1>4, <1>7

(* The pairing up to the n-th round, and that there is one.                *)
Runs(n, start, g) == g = [k \in 0 .. n |-> IF k = 0 THEN start ELSE Pair(g[k - 1])]

LEMMA RunsExist ==
  ASSUME NEW start, NEW N \in Nat
  PROVE  \E g : Runs(N, start, g)
<1> DEFINE S == {k \in Nat : \E g : Runs(k, start, g)}
<1>1. 0 \in S
  <2>1. Runs(0, start, [k \in 0 .. 0 |-> start])
    BY DEF Runs
  <2> QED  BY <2>1
<1>2. ASSUME NEW m \in 0 .. N - 1, m \in S  PROVE m + 1 \in S
  <2>1. m \in Nat /\ m + 1 \in Nat /\ m + 1 # 0
    OBVIOUS
  <2>2. PICK g : Runs(m, start, g)
    BY <1>2
  <2>3. /\ DOMAIN g = 0 .. m
        /\ \A k \in 0 .. m : g[k] = IF k = 0 THEN start ELSE Pair(g[k - 1])
    BY <2>2 DEF Runs
  <2> DEFINE h == [k \in 0 .. m + 1 |-> IF k = m + 1 THEN Pair(g[m]) ELSE g[k]]
  <2>4. /\ \A k \in 0 .. m : h[k] = g[k]
        /\ h[m + 1] = Pair(g[m])
        /\ h = [k \in 0 .. m + 1 |-> h[k]]
    BY <2>1
  <2> HIDE DEF h
  <2>5. ASSUME NEW k \in 0 .. m + 1  PROVE h[k] = IF k = 0 THEN start ELSE Pair(h[k - 1])
    <3>1. CASE k = m + 1
      <4>1. k - 1 = m /\ m \in 0 .. m /\ k # 0
        BY <2>1, <3>1
      <4>2. h[k - 1] = g[m]
        BY <2>4, <4>1
      <4> QED  BY <2>4, <3>1, <4>1, <4>2
    <3>2. CASE k # m + 1
      <4>1. k \in 0 .. m /\ (k # 0 => k - 1 \in 0 .. m)
        BY <2>1, <3>2
      <4> QED  BY <2>3, <2>4, <4>1
    <3> QED  BY <3>1, <3>2
  <2>6. Runs(m + 1, start, h)
    BY <2>4, <2>5 DEF Runs
  <2> QED  BY <2>1, <2>6
<1> HIDE DEF S
<1>3. N \in S
  BY <1>1, <1>2, CountUp
<1> QED  BY <1>3 DEF S

(* The sites of one id are compared; the others are free to be paired.     *)
LEMMA StartKeeps ==
  ASSUME NEW old, NEW new, Keyed(old), Keyed(new)
  PROVE  Running(Start(old, new), old, new) /\ Start(old, new).unmatched = {}
<1> DEFINE M == {s \in old : s.id \in Ids(new)}
           K == {s \in new : s.id \in Ids(old)}
           partner(o) == CHOOSE n \in new : n.id = o.id
           C == {Matched(o, partner(o)) : o \in M}
           run == Start(old, new)
<1>1. /\ DOMAIN run = {"left", "unmatched", "unclaimed", "changes"}
      /\ run.left = {o \in old : o.id \notin Ids(new)} /\ run.unmatched = {}
      /\ run.unclaimed = {n \in new : n.id \notin Ids(old)} /\ run.changes = C
  BY DEF Start
<1>2. old \ (run.left \cup run.unmatched) = M /\ new \ run.unclaimed = K
  BY <1>1
<1>3. \A o \in M : partner(o) \in new /\ partner(o).id = o.id
  BY DEF Ids
<1> HIDE DEF partner, run
<1>4. \A o \in M : partner(o) \in K
  BY <1>3 DEF Ids
<1>5. \A n \in K : \E o \in M : partner(o) = n
  <2> TAKE n \in K
  <2>1. PICK o \in old : o.id = n.id
    BY DEF Ids
  <2>2. o \in M
    BY <2>1 DEF Ids
  <2>3. partner(o) = n
    BY <1>3, <2>1, <2>2 DEF Keyed
  <2> QED  BY <2>2, <2>3
<1>6. \A o, p \in M : partner(o) = partner(p) => o = p
  BY <1>3 DEF Keyed
<1>7. \A o \in M :
        LET c == Matched(o, partner(o)) IN
        c.old = Brief(o) /\ c.new = Brief(partner(o)) /\ Justified(c, old, new)
  <2> TAKE o \in M
  <2> DEFINE c == Matched(o, partner(o))
             n == partner(o)
  <2>1. o \in old /\ n \in new
    BY <1>3
  <2> HIDE DEF n
  <2>2. PICK status : c = Change(status, o, n) /\ SaysOf(status, o, n)
    <3>1. CASE o.interface # n.interface
      BY <3>1 DEF Matched, SaysOf, n
    <3>2. CASE o.interface = n.interface /\ o.fingerprint = n.fingerprint
      BY <3>2 DEF Matched, SaysOf, Alike, n
    <3>3. CASE o.interface = n.interface /\ o.fingerprint # n.fingerprint /\ ProvenRename(o, n)
      BY <3>3 DEF Matched, SaysOf, Alike, n
    <3>4. CASE o.interface = n.interface /\ o.fingerprint # n.fingerprint /\ ~ProvenRename(o, n)
      BY <3>4 DEF Matched, SaysOf, n
    <3> QED  BY <3>1, <3>2, <3>3, <3>4
  <2> HIDE DEF c
  <2>3. c.old = Brief(o) /\ c.new = Brief(n) /\ c.status = status
    BY <2>2 DEF Change
  <2>4. Justified(c, old, new)
    BY <2>1, <2>2, <2>3 DEF Justified
  <2> QED  BY <2>3, <2>4 DEF c, n
<1> DEFINE m(o) == Matched(o, partner(o))
<1>8. /\ C = {m(o) : o \in M}
      /\ \A o \in M : m(o).old = Brief(o) /\ m(o).new = Brief(partner(o)) /\ Justified(m(o), old, new)
  BY <1>7
<1> HIDE DEF C, m
<1>9. /\ \A o \in M : Brief(o) # None
      /\ \A o, p \in M : Brief(o) = Brief(p) => o = p
      /\ \A n, k \in K : Brief(n) = Brief(k) => n = k
  <2>1. M \subseteq old /\ K \subseteq new
    OBVIOUS
  <2> HIDE DEF M, K
  <2> QED  BY <2>1, BriefTells
<1> HIDE DEF M, K
<1>10. OldOnce(C, M)
  BY <1>8, <1>9 DEF OldOnce
<1>11. NewOnce(C, K)
  <2>1. \A c \in C : \E n \in K : c.new = Brief(n)
    BY <1>4, <1>8
  <2>2. \A n \in K : \E c \in C : c.new = Brief(n)
    BY <1>5, <1>8
  <2>3. \A c, d \in C : c.new = d.new => c = d
    BY <1>4, <1>6, <1>8, <1>9
  <2> QED  BY <2>1, <2>2, <2>3 DEF NewOnce
<1>12. \A c \in C : Justified(c, old, new) /\ c.old # None
  BY <1>8, <1>9
<1>13. run.left \subseteq old /\ run.unmatched \subseteq old \ run.left /\ run.unclaimed \subseteq new
  BY <1>1
<1>14. Running(run, old, new)
  BY <1>1, <1>2, <1>10, <1>11, <1>12, <1>13 DEF Running
<1> QED  BY <1>1, <1>14 DEF run

(* After as many rounds as it is given, the pairing has dealt with every   *)
(* site that was gone.                                                     *)
LEMMA PairedIs ==
  ASSUME NEW old, NEW new, Keyed(old), Keyed(new)
  PROVE  LET end == Paired(Start(old, new)) IN
         Running(end, old, new) /\ end.left = {} /\ end.unmatched = {}
<1> DEFINE start == Start(old, new)
           N == 2 * Cardinality(start.left)
           g == CHOOSE h : Runs(N, start, h)
<1>1. Running(start, old, new) /\ start.unmatched = {}
  BY StartKeeps
<1> HIDE DEF start
<1>2. Ahead(start) = N /\ N \in Nat
  <2>1. Ahead(start) \in Nat
    BY <1>1, PairKeeps
  <2>2. Cardinality(start.left) \in Nat
    <3>1. IsFiniteSet(start.left)
      BY <1>1, FS_Subset DEF Running, Keyed
    <3> QED  BY <3>1, FS_CardinalityType
  <2>3. Cardinality(start.unmatched) = 0
    BY <1>1, FS_EmptySet
  <2> QED  BY <2>2, <2>3 DEF Ahead
<1>3. Runs(N, start, g) /\ Paired(start) = g[N]
  <2>1. Runs(N, start, g)
    BY <1>2, RunsExist
  <2>2. Paired(start) = g[N]
    BY DEF Paired, Runs
  <2> QED  BY <2>1, <2>2
<1> HIDE DEF N, g
<1>4. g[0] = start /\ \A k \in 0 .. N - 1 : g[k + 1] = Pair(g[k])
  <2>1. \A k \in 0 .. N : g[k] = IF k = 0 THEN start ELSE Pair(g[k - 1])
    BY <1>3 DEF Runs
  <2>2. 0 \in 0 .. N /\ \A k \in 0 .. N - 1 : k + 1 \in 0 .. N /\ k + 1 # 0 /\ k + 1 - 1 = k
    BY <1>2
  <2> QED  BY <2>1, <2>2
<1> DEFINE S == {k \in Nat : /\ Running(g[k], old, new)
                             /\ Ahead(g[k]) = 0 \/ Ahead(g[k]) + k <= N}
<1>5. 0 \in S
  BY <1>1, <1>2, <1>4
<1>6. ASSUME NEW k \in 0 .. N - 1, k \in S  PROVE k + 1 \in S
  <2> DEFINE r == g[k]
             q == g[k + 1]
  <2>1. q = Pair(r) /\ Running(r, old, new) /\ (Ahead(r) = 0 \/ Ahead(r) + k <= N) /\ k \in Nat
    BY <1>4, <1>6
  <2> HIDE DEF r, q
  <2>2. /\ Running(q, old, new) /\ Ahead(r) \in Nat
        /\ Ahead(q) = 0 \/ Ahead(q) < Ahead(r)
    BY <2>1, PairKeeps
  <2>3. Ahead(q) \in Nat
    BY <2>2, PairKeeps
  <2>4. Ahead(q) = 0 \/ Ahead(q) + (k + 1) <= N
    <3> DEFINE a == Ahead(r)
               b == Ahead(q)
    <3>1. a \in Nat /\ b \in Nat /\ k \in Nat /\ N \in Nat
          /\ (a = 0 \/ a + k <= N) /\ (b = 0 \/ b < a)
      BY <1>2, <2>1, <2>2, <2>3
    <3> HIDE DEF a, b
    <3>2. b = 0 \/ b + (k + 1) <= N
      BY <3>1
    <3> QED  BY <3>2 DEF a, b
  <2> QED  BY <2>1, <2>2, <2>4 DEF q
<1> HIDE DEF S
<1>7. N \in S
  BY <1>2, <1>5, <1>6, CountUp
<1> DEFINE e == g[N]
<1>8. Running(e, old, new) /\ (Ahead(e) = 0 \/ Ahead(e) + N <= N)
  BY <1>7 DEF S
<1> HIDE DEF e
<1>9. Ahead(e) \in Nat /\ (Ahead(e) = 0 => e.left = {} /\ e.unmatched = {})
  BY <1>8, PairKeeps
<1>10. Ahead(e) = 0
  <2> DEFINE a == Ahead(e)
  <2>1. a \in Nat /\ N \in Nat /\ (a = 0 \/ a + N <= N)
    BY <1>2, <1>8, <1>9
  <2> HIDE DEF a
  <2>2. a = 0
    BY <2>1
  <2> QED  BY <2>2 DEF a
<1> QED  BY <1>3, <1>8, <1>9, <1>10 DEF e, start

(* Two versions of a surface: every site of either is in one change, and   *)
(* every change has its reason.                                            *)
LEMMA Classified ==
  ASSUME NEW old, NEW new, Keyed(old), Keyed(new)
  PROVE  LET C == ClassifyAppChanges(old, new) IN
         OldOnce(C, old) /\ NewOnce(C, new) /\ \A c \in C : Justified(c, old, new)
<1> DEFINE end == Paired(Start(old, new))
           A == {Added(n) : n \in end.unclaimed}
<1>1. Running(end, old, new) /\ end.left = {} /\ end.unmatched = {}
  BY PairedIs
<1>2. ClassifyAppChanges(old, new) = end.changes \cup A
  BY DEF ClassifyAppChanges
<1> HIDE DEF end
<1>3. /\ OldOnce(end.changes, old) /\ NewOnce(end.changes, new \ end.unclaimed)
      /\ end.unclaimed \subseteq new
      /\ \A c \in end.changes : Justified(c, old, new)
  <2>1. old \ (end.left \cup end.unmatched) = old
    BY <1>1
  <2> QED  BY <1>1, <2>1 DEF Running
<1>4. /\ \A n \in end.unclaimed : Added(n).old = None /\ Added(n).new = Brief(n)
      /\ \A n \in end.unclaimed : Justified(Added(n), old, new)
  BY <1>3 DEF Added, Justified
<1>5. /\ \A n \in new : Brief(n) # None
      /\ \A n, k \in new : Brief(n) = Brief(k) => n = k
  BY BriefTells
<1>6. \A c \in A : \E n \in end.unclaimed : c = Added(n)
  OBVIOUS
<1>7. \A n \in end.unclaimed : Added(n) \in A
  OBVIOUS
<1> DEFINE C == end.changes \cup A
<1> HIDE DEF A
<1>8. OldOnce(C, old)
  <2>1. \A c \in C : c.old # None => c \in end.changes
    BY <1>4, <1>6
  <2>2. ASSUME NEW c \in C, NEW d \in C, c.old # None, c.old = d.old  PROVE c = d
    <3>1. c \in end.changes /\ d \in end.changes
      BY <2>1, <2>2
    <3> QED  BY <1>3, <2>2, <3>1 DEF OldOnce
  <2> QED  BY <1>3, <2>1, <2>2 DEF OldOnce
<1>9. NewOnce(C, new)
  <2>1. ASSUME NEW c \in C, c.new # None  PROVE \E n \in new : c.new = Brief(n)
    BY <1>3, <1>4, <1>6, <2>1 DEF NewOnce
  <2>2. ASSUME NEW n \in new  PROVE \E c \in C : c.new = Brief(n)
    <3>1. CASE n \in end.unclaimed
      BY <1>4, <1>7, <3>1
    <3>2. CASE n \notin end.unclaimed
      BY <1>3, <3>2 DEF NewOnce
    <3> QED  BY <3>1, <3>2
  <2>3. ASSUME NEW c \in end.changes, NEW n \in end.unclaimed, c.new = Brief(n)  PROVE FALSE
    <3>1. c.new # None
      BY <1>3, <1>5, <2>3
    <3>2. PICK k \in new \ end.unclaimed : c.new = Brief(k)
      BY <1>3, <3>1 DEF NewOnce
    <3>3. k = n
      BY <1>3, <1>5, <2>3, <3>2
    <3> QED  BY <3>2, <3>3
  <2>4. ASSUME NEW c \in C, NEW d \in C, c.new # None, c.new = d.new  PROVE c = d
    <3>1. CASE c \in end.changes /\ d \in end.changes
      BY <1>3, <2>4, <3>1 DEF NewOnce
    <3>2. CASE c \in A /\ d \in A
      BY <1>3, <1>4, <1>5, <1>6, <2>4, <3>2
    <3>3. CASE c \in end.changes /\ d \in A
      BY <1>4, <1>6, <2>3, <2>4, <3>3
    <3>4. CASE c \in A /\ d \in end.changes
      BY <1>4, <1>6, <2>3, <2>4, <3>4
    <3> QED  BY <3>1, <3>2, <3>3, <3>4
  <2> QED  BY <2>1, <2>2, <2>4 DEF NewOnce
<1>10. \A c \in C : Justified(c, old, new)
  BY <1>3, <1>4, <1>6
<1> QED  BY <1>2, <1>8, <1>9, <1>10

-----------------------------------------------------------------------------
(* An application, and the sites that are listed for it: one for each      *)
(* function that emits, with the interface of its event.                   *)
Application(c) == DOMAIN c = Func /\ \A f \in Func : IsAppFunction(c[f]) /\ c[f].event \in Events

Lists(sites, c) ==
  /\ Keyed(sites)
  /\ \A s \in sites : s.id \in Emitting(c) /\ s.interface = c[s.id].event
  /\ \A f \in Emitting(c) : \E s \in sites : s.id = f

(* There are no more sites than functions.                                 *)
OneForEach(S) == (\A s \in S : s.id \in Func) /\ \A s, t \in S : s.id = t.id => s = t

LEMMA KeysFinite ==
  ASSUME NEW S, OneForEach(S)
  PROVE  IsFiniteSet(S)
<1> DEFINE f == [s \in S |-> s.id]
<1>1. f \in [S -> Func] /\ \A s, t \in S : f[s] = f[t] => s = t
  BY DEF OneForEach
<1> HIDE DEF f
<1>2. f \in Injection(S, Func)
  BY <1>1, Zenon DEF Injection, IsInjective
<1> QED  BY <1>2, AppAssumption, FS_Injection

(* The analysis lists them, with the rename fingerprints or without.       *)
LEMMA SitesAreListed ==
  ASSUME NEW c, Application(c), NEW v
  PROVE  Lists(Sites(c, v), c) /\ Lists(WithoutProof(Sites(c, v)), c)
<1> DEFINE site(f) == Site(c, v, f)
           bare(s) == [s EXCEPT !.rename = <<>>]
           E == Emitting(c)
<1>1. E \subseteq Func /\ IsFiniteSet(E) /\ \A f \in E : c[f].event \in Events
  <2>1. E \subseteq Func /\ \A f \in E : c[f].event \in Events
    BY DEF Emitting, Defined, Application
  <2>2. IsFiniteSet(Func)
    BY AppAssumption
  <2> HIDE DEF E
  <2> QED  BY <2>1, <2>2, FS_Subset
<1>2. \A f : site(f).id = f /\ site(f).interface = c[f].event
             /\ bare(site(f)).id = f /\ bare(site(f)).interface = c[f].event
  BY DEF Site
<1>3. /\ Sites(c, v) = {site(f) : f \in E}
      /\ WithoutProof(Sites(c, v)) = {bare(s) : s \in {site(f) : f \in E}}
  BY DEF Sites, WithoutProof, Emitting
<1> HIDE DEF site, bare, E
<1>4. IsFiniteSet({site(f) : f \in E})
  <2> DEFINE S == {site(f) : f \in E}
  <2>1. \A s \in S : s.id \in Func
    BY <1>1, <1>2
  <2>2. \A s, t \in S : s.id = t.id => s = t
    BY <1>2
  <2> HIDE DEF S
  <2>3. OneForEach(S)
    BY <2>1, <2>2 DEF OneForEach
  <2> QED  BY <2>3, KeysFinite DEF S
<1>5. IsFiniteSet({bare(s) : s \in {site(f) : f \in E}})
  <2> DEFINE S == {bare(s) : s \in {site(f) : f \in E}}
  <2>1. \A s \in S : s.id \in Func
    BY <1>1, <1>2
  <2>2. \A s, t \in S : s.id = t.id => s = t
    BY <1>2
  <2> HIDE DEF S
  <2>3. OneForEach(S)
    BY <2>1, <2>2 DEF OneForEach
  <2> QED  BY <2>3, KeysFinite DEF S
<1>6. Lists({site(f) : f \in E}, c)
  BY <1>1, <1>2, <1>4 DEF Lists, Keyed, E
<1>7. Lists({bare(s) : s \in {site(f) : f \in E}}, c)
  BY <1>1, <1>2, <1>5 DEF Lists, Keyed, E
<1> QED  BY <1>3, <1>6, <1>7

(* The diff on record is of the surface as it is and as it was saved.      *)
Diffed ==
  {[change |-> c, risk |-> PoliciesAtRisk(c)] : c \in ClassifyAppChanges(Committed, Sites(code, value))}

SurfaceInvariant ==
  /\ Application(code) /\ Application(base)
  /\ report # None => report = Diffed

(* What is saved first is an application.                                  *)
LEMMA SurfaceInit == GateInit => SurfaceInvariant
<1> SUFFICES ASSUME GateInit  PROVE SurfaceInvariant
  OBVIOUS
<1>1. code \in Initial /\ base = code /\ report = None
  BY DEF GateInit, Init
<1>2. DOMAIN code = Func /\ \A f \in Func : IsAppFunction(code[f])
  BY <1>1, AppAssumption
<1>3. \A f \in Func : code[f].event \in Events
  BY <1>1 DEF Events
<1> QED  BY <1>1, <1>2, <1>3 DEF SurfaceInvariant, Application

(* A rename moves the functions, their events with them.                   *)
LEMMA RenamedApplication ==
  ASSUME NEW c, Application(c), NEW f \in Func, NEW g \in Func
  PROVE  Application(Renamed(c, f, g))
<1> DEFINE N(name) == IF name = f THEN g ELSE name
           R(fn) == [fn EXCEPT !.calls = [i \in DOMAIN @ |-> N(@[i])],
                               !.reads = [i \in DOMAIN @ |-> N(@[i])]]
           d == Renamed(c, f, g)
<1>1. /\ \A h \in Func : IsAppFunction(c[h]) /\ c[h].event \in Events
      /\ f \in Nat /\ g \in Nat
  BY AppAssumption DEF Application
<1>2. ASSUME NEW fn, IsAppFunction(fn)  PROVE IsAppFunction(R(fn)) /\ R(fn).event = fn.event
  <2> DEFINE L(s) == [i \in DOMAIN s |-> N(s[i])]
  <2>1. ASSUME NEW s \in Seq(Nat)  PROVE L(s) \in Seq(Nat)
    <3>1. \A i \in 1 .. Len(s) : N(s[i]) \in Nat
      BY <1>1
    <3>2. L(s) = [i \in 1 .. Len(s) |-> N(s[i])] /\ Len(s) \in Nat
      OBVIOUS
    <3> HIDE DEF N
    <3> QED  BY <3>1, <3>2
  <2>2. R(fn) = [fn EXCEPT !.calls = L(@), !.reads = L(@)]
    OBVIOUS
  <2> HIDE DEF L, R
  <2> QED  BY <1>2, <2>1, <2>2 DEF IsAppFunction
<1>3. d = [h \in Func |-> IF h = g THEN R(c[f]) ELSE IF h = f THEN c[g] ELSE R(c[h])]
  BY DEF Application, Renamed
<1> HIDE DEF R, d
<1>4. DOMAIN d = Func
  BY <1>3
<1>5. ASSUME NEW h \in Func  PROVE IsAppFunction(d[h]) /\ d[h].event \in Events
  <2>1. d[h] = R(c[f]) \/ d[h] = c[g] \/ d[h] = R(c[h])
    BY <1>3
  <2> QED  BY <1>1, <1>2, <2>1
<1> QED  BY <1>4, <1>5 DEF Application, d

(* An edit leaves an application and no diff.                              *)
LEMMA SurfaceEdit ==
  ASSUME SurfaceInvariant,
         \/ \E f \in Func, def \in Def : Rewrite(f, def)
         \/ \E f, g \in Func : Rename(f, g)
         \/ \E c \in Constant, v \in Value : SetConstant(c, v)
  PROVE  SurfaceInvariant'
<1>1. Application(code) /\ Application(base)
  BY DEF SurfaceInvariant
<1>2. base' = base /\ report' = None
  BY DEF Rewrite, Rename, SetConstant, Count
<1>3. ASSUME NEW f \in Func, NEW def \in Def, Rewrite(f, def)  PROVE Application(code')
  <2>1. code' = [code EXCEPT ![f] = def]
    BY <1>3 DEF Rewrite
  <2>2. IsAppFunction(def) /\ def.event \in Events
    BY AppAssumption DEF Events
  <2>3. DOMAIN code' = Func /\ \A h \in Func : code'[h] = IF h = f THEN def ELSE code[h]
    BY <1>1, <2>1 DEF Application
  <2> QED  BY <1>1, <2>2, <2>3 DEF Application
<1>4. ASSUME NEW f \in Func, NEW g \in Func, Rename(f, g)  PROVE Application(code')
  BY <1>1, <1>4, RenamedApplication DEF Rename
<1>5. ASSUME NEW c \in Constant, NEW v \in Value, SetConstant(c, v)  PROVE Application(code')
  BY <1>1, <1>5 DEF SetConstant
<1>6. Application(code')
  BY <1>3, <1>4, <1>5
<1>7. Application(base')
  BY <1>1, <1>2
<1>8. SurfaceInvariant' <=> (Application(code') /\ Application(base') /\ (report' # None => report' = Diffed'))
  BY DEF SurfaceInvariant, Application, Events
<1> QED  BY <1>2, <1>6, <1>7, <1>8

(* Every step keeps it.                                                    *)
LEMMA SurfaceKept == SurfaceInvariant /\ [GateNext]_gvars => SurfaceInvariant'
<1> SUFFICES ASSUME SurfaceInvariant, [GateNext]_gvars  PROVE SurfaceInvariant'
  OBVIOUS
<1>1. Application(code) /\ Application(base)
  BY DEF SurfaceInvariant
<1>2. SurfaceInvariant' <=> (Application(code') /\ Application(base') /\ (report' # None => report' = Diffed'))
  BY DEF SurfaceInvariant, Application, Events
<1>3. ASSUME UNCHANGED vars  PROVE SurfaceInvariant'
  <2>1. code' = code /\ base' = base /\ report' = report
        /\ value' = value /\ baseValue' = baseValue /\ legacy' = legacy
    BY <1>3 DEF vars
  <2>2. Diffed' = Diffed
    BY <2>1 DEF Diffed, Committed
  <2> QED  BY <1>1, <1>2, <2>1, <2>2 DEF SurfaceInvariant
<1>4. CASE EditSteps
  <2>1. code' = code /\ base' = base /\ report' = None
    BY <1>4 DEF EditSteps
  <2> QED  BY <1>1, <1>2, <2>1
<1>5. CASE EditApp
  BY <1>5, SurfaceEdit DEF EditApp
<1>6. CASE EditBodies
  BY <1>3, <1>6 DEF EditBodies
<1>7. ASSUME NEW withApp \in BOOLEAN, GateDiff(withApp)  PROVE SurfaceInvariant'
  <2>1. CASE UNCHANGED vars
    BY <1>3, <2>1
  <2>2. CASE Diff
    <3>1. code' = code /\ base' = base /\ value' = value /\ baseValue' = baseValue
          /\ legacy' = legacy /\ report' = Diffed
      BY <2>2 DEF Diff, Diffed
    <3>2. Diffed' = Diffed
      BY <3>1 DEF Diffed, Committed
    <3> QED  BY <1>1, <1>2, <3>1, <3>2
  <2> QED  BY <1>7, <2>1, <2>2 DEF GateDiff
<1>8. ASSUME NEW withApp \in BOOLEAN, GateSave(withApp)  PROVE SurfaceInvariant'
  <2>1. code' = code /\ (base' = code \/ base' = base) /\ report' = None
    BY <1>8 DEF GateSave
  <2> QED  BY <1>1, <1>2, <2>1
<1>9. CASE UNCHANGED gvars
  BY <1>3, <1>9 DEF gvars
<1> QED  BY <1>4, <1>5, <1>6, <1>7, <1>8, <1>9 DEF GateNext

(* The invariant of the surface holds of every story.                      *)
LEMMA SurfaceHolds == GateSpec => []SurfaceInvariant
  BY SurfaceInit, SurfaceKept, PTL DEF GateSpec

(* The changes a diff reports, of the sites it compares.                   *)
LEMMA ChangesAre ==
  ASSUME SurfaceInvariant, report # None
  PROVE  LET new == Sites(code, value) IN
         /\ Lists(Committed, base) /\ Lists(new, code)
         /\ OldOnce(Changes, Committed) /\ NewOnce(Changes, new)
         /\ \A c \in Changes : Justified(c, Committed, new)
         /\ \A c \in Changes : [change |-> c, risk |-> PoliciesAtRisk(c)] \in report
<1> DEFINE new == Sites(code, value)
           C == ClassifyAppChanges(Committed, new)
           told(c) == [change |-> c, risk |-> PoliciesAtRisk(c)]
<1>1. Lists(Committed, base) /\ Lists(new, code)
  BY SitesAreListed DEF SurfaceInvariant, Committed
<1>2. report = {told(c) : c \in C}
  BY DEF SurfaceInvariant, Diffed
<1>3. \A c : told(c).change = c
  OBVIOUS
<1> HIDE DEF new, C, told
<1>4. Changes = C /\ \A c \in C : told(c) \in report
  BY <1>2, <1>3 DEF Changes
<1>5. OldOnce(C, Committed) /\ NewOnce(C, new) /\ \A c \in C : Justified(c, Committed, new)
  BY <1>1, Classified DEF Lists, C
<1> QED  BY <1>1, <1>4, <1>5 DEF new, told

-----------------------------------------------------------------------------
(* The changes of a function's site, before or now.                        *)
OldOf(f) == {c \in Changes : c.old # None /\ c.old.id = f}
NewOf(f) == {c \in Changes : c.new # None /\ c.new.id = f}

(* Each function that emits, or did, has one change.                       *)
LEMMA OneChangeEach ==
  ASSUME SurfaceInvariant, report # None
  PROVE  /\ \A f \in Emitting(base) : \E c : OldOf(f) = {c}
         /\ \A f \in Emitting(code) : \E c : NewOf(f) = {c}
<1> DEFINE new == Sites(code, value)
<1>1. /\ Lists(Committed, base) /\ Lists(new, code)
      /\ OldOnce(Changes, Committed) /\ NewOnce(Changes, new)
  BY ChangesAre
<1> HIDE DEF new
<1>2. ASSUME NEW f \in Emitting(base)  PROVE \E c : OldOf(f) = {c}
  <2>1. PICK s \in Committed : s.id = f
    BY <1>1 DEF Lists
  <2>2. PICK c \in Changes : c.old = Brief(s)
    BY <1>1 DEF OldOnce
  <2>3. c.old # None /\ c.old.id = f
    BY <1>1, <2>1, <2>2, BriefTells DEF Lists
  <2>4. ASSUME NEW d \in Changes, d.old # None, d.old.id = f  PROVE d = c
    <3>1. PICK t \in Committed : d.old = Brief(t)
      BY <1>1, <2>4 DEF OldOnce
    <3>2. t.id = f
      BY <1>1, <2>4, <3>1, BriefTells DEF Lists
    <3>3. t = s
      BY <1>1, <2>1, <3>2 DEF Lists, Keyed
    <3> QED  BY <1>1, <2>2, <2>4, <3>1, <3>3 DEF OldOnce
  <2> QED  BY <2>3, <2>4 DEF OldOf
<1>3. ASSUME NEW f \in Emitting(code)  PROVE \E c : NewOf(f) = {c}
  <2>1. PICK s \in new : s.id = f
    BY <1>1 DEF Lists
  <2>2. PICK c \in Changes : c.new = Brief(s)
    BY <1>1 DEF NewOnce
  <2>3. c.new # None /\ c.new.id = f
    BY <1>1, <2>1, <2>2, BriefTells DEF Lists
  <2>4. ASSUME NEW d \in Changes, d.new # None, d.new.id = f  PROVE d = c
    <3>1. PICK t \in new : d.new = Brief(t)
      BY <1>1, <2>4 DEF NewOnce
    <3>2. t.id = f
      BY <1>1, <2>4, <3>1, BriefTells DEF Lists
    <3>3. t = s
      BY <1>1, <2>1, <3>2 DEF Lists, Keyed
    <3> QED  BY <1>1, <2>2, <2>4, <3>1, <3>3 DEF NewOnce
  <2> QED  BY <2>3, <2>4 DEF NewOf
<1> QED  BY <1>2, <1>3

(* Pairing loses no site and uses none twice (classify_app_changes: the    *)
(* exact pass, the interface pass and what remains), whatever was renamed, *)
(* moved or rewritten between two saves.                                   *)
THEOREM SitesArePairedOnce == GateSpec => []EverySiteOnce
<1>1. SurfaceInvariant => EverySiteOnce
  <2> SUFFICES ASSUME SurfaceInvariant, report # None
               PROVE  /\ \A f \in Emitting(base) : Cardinality(OldOf(f)) = 1
                      /\ \A f \in Emitting(code) : Cardinality(NewOf(f)) = 1
    BY DEF EverySiteOnce, OldOf, NewOf
  <2>1. \A c : Cardinality({c}) = 1
    BY FS_Singleton
  <2> QED  BY <2>1, OneChangeEach
<1> QED  BY <1>1, SurfaceHolds, PTL

(* Where a site went that no break was reported of.                        *)
LEMMA KeptInterface ==
  ASSUME SurfaceInvariant, report # None, NEW f \in Emitting(base),
         NEW c \in Changes, OldOf(f) = {c}
  PROVE  /\ c.old # None /\ c.old.id = f /\ c.old.event = base[f].event
         /\ \/ c.status \in Gating
            \/ /\ c.new # None /\ c.new.id \in Emitting(code)
               /\ code[c.new.id].event = base[f].event
<1> DEFINE new == Sites(code, value)
<1>1. /\ Lists(Committed, base) /\ Lists(new, code)
      /\ \A d \in Changes : Justified(d, Committed, new)
  BY ChangesAre
<1> HIDE DEF new
<1>2. c.old # None /\ c.old.id = f
  BY DEF OldOf
<1>3. ASSUME NEW o \in Committed, c.old = Brief(o)  PROVE o.id = f /\ o.interface = base[f].event
                                                          /\ c.old.event = base[f].event
  <2>1. Brief(o).id = o.id /\ Brief(o).event = o.interface
    BY <1>1, BriefTells DEF Lists
  <2> QED  BY <1>1, <1>2, <1>3, <2>1 DEF Lists
<1>4. CASE \E o \in Committed, n \in new : c = Change(c.status, o, n) /\ SaysOf(c.status, o, n)
  <2>1. PICK o \in Committed, n \in new : c = Change(c.status, o, n) /\ SaysOf(c.status, o, n)
    BY <1>4
  <2>2. c.old = Brief(o) /\ c.new = Brief(n)
    BY <2>1 DEF Change
  <2>3. c.new # None /\ c.new.id = n.id /\ n.id \in Emitting(code) /\ n.interface = code[n.id].event
    BY <1>1, <2>2, BriefTells DEF Lists
  <2>4. c.status = "interface-break" \/ o.interface = n.interface
    BY <2>1 DEF SaysOf
  <2> QED  BY <1>2, <1>3, <2>2, <2>3, <2>4 DEF Gating
<1>5. CASE \E o \in Committed : c = Removed(o)
  <2>1. PICK o \in Committed : c = Removed(o)
    BY <1>5
  <2>2. c.status = "removed" /\ c.old = Brief(o)
    BY <2>1 DEF Removed
  <2> QED  BY <1>2, <1>3, <2>2 DEF Gating
<1>6. CASE \E n \in new : c = Added(n)
  BY <1>2, <1>6 DEF Added
<1> QED  BY <1>1, <1>4, <1>5, <1>6 DEF Justified

(* "Removed and interface-break fail the diff" (catalog diff --app): when  *)
(* it does not fail, every interface is constructed at as many sites as    *)
(* before, since no new site answers for two old ones.                     *)
THEOREM EmissionsAreKept == GateSpec => []NoBreakKeepsInterfaces
<1>1. SurfaceInvariant => NoBreakKeepsInterfaces
  <2> SUFFICES ASSUME SurfaceInvariant, report # None, \A c \in Changes : c.status \notin Gating,
                      NEW i
               PROVE  Cardinality({f \in Emitting(base) : base[f].event = i})
                        <= Cardinality({f \in Emitting(code) : code[f].event = i})
    BY DEF NoBreakKeepsInterfaces
  <2> DEFINE A == {f \in Emitting(base) : base[f].event = i}
             B == {f \in Emitting(code) : code[f].event = i}
             one(f) == CHOOSE c : OldOf(f) = {c}
             H == [f \in A |-> one(f).new.id]
  <2>1. ASSUME NEW f \in A
        PROVE  /\ one(f) \in Changes /\ one(f).old.id = f
               /\ one(f).new # None /\ one(f).new.id \in B
    <3>1. OldOf(f) = {one(f)}
      BY OneChangeEach
    <3>2. one(f) \in Changes
      BY <3>1 DEF OldOf
    <3> HIDE DEF one
    <3> QED  BY <3>1, <3>2, KeptInterface
  <2>2. ASSUME NEW f \in A, NEW g \in A, one(f).new.id = one(g).new.id  PROVE f = g
    <3> DEFINE c == one(f)
               d == one(g)
    <3>1. /\ c \in Changes /\ c.old.id = f /\ c.new # None /\ c.new.id \in B
          /\ d \in Changes /\ d.old.id = g /\ d.new # None /\ d.new.id = c.new.id
      BY <2>1, <2>2
    <3> HIDE DEF c, d
    <3>2. PICK e : NewOf(c.new.id) = {e}
      BY <3>1, OneChangeEach
    <3>3. c \in NewOf(c.new.id) /\ d \in NewOf(c.new.id)
      BY <3>1 DEF NewOf
    <3> QED  BY <3>1, <3>2, <3>3
  <2>3. IsFiniteSet(B)
    <3>1. B \subseteq Func /\ IsFiniteSet(Func)
      BY AppAssumption DEF SurfaceInvariant, Application, Emitting, Defined
    <3> HIDE DEF B
    <3> QED  BY <3>1, FS_Subset
  <2> HIDE DEF A, B, one
  <2>4. H \in [A -> B] /\ \A f, g \in A : H[f] = H[g] => f = g
    BY <2>1, <2>2
  <2> HIDE DEF H
  <2>5. H \in Injection(A, B)
    BY <2>4, Zenon DEF Injection, IsInjective
  <2>6. Cardinality(A) <= Cardinality(B)
    BY <2>3, <2>5, FS_Injection
  <2> QED  BY <2>6 DEF A, B
<1> QED  BY <1>1, SurfaceHolds, PTL

(* "An event type that changed value must alert the policies observing the *)
(* OLD type" (policies_at_risk looks at both sides of a change): a type    *)
(* that is constructed nowhere any more is reported to them, as a break.   *)
THEOREM LostTypesAlert == GateSpec => []LostTypeReachesObservers
<1>1. SurfaceInvariant => LostTypeReachesObservers
  <2> SUFFICES ASSUME SurfaceInvariant, report # None, NEW f \in Emitting(base), NEW p \in Policy,
                      base[f].event.type \in p.types,
                      \A g \in Emitting(code) : code[g].event.type # base[f].event.type
               PROVE  \E r \in report :
                        r.change.status \in Gating /\ (r.risk = None \/ p \in r.risk.direct)
    BY DEF LostTypeReachesObservers
  <2>1. PICK c : OldOf(f) = {c}
    BY OneChangeEach
  <2>2. c \in Changes
    BY <2>1 DEF OldOf
  <2>3. c.old # None /\ c.old.event = base[f].event /\ c.status \in Gating
    BY <2>1, <2>2, KeptInterface
  <2>4. p \in Direct(c)
    BY <2>3 DEF Direct, SidesOf
  <2>5. PoliciesAtRisk(c) = None \/ PoliciesAtRisk(c).direct = Direct(c)
    BY DEF PoliciesAtRisk
  <2>6. [change |-> c, risk |-> PoliciesAtRisk(c)] \in report
    BY <2>2, ChangesAre
  <2> QED  BY <2>3, <2>4, <2>5, <2>6
<1> QED  BY <1>1, SurfaceHolds, PTL

-----------------------------------------------------------------------------
(* What is around some functions: who comes to them by calls, and all that *)
(* these call.                                                             *)
LEMMA AroundIs ==
  ASSUME NEW c, Application(c), NEW seeds \in SUBSET Func
  PROVE  LET K == Closure(seeds, Callers(c)) IN
         /\ seeds \subseteq K /\ K \subseteq Around(c, seeds) /\ Around(c, seeds) \subseteq Func
         /\ ClosedIn(K, Callers(c)) /\ ClosedIn(Around(c, seeds), CallGraph(c))
<1> DEFINE P == Callers(c)
           G == CallGraph(c)
           K == Closure(seeds, P)
<1>1. DOMAIN c = Func /\ Defined(c) \subseteq Func /\ IsFiniteSet(Func)
  BY AppAssumption DEF Application, Defined
<1>2. P \in [Func -> SUBSET Func]
  BY <1>1 DEF Callers
<1>3. G \in [Func -> SUBSET Func]
  BY <1>1 DEF CallGraph
<1> HIDE DEF P, G
<1>4. seeds \subseteq K /\ K \subseteq Func /\ ClosedIn(K, P)
  BY <1>1, <1>2, ClosureIsReach
<1>5. K \in SUBSET Func
  BY <1>4
<1> HIDE DEF K
<1>6. /\ K \subseteq Closure(K, G) /\ Closure(K, G) \subseteq Func /\ ClosedIn(Closure(K, G), G)
  BY <1>1, <1>3, <1>5, ClosureIsReach
<1>7. Around(c, seeds) = Closure(K, G)
  BY DEF Around, K, P, G
<1> QED  BY <1>4, <1>6, <1>7 DEF K, P, G

(* With more seeds, more is around.                                        *)
LEMMA AroundGrows ==
  ASSUME NEW c, Application(c), NEW seeds \in SUBSET Func, NEW more \in SUBSET Func,
         seeds \subseteq more
  PROVE  Around(c, seeds) \subseteq Around(c, more)
<1> DEFINE P == Callers(c)
           G == CallGraph(c)
           K == Closure(seeds, P)
           L == Closure(more, P)
<1>1. DOMAIN c = Func /\ Defined(c) \subseteq Func /\ IsFiniteSet(Func)
  BY AppAssumption DEF Application, Defined
<1>2. P \in [Func -> SUBSET Func]
  BY <1>1 DEF Callers
<1>3. G \in [Func -> SUBSET Func]
  BY <1>1 DEF CallGraph
<1> HIDE DEF P, G
<1>4. /\ more \subseteq L /\ L \subseteq Func /\ ClosedIn(L, P) /\ K \subseteq Func
      /\ \A S \in SUBSET Func : seeds \subseteq S /\ ClosedIn(S, P) => K \subseteq S
  BY <1>1, <1>2, ClosureIsReach
<1>5. K \subseteq L /\ K \in SUBSET Func /\ L \in SUBSET Func
  BY <1>4
<1> HIDE DEF K, L
<1>6. /\ L \subseteq Closure(L, G) /\ Closure(L, G) \subseteq Func /\ ClosedIn(Closure(L, G), G)
      /\ \A S \in SUBSET Func : K \subseteq S /\ ClosedIn(S, G) => Closure(K, G) \subseteq S
  BY <1>1, <1>3, <1>5, ClosureIsReach
<1>7. Closure(K, G) \subseteq Closure(L, G)
  BY <1>5, <1>6
<1> QED  BY <1>7 DEF Around, K, L, P, G

(* The seeds of a slice up to the n-th round, and that there are any.      *)
Seeds(n, c, f, g) == g = [k \in 0 .. n |-> IF k = 0 THEN {f} ELSE MoreSeeds(c, g[k - 1])]

LEMMA SeedsExist ==
  ASSUME NEW c, NEW f, NEW N \in Nat
  PROVE  \E g : Seeds(N, c, f, g)
<1> DEFINE S == {k \in Nat : \E g : Seeds(k, c, f, g)}
<1>1. 0 \in S
  <2>1. Seeds(0, c, f, [k \in 0 .. 0 |-> {f}])
    BY DEF Seeds
  <2> QED  BY <2>1
<1>2. ASSUME NEW m \in 0 .. N - 1, m \in S  PROVE m + 1 \in S
  <2>1. m \in Nat /\ m + 1 \in Nat /\ m + 1 # 0
    OBVIOUS
  <2>2. PICK g : Seeds(m, c, f, g)
    BY <1>2
  <2>3. /\ DOMAIN g = 0 .. m
        /\ \A k \in 0 .. m : g[k] = IF k = 0 THEN {f} ELSE MoreSeeds(c, g[k - 1])
    BY <2>2 DEF Seeds
  <2> DEFINE h == [k \in 0 .. m + 1 |-> IF k = m + 1 THEN MoreSeeds(c, g[m]) ELSE g[k]]
  <2>4. /\ \A k \in 0 .. m : h[k] = g[k]
        /\ h[m + 1] = MoreSeeds(c, g[m])
        /\ h = [k \in 0 .. m + 1 |-> h[k]]
    BY <2>1
  <2> HIDE DEF h
  <2>5. ASSUME NEW k \in 0 .. m + 1  PROVE h[k] = IF k = 0 THEN {f} ELSE MoreSeeds(c, h[k - 1])
    <3>1. CASE k = m + 1
      <4>1. k - 1 = m /\ m \in 0 .. m /\ k # 0
        BY <2>1, <3>1
      <4>2. h[k - 1] = g[m]
        BY <2>4, <4>1
      <4> QED  BY <2>4, <3>1, <4>1, <4>2
    <3>2. CASE k # m + 1
      <4>1. k \in 0 .. m /\ (k # 0 => k - 1 \in 0 .. m)
        BY <2>1, <3>2
      <4> QED  BY <2>3, <2>4, <4>1
    <3> QED  BY <3>1, <3>2
  <2>6. Seeds(m + 1, c, f, h)
    BY <2>4, <2>5 DEF Seeds
  <2> QED  BY <2>1, <2>6
<1> HIDE DEF S
<1>3. N \in S
  BY <1>1, <1>2, CountUp
<1> QED  BY <1>3 DEF S

(* A slice holds what is around the emission, and who writes what that     *)
(* reads; and when one of the writers was not there, what is around them.  *)
LEMMA SliceIs ==
  ASSUME NEW c, Application(c), NEW f \in Func
  PROVE  LET A == Around(c, {f})
             W == Writers(c, A)
         IN /\ Slice(c, f) \subseteq Func /\ A \subseteq Slice(c, f) /\ W \subseteq Slice(c, f)
            /\ \A w \in W \ A : Around(c, {w}) \subseteq Slice(c, f)
<1> DEFINE N == Cardinality(Func)
           g == CHOOSE h : Seeds(N, c, f, h)
           A == Around(c, {f})
           W == Writers(c, A)
<1>1. N \in Nat /\ N # 0
  BY AppAssumption, FS_CardinalityType, FS_EmptySet
<1>2. Seeds(N, c, f, g) /\ Slice(c, f) = Around(c, g[N])
  <2>1. Seeds(N, c, f, g)
    BY <1>1, SeedsExist
  <2>2. Slice(c, f) = Around(c, g[N])
    BY DEF Slice, Seeds
  <2> QED  BY <2>1, <2>2
<1> HIDE DEF N, g
<1>3. g[0] = {f} /\ \A k \in 0 .. N - 1 : g[k + 1] = MoreSeeds(c, g[k])
  <2>1. \A k \in 0 .. N : g[k] = IF k = 0 THEN {f} ELSE MoreSeeds(c, g[k - 1])
    BY <1>2 DEF Seeds
  <2>2. 0 \in 0 .. N /\ \A k \in 0 .. N - 1 : k + 1 \in 0 .. N /\ k + 1 # 0 /\ k + 1 - 1 = k
    BY <1>1
  <2> QED  BY <2>1, <2>2
<1>4. \A M : Writers(c, M) \subseteq Func
  BY DEF Writers, Defined, Application
<1>5. \A seeds : /\ seeds \subseteq MoreSeeds(c, seeds)
                 /\ MoreSeeds(c, seeds) \subseteq seeds \cup Func
  BY <1>4 DEF MoreSeeds
<1> DEFINE S == {k \in Nat : /\ {f} \subseteq g[k] /\ g[k] \subseteq Func
                             /\ k = 0 \/ W \subseteq A \/ W \subseteq g[k]}
<1> HIDE DEF A, W
<1>6. 0 \in S
  BY <1>3
<1>7. ASSUME NEW k \in 0 .. N - 1, k \in S  PROVE k + 1 \in S
  <2>1. k \in Nat /\ k + 1 \in Nat /\ {f} \subseteq g[k] /\ g[k] \subseteq Func
        /\ (k = 0 \/ W \subseteq A \/ W \subseteq g[k])
    BY <1>7
  <2>2. g[k + 1] = MoreSeeds(c, g[k])
    BY <1>3
  <2>3. {f} \subseteq g[k + 1] /\ g[k + 1] \subseteq Func
    BY <1>5, <2>1, <2>2
  <2>4. k = 0 => W \subseteq A \/ W \subseteq g[k + 1]
    BY <1>3, <2>2 DEF MoreSeeds, W, A
  <2>5. W \subseteq A \/ W \subseteq g[k + 1]
    BY <1>5, <2>1, <2>2, <2>4
  <2> QED  BY <2>1, <2>3, <2>5
<1> HIDE DEF S
<1>8. N \in S
  BY <1>1, <1>6, <1>7, CountUp
<1>9. {f} \subseteq g[N] /\ g[N] \in SUBSET Func /\ (W \subseteq A \/ W \subseteq g[N])
  BY <1>1, <1>8 DEF S
<1>10. A \subseteq Around(c, g[N])
  BY <1>9, AroundGrows DEF A
<1>11. g[N] \subseteq Around(c, g[N]) /\ Around(c, g[N]) \subseteq Func
  BY <1>9, AroundIs
<1>12. ASSUME NEW w \in W \ A  PROVE Around(c, {w}) \subseteq Around(c, g[N])
  <2>1. {w} \in SUBSET Func /\ {w} \subseteq g[N]
    BY <1>9, <1>12
  <2> QED  BY <1>9, <2>1, AroundGrows
<1>13. W \subseteq Around(c, g[N])
  BY <1>9, <1>10, <1>11
<1> QED  BY <1>2, <1>10, <1>11, <1>12, <1>13 DEF A, W

(* The runs that come to a function are those of the functions around it:  *)
(* its callers' callers, and all they call.                                *)
LEMMA RunsAreAround ==
  ASSUME NEW c, Application(c), NEW f \in Defined(c)
  PROVE  RunsTo(c, f) = Around(c, {f})
<1> DEFINE P == Callers(c)
           G == CallGraph(c)
           A == Around(c, {f})
           K == Closure({f}, P)
           D == Defined(c)
           Closed(S, e) == e \in S /\ \A h \in S : Called(c[h]) \cap D \subseteq S
           from == {e \in D : f \in Reach(c, e)}
<1>1. DOMAIN c = Func /\ D \subseteq Func /\ f \in Func /\ {f} \in SUBSET Func /\ IsFiniteSet(Func)
  BY AppAssumption DEF Application, Defined
<1>2. P \in [Func -> SUBSET Func] /\ G \in [Func -> SUBSET Func]
  BY <1>1 DEF Callers, CallGraph
<1>3. /\ \A h \in Func : \A k \in Called(c[h]) \cap D : h \in D => h \in P[k]
      /\ \A k \in Func : \A h \in P[k] : h \in D /\ k \in Called(c[h])
      /\ \A h \in Func : G[h] = Called(c[h]) \cap D
  BY <1>1 DEF Callers, CallGraph
<1>4. \A e : Reach(c, e) = {g \in Func : \A S \in SUBSET Func : Closed(S, e) => g \in S}
  BY DEF Reach
<1>5. A = Closure(K, G)
  BY DEF Around
<1>6. RunsTo(c, f) = UNION {Reach(c, e) : e \in from}
  BY DEF RunsTo
<1> HIDE DEF P, G, A
<1>7. /\ f \in K /\ K \in SUBSET Func /\ ClosedIn(K, P)
      /\ \A S \in SUBSET Func : {f} \subseteq S /\ ClosedIn(S, P) => K \subseteq S
  BY <1>1, <1>2, ClosureIsReach
<1> HIDE DEF K
<1>8. /\ K \subseteq A /\ A \subseteq Func /\ ClosedIn(A, G)
      /\ \A S \in SUBSET Func : K \subseteq S /\ ClosedIn(S, G) => A \subseteq S
  BY <1>1, <1>2, <1>5, <1>7, ClosureIsReach
<1> DEFINE T == UNION {Reach(c, e) : e \in from}
<1>9. ASSUME NEW e \in from  PROVE e \in K
  <2> SUFFICES ASSUME e \notin K  PROVE FALSE
    OBVIOUS
  <2>1. ASSUME NEW h \in D \ K, NEW k \in Called(c[h]) \cap D  PROVE k \notin K
    <3>1. h \in P[k]
      BY <1>1, <1>3, <2>1
    <3> QED  BY <1>7, <2>1, <3>1 DEF ClosedIn
  <2>2. Closed(D \ K, e) /\ D \ K \in SUBSET Func
    BY <1>1, <1>9, <2>1
  <2> HIDE DEF Closed
  <2>3. f \in D \ K
    BY <1>4, <1>9, <2>2
  <2> QED  BY <1>7, <2>3
<1>10. ASSUME NEW e \in K  PROVE Reach(c, e) \subseteq A
  <2>1. Closed(A, e) /\ A \in SUBSET Func
    BY <1>3, <1>8, <1>10 DEF ClosedIn
  <2> HIDE DEF Closed
  <2> QED  BY <1>4, <2>1
<1>11. T \subseteq A
  BY <1>9, <1>10
<1>12. from \in SUBSET Func /\ f \in from /\ ClosedIn(from, P)
  <2>1. f \in from
    <3> HIDE DEF Closed
    <3>1. \A S : Closed(S, f) => f \in S
      BY DEF Closed
    <3> QED  BY <1>1, <1>4, <3>1
  <2>2. ASSUME NEW k \in from, NEW h \in P[k]  PROVE h \in from
    <3>1. k \in D /\ k \in Func /\ h \in D /\ k \in Called(c[h]) /\ f \in Reach(c, k)
      BY <1>1, <1>3, <2>2
    <3>2. \A S : Closed(S, h) => Closed(S, k)
      BY <3>1
    <3> HIDE DEF Closed
    <3>3. f \in Reach(c, h)
      BY <1>1, <1>4, <3>1, <3>2
    <3> QED  BY <3>1, <3>3
  <2> HIDE DEF from
  <2>3. from \in SUBSET Func
    BY <1>1 DEF from
  <2> QED  BY <2>1, <2>2, <2>3 DEF ClosedIn
<1>13. K \subseteq from
  BY <1>7, <1>12
<1>14. T \in SUBSET Func /\ K \subseteq T
  <2> HIDE DEF Closed
  <2>1. \A e \in K : e \in Reach(c, e)
    <3>1. \A e, S : Closed(S, e) => e \in S
      BY DEF Closed
    <3> QED  BY <1>4, <1>7, <3>1
  <2> QED  BY <1>4, <1>13, <2>1
<1>15. ASSUME NEW h \in T, NEW k \in G[h]  PROVE k \in T
  <2>1. PICK e \in from : h \in Reach(c, e)
    BY <1>15
  <2>2. h \in Func /\ k \in Called(c[h]) \cap D /\ k \in Func
    BY <1>1, <1>3, <1>4, <1>15, <2>1
  <2>3. \A S : Closed(S, e) /\ h \in S => k \in S
    BY <2>2
  <2> HIDE DEF Closed
  <2>4. k \in Reach(c, e)
    BY <1>4, <2>1, <2>2, <2>3
  <2> QED  BY <2>1, <2>4
<1> HIDE DEF T
<1>16. ClosedIn(T, G)
  BY <1>15 DEF ClosedIn
<1>17. A \subseteq T
  BY <1>8, <1>14, <1>16
<1> QED  BY <1>6, <1>11, <1>17 DEF A, T

(* Whoever takes part in an emission is in its slice.                      *)
LEMMA SliceHoldsParticipants ==
  ASSUME NEW c, Application(c), NEW f \in Defined(c)
  PROVE  Participants(c, f) \subseteq Slice(c, f)
<1> DEFINE A == Around(c, {f})
           W == Writers(c, A)
<1>1. f \in Func /\ W \subseteq Defined(c)
  BY DEF Application, Defined, Writers
<1>2. RunsTo(c, f) = A /\ \A w \in W : RunsTo(c, w) = Around(c, {w})
  BY <1>1, RunsAreAround
<1>3. Participants(c, f) = A \cup UNION {RunsTo(c, w) : w \in W \ A}
  BY <1>2 DEF Participants
<1>4. A \subseteq Slice(c, f) /\ \A w \in W \ A : Around(c, {w}) \subseteq Slice(c, f)
  BY <1>1, SliceIs
<1> HIDE DEF A, W
<1> QED  BY <1>2, <1>3, <1>4

-----------------------------------------------------------------------------
(* A refinement of the hashes of some functions, the rounds of it up to    *)
(* the n-th, and that there are any.                                       *)
Refined(k, c, members, before) ==
  [m \in members |->
     IF k = 0 THEN <<>>
     ELSE Hash(c[m], [i \in DOMAIN c[m].calls |->
            LET callee == c[m].calls[i] IN
            IF callee \in members THEN <<"slice", before[callee]>> ELSE <<"name", callee>>])]

Refinings(n, c, members, g) == g = [k \in 0 .. n |-> Refined(k, c, members, g[k - 1])]

LEMMA RefiningsExist ==
  ASSUME NEW c, NEW members, NEW N \in Nat
  PROVE  \E g : Refinings(N, c, members, g)
<1> DEFINE S == {k \in Nat : \E g : Refinings(k, c, members, g)}
<1>1. \A p, q : Refined(0, c, members, p) = Refined(0, c, members, q)
  BY DEF Refined
<1>2. 0 \in S
  <2> DEFINE g == [k \in 0 .. 0 |-> Refined(0, c, members, <<>>)]
  <2>1. g = [k \in 0 .. 0 |-> Refined(k, c, members, g[k - 1])]
    BY <1>1
  <2> HIDE DEF g
  <2>2. Refinings(0, c, members, g)
    BY <2>1 DEF Refinings
  <2> QED  BY <2>2
<1>3. ASSUME NEW m \in 0 .. N - 1, m \in S  PROVE m + 1 \in S
  <2>1. m \in Nat /\ m + 1 \in Nat
    OBVIOUS
  <2>2. PICK g : Refinings(m, c, members, g)
    BY <1>3
  <2>3. DOMAIN g = 0 .. m /\ \A k \in 0 .. m : g[k] = Refined(k, c, members, g[k - 1])
    BY <2>2 DEF Refinings
  <2> DEFINE h == [k \in 0 .. m + 1 |-> IF k = m + 1 THEN Refined(m + 1, c, members, g[m]) ELSE g[k]]
  <2>4. /\ \A k \in 0 .. m : h[k] = g[k]
        /\ h[m + 1] = Refined(m + 1, c, members, g[m])
        /\ h = [k \in 0 .. m + 1 |-> h[k]]
    BY <2>1
  <2> HIDE DEF h
  <2>5. ASSUME NEW k \in 0 .. m + 1  PROVE h[k] = Refined(k, c, members, h[k - 1])
    <3>1. CASE k = m + 1
      <4>1. k - 1 = m /\ m \in 0 .. m
        BY <2>1, <3>1
      <4>2. h[k - 1] = g[m]
        BY <2>4, <4>1
      <4> QED  BY <2>4, <3>1, <4>2
    <3>2. CASE k = 0
      <4>1. k \in 0 .. m
        BY <2>1, <3>2
      <4>2. h[k] = Refined(0, c, members, g[k - 1])
        BY <2>3, <2>4, <3>2, <4>1
      <4> QED  BY <1>1, <3>2, <4>2
    <3>3. CASE k # m + 1 /\ k # 0
      <4>1. k \in 0 .. m /\ k - 1 \in 0 .. m
        BY <2>1, <3>3
      <4> QED  BY <2>3, <2>4, <4>1
    <3> QED  BY <3>1, <3>2, <3>3
  <2>6. Refinings(m + 1, c, members, h)
    BY <2>4, <2>5 DEF Refinings
  <2> QED  BY <2>1, <2>6
<1> HIDE DEF S
<1>4. N \in S
  BY <1>2, <1>3, CountUp
<1> QED  BY <1>4 DEF S

(* The rename fingerprint holds a hash of each member, which keeps its     *)
(* text.                                                                   *)
LEMMA RenameHoldsTexts ==
  ASSUME NEW c, NEW members, IsFiniteSet(members), members # {}
  PROVE  {h[1] : h \in DOMAIN InvariantHashes(c, members)} = {c[m].text : m \in members}
<1> DEFINE N == Cardinality(members)
           g == CHOOSE h : Refinings(N, c, members, h)
           inv == g[N]
<1>1. N \in Nat /\ N # 0
  BY FS_CardinalityType, FS_EmptySet
<1>2. Refinings(N, c, members, g)
  BY <1>1, RefiningsExist
<1>3. InvariantHashes(c, members)
        = [h \in {inv[m] : m \in members} |-> Cardinality({m \in members : inv[m] = h})]
  BY DEF InvariantHashes, Refinings, Refined
<1> HIDE DEF N, g
<1>4. inv = Refined(N, c, members, g[N - 1])
  <2>1. N \in 0 .. N
    BY <1>1
  <2> QED  BY <1>2, <2>1 DEF Refinings
<1>5. \A fn, calls : Hash(fn, calls)[1] = fn.text
  BY DEF Hash
<1>6. \A m \in members : inv[m][1] = c[m].text
  BY <1>1, <1>4, <1>5 DEF Refined
<1> HIDE DEF inv
<1>7. DOMAIN InvariantHashes(c, members) = {inv[m] : m \in members}
  BY <1>3
<1> QED  BY <1>6, <1>7

(* A site is that of its function, and keeps all but the proof.            *)
LEMMA SiteIs ==
  ASSUME NEW c, NEW v, NEW s \in Sites(c, v)
  PROVE  /\ s = Site(c, v, s.id)
         /\ LET bare == [s EXCEPT !.rename = <<>>] IN
            bare.id = s.id /\ bare.fingerprint = s.fingerprint /\ bare.rename = <<>>
<1>1. PICK f : s = Site(c, v, f)
  BY DEF Sites
<1>2. s.id = f /\ DOMAIN s = {"id", "interface", "fingerprint", "rename"}
  BY <1>1 DEF Site
<1> QED  BY <1>1, <1>2

(* The texts of a slice.                                                   *)
SliceTexts(c, f) == {c[m].text : m \in Slice(c, f)}

(* Sites that are alike have slices of the same texts.                     *)
LEMMA AlikeTexts ==
  ASSUME NEW c, Application(c), NEW d, Application(d), NEW v, NEW w,
         NEW f \in Func, NEW g \in Func, Alike(Site(c, v, f), Site(d, w, g))
  PROVE  SliceTexts(c, f) = SliceTexts(d, g)
<1> DEFINE M == Slice(c, f)
           K == Slice(d, g)
<1>1. IsFiniteSet(M) /\ M # {} /\ IsFiniteSet(K) /\ K # {}
  <2>1. /\ M \subseteq Func /\ Around(c, {f}) \subseteq M /\ f \in Around(c, {f})
        /\ K \subseteq Func /\ Around(d, {g}) \subseteq K /\ g \in Around(d, {g})
    BY SliceIs, AroundIs
  <2> HIDE DEF M, K
  <2> QED  BY <2>1, AppAssumption, FS_Subset
<1>2. /\ Site(c, v, f).fingerprint[1] = {OwnHash(c[m]) : m \in M}
      /\ Site(d, w, g).fingerprint[1] = {OwnHash(d[m]) : m \in K}
      /\ Site(c, v, f).rename[1] = InvariantHashes(c, M)
      /\ Site(d, w, g).rename[1] = InvariantHashes(d, K)
  BY DEF Site
<1> HIDE DEF M, K
<1>3. CASE {OwnHash(c[m]) : m \in M} = {OwnHash(d[m]) : m \in K}
  <2>1. \A fn : OwnHash(fn)[1] = fn.text
    BY DEF OwnHash, Hash
  <2>2. ASSUME NEW m \in M  PROVE \E k \in K : c[m].text = d[k].text
    <3>1. PICK k \in K : OwnHash(c[m]) = OwnHash(d[k])
      BY <1>3
    <3> QED  BY <2>1, <3>1
  <2>3. ASSUME NEW k \in K  PROVE \E m \in M : d[k].text = c[m].text
    <3>1. PICK m \in M : OwnHash(c[m]) = OwnHash(d[k])
      BY <1>3
    <3> QED  BY <2>1, <3>1
  <2> QED  BY <2>2, <2>3 DEF SliceTexts, M, K
<1>4. CASE InvariantHashes(c, M) = InvariantHashes(d, K)
  <2>1. {c[m].text : m \in M} = {d[m].text : m \in K}
    BY <1>1, <1>4, RenameHoldsTexts
  <2> QED  BY <2>1 DEF SliceTexts, M, K
<1> QED  BY <1>2, <1>3, <1>4 DEF Alike, ProvenRename

(* While a site is reported unchanged or renamed, no text the application  *)
(* did not have takes part in a run that comes to it, or in one that       *)
(* stores what such a run loads, and none that did is gone (slice_of).     *)
THEOREM NewTextsReachTheReport == GateSpec => []NewTextIsReported
<1>1. SurfaceInvariant => NewTextIsReported
  <2> SUFFICES ASSUME SurfaceInvariant, report # None, NEW c \in Changes,
                      c.old # None, c.new # None, c.status \notin Reported
               PROVE  /\ Texts(code, Participants(code, c.new.id)) \subseteq Texts(base, Func)
                      /\ Texts(base, Participants(base, c.old.id)) \subseteq Texts(code, Func)
    BY DEF NewTextIsReported
  <2> DEFINE new == Sites(code, value)
  <2>1. /\ Lists(Committed, base) /\ Lists(new, code)
        /\ Justified(c, Committed, new)
    BY ChangesAre
  <2>2. PICK o \in Committed, n \in new : c = Change(c.status, o, n) /\ SaysOf(c.status, o, n)
    BY <2>1 DEF Justified, Removed, Added
  <2>3. /\ Alike(o, n) /\ c.old.id = o.id /\ c.new.id = n.id
        /\ o.id \in Emitting(base) /\ n.id \in Emitting(code)
    <3>1. Alike(o, n)
      BY <2>2 DEF SaysOf, Reported, Gating
    <3>2. c.old = Brief(o) /\ c.new = Brief(n)
      BY <2>2 DEF Change
    <3> QED  BY <2>1, <3>1, <3>2 DEF Lists, Brief
  <2>4. n = Site(code, value, n.id)
    BY SiteIs
  <2>5. Alike(Site(base, baseValue, o.id), n)
    <3>1. CASE ~legacy
      <4>1. o = Site(base, baseValue, o.id)
        BY <3>1, SiteIs DEF Committed
      <4> QED  BY <2>3, <4>1
    <3>2. CASE legacy
      <4>1. PICK s \in Sites(base, baseValue) : o = [s EXCEPT !.rename = <<>>]
        BY <3>2 DEF Committed, WithoutProof
      <4>2. s = Site(base, baseValue, s.id) /\ o.id = s.id /\ o.fingerprint = s.fingerprint
            /\ o.rename = <<>>
        BY <4>1, SiteIs
      <4> QED  BY <2>3, <4>2 DEF Alike, ProvenRename
    <3> QED  BY <3>1, <3>2
  <2>6. /\ Application(base) /\ Application(code)
        /\ o.id \in Defined(base) /\ n.id \in Defined(code) /\ o.id \in Func /\ n.id \in Func
    BY <2>3 DEF SurfaceInvariant, Emitting, Defined, Application
  <2>7. SliceTexts(base, o.id) = SliceTexts(code, n.id)
    BY <2>4, <2>5, <2>6, AlikeTexts
  <2>8. /\ Participants(code, n.id) \subseteq Slice(code, n.id) /\ Slice(code, n.id) \subseteq Func
        /\ Participants(base, o.id) \subseteq Slice(base, o.id) /\ Slice(base, o.id) \subseteq Func
    BY <2>6, SliceHoldsParticipants, SliceIs
  <2>9. /\ Texts(code, Participants(code, n.id)) \subseteq SliceTexts(code, n.id)
        /\ Texts(base, Participants(base, o.id)) \subseteq SliceTexts(base, o.id)
        /\ SliceTexts(code, n.id) \subseteq Texts(code, Func)
        /\ SliceTexts(base, o.id) \subseteq Texts(base, Func)
    BY <2>8 DEF Texts, SliceTexts
  <2> QED  BY <2>3, <2>7, <2>9
<1> QED  BY <1>1, SurfaceHolds, PTL

-----------------------------------------------------------------------------
(* Two sites the exact pass may pair; and two that only the second can,    *)
(* and must: their fingerprints are found nowhere on the other side.       *)
Exact(o, n) == o.interface = n.interface /\ o.fingerprint = n.fingerprint
Proven(o, n, old, new) ==
  /\ o.interface = n.interface /\ ProvenRename(o, n)
  /\ \A k \in new : k.fingerprint # o.fingerprint
  /\ \A k \in old : k.fingerprint # n.fingerprint

(* t pairs the sites of S with those of T, one with one.                   *)
Pairs(t, S, T) ==
  /\ t \in [S -> T]
  /\ \A x, y \in S : t[x] = t[y] => x = y
  /\ \A n \in T : \E x \in S : t[x] = n

(* A pairing under way that can be completed, and has absorbed every site  *)
(* so far.                                                                 *)
Completes(t, run, old, new) ==
  /\ Pairs(t, run.left \cup run.unmatched, run.unclaimed)
  /\ \A o \in run.left : Exact(o, t[o]) \/ Proven(o, t[o], old, new)
  /\ \A o \in run.unmatched : Proven(o, t[o], old, new)
Absorbing(run, old, new) ==
  /\ \A c \in run.changes : c.status \in {"unchanged", "renamed"}
  /\ \E t : Completes(t, run, old, new)

(* When o takes the site that was meant for another, that other one takes  *)
(* the site that was meant for o.                                          *)
LEMMA Exchange ==
  ASSUME NEW S, NEW T, NEW t, Pairs(t, S, T), NEW o \in S, NEW n \in T
  PROVE  \E u : /\ Pairs(u, S \ {o}, T \ {n})
                /\ \A x \in S \ {o} : u[x] = t[x] \/ (t[x] = n /\ u[x] = t[o])
<1> DEFINE u == [x \in S \ {o} |-> IF t[x] = n THEN t[o] ELSE t[x]]
<1>1. /\ \A x \in S : t[x] \in T
      /\ \A x, y \in S : t[x] = t[y] => x = y
      /\ \A k \in T : \E x \in S : t[x] = k
  BY DEF Pairs
<1>2. \A x \in S \ {o} : u[x] = IF t[x] = n THEN t[o] ELSE t[x]
  OBVIOUS
<1>3. \A x \in S \ {o} : u[x] \in T \ {n}
  BY <1>1, <1>2
<1>4. u \in [S \ {o} -> T \ {n}]
  BY <1>3
<1> HIDE DEF u
<1>5. \A x, y \in S \ {o} : u[x] = u[y] => x = y
  BY <1>1, <1>2
<1>6. ASSUME NEW k \in T \ {n}  PROVE \E x \in S \ {o} : u[x] = k
  <2>1. PICK x \in S : t[x] = k
    BY <1>1
  <2>2. CASE x # o
    BY <1>2, <2>1, <2>2
  <2>3. CASE x = o
    <3>1. PICK y \in S : t[y] = n
      BY <1>1
    <3>2. y # o
      BY <2>1, <2>3, <3>1
    <3> QED  BY <1>2, <2>1, <2>3, <3>1, <3>2
  <2> QED  BY <2>2, <2>3
<1>7. Pairs(u, S \ {o}, T \ {n})
  BY <1>4, <1>5, <1>6 DEF Pairs
<1> QED  BY <1>2, <1>7

(* A round takes no site from the others that they cannot do without.      *)
LEMMA PairAbsorbs ==
  ASSUME NEW old, NEW new, Keyed(old), Keyed(new), NEW run, Running(run, old, new),
         Absorbing(run, old, new)
  PROVE  Absorbing(Pair(run), old, new)
<1> DEFINE D == run.left \cup run.unmatched
<1>1. /\ DOMAIN run = {"left", "unmatched", "unclaimed", "changes"}
      /\ run.left \subseteq old /\ run.unmatched \subseteq old \ run.left /\ run.unclaimed \subseteq new
  BY DEF Running
<1>2. PICK t : Completes(t, run, old, new)
  BY DEF Absorbing
<1>3. /\ Pairs(t, D, run.unclaimed)
      /\ \A o \in run.left : Exact(o, t[o]) \/ Proven(o, t[o], old, new)
      /\ \A o \in run.unmatched : Proven(o, t[o], old, new)
  BY <1>2 DEF Completes
<1>4. \A c \in run.changes : c.status \in {"unchanged", "renamed"}
  BY DEF Absorbing
<1>5. \A o \in D : t[o] \in run.unclaimed /\ t[o] \in new
  BY <1>1, <1>3 DEF Pairs
<1>6. ASSUME NEW o \in D, NEW good, NEW n, n = First(good), n \in run.unclaimed,
             \A x \in D \ {o} : t[x] = n =>
               /\ x \in run.left => Exact(x, t[o]) \/ Proven(x, t[o], old, new)
               /\ x \in run.unmatched => Proven(x, t[o], old, new)
      PROVE  Absorbing(Claim(run, o, good, "renamed"), old, new)
  <2> DEFINE r == Claim(run, o, good, "renamed")
  <2>1. /\ r.left = run.left \ {o} /\ r.unmatched = run.unmatched \ {o}
        /\ r.unclaimed = run.unclaimed \ {n}
        /\ r.changes = run.changes \cup {Change("renamed", o, n)}
    BY <1>1, <1>6 DEF Claim, Without
  <2>2. PICK u : /\ Pairs(u, D \ {o}, run.unclaimed \ {n})
                 /\ \A x \in D \ {o} : u[x] = t[x] \/ (t[x] = n /\ u[x] = t[o])
    BY <1>3, <1>6, Exchange
  <2>3. r.left \cup r.unmatched = D \ {o}
    BY <2>1
  <2> HIDE DEF r
  <2>4. ASSUME NEW x \in r.left  PROVE Exact(x, u[x]) \/ Proven(x, u[x], old, new)
    <3>1. x \in run.left /\ x \in D \ {o}
      BY <2>1
    <3> QED  BY <1>3, <1>6, <2>2, <3>1
  <2>5. ASSUME NEW x \in r.unmatched  PROVE Proven(x, u[x], old, new)
    <3>1. x \in run.unmatched /\ x \in D \ {o}
      BY <2>1
    <3> QED  BY <1>3, <1>6, <2>2, <3>1
  <2>6. Completes(u, r, old, new)
    BY <2>1, <2>2, <2>3, <2>4, <2>5 DEF Completes
  <2>7. \A c \in r.changes : c.status \in {"unchanged", "renamed"}
    BY <1>4, <2>1 DEF Change
  <2> QED  BY <2>6, <2>7 DEF Absorbing, r
<1>7. CASE run.left # {}
  <2> DEFINE o == First(run.left)
             good == {n \in run.unclaimed : n.interface = o.interface /\ n.fingerprint = o.fingerprint}
  <2>1. o \in run.left /\ o \in old /\ o \notin run.unmatched /\ o \in D
    BY <1>1, <1>7, FirstIs
  <2>2. Pair(run) = ExactPass(run, o)
    BY <1>7 DEF Pair
  <2> HIDE DEF o
  <2>3. CASE good = {}
    <3> DEFINE r == [run EXCEPT !.left = @ \ {o}, !.unmatched = @ \cup {o}]
    <3>1. Pair(run) = r
      BY <2>2, <2>3 DEF ExactPass
    <3>2. /\ r.left = run.left \ {o} /\ r.unmatched = run.unmatched \cup {o}
          /\ r.unclaimed = run.unclaimed /\ r.changes = run.changes
      BY <1>1
    <3> HIDE DEF r
    <3>3. r.left \cup r.unmatched = D
      BY <2>1, <3>2
    <3>4. Proven(o, t[o], old, new)
      <4>1. ~Exact(o, t[o])
        BY <1>5, <2>1, <2>3 DEF Exact
      <4> QED  BY <1>3, <2>1, <4>1
    <3>5. Completes(t, r, old, new)
      BY <1>3, <3>2, <3>3, <3>4 DEF Completes
    <3> QED  BY <1>4, <3>1, <3>2, <3>5 DEF Absorbing
  <2>4. CASE good # {}
    <3> DEFINE n == First(good)
    <3>1. Pair(run) = Claim(run, o, good, "renamed")
      BY <2>2, <2>4 DEF ExactPass
    <3>2. n \in good
      <4>1. good \subseteq new
        BY <1>1
      <4> HIDE DEF good
      <4> QED  BY <2>4, <4>1, FirstIs
    <3> HIDE DEF n
    <3>3. n \in run.unclaimed /\ n \in new /\ Exact(o, n)
      BY <1>1, <3>2 DEF Exact
    <3>4. Exact(o, t[o])
      BY <1>3, <2>1, <3>3 DEF Exact, Proven
    <3>5. ASSUME NEW x \in D \ {o}, t[x] = n
          PROVE  Exact(x, t[o]) /\ x \notin run.unmatched
      <4>1. Exact(x, n) /\ x \notin run.unmatched
        BY <1>3, <2>1, <3>3, <3>5 DEF Exact, Proven
      <4> QED  BY <3>3, <3>4, <4>1 DEF Exact
    <3> HIDE DEF good
    <3>6. Absorbing(Claim(run, o, good, "renamed"), old, new)
      BY <1>6, <2>1, <3>3, <3>5 DEF n
    <3> QED  BY <3>1, <3>6
  <2> QED  BY <2>3, <2>4
<1>8. CASE run.left = {} /\ run.unmatched # {}
  <2> DEFINE o == First(run.unmatched)
             same == {n \in run.unclaimed : n.interface = o.interface}
             proven == {n \in same : ProvenRename(o, n)}
             n == First(proven)
  <2>1. o \in run.unmatched /\ o \in old /\ o \in D
    BY <1>1, <1>8, FirstIs
  <2>2. Pair(run) = InterfacePass(run, o)
    BY <1>8 DEF Pair
  <2> HIDE DEF o
  <2>3. Proven(o, t[o], old, new)
    BY <1>3, <2>1
  <2>4. t[o] \in proven
    BY <1>5, <2>1, <2>3 DEF Proven
  <2>5. Pair(run) = Claim(run, o, proven, "renamed")
    BY <2>2, <2>4 DEF InterfacePass
  <2>6. n \in proven
    <3>1. proven \subseteq new
      BY <1>1
    <3> HIDE DEF proven
    <3> QED  BY <2>4, <3>1, FirstIs
  <2> HIDE DEF n
  <2>7. n \in run.unclaimed /\ o.interface = n.interface /\ ProvenRename(o, n)
    BY <2>6
  <2>8. ASSUME NEW x \in D \ {o}, t[x] = n
        PROVE  x \notin run.left /\ Proven(x, t[o], old, new)
    <3>1. Proven(x, n, old, new) /\ x \notin run.left
      BY <1>3, <1>8, <2>8
    <3> QED  BY <2>3, <2>7, <3>1 DEF Proven, ProvenRename
  <2> HIDE DEF proven
  <2>9. Absorbing(Claim(run, o, proven, "renamed"), old, new)
    BY <1>6, <2>1, <2>7, <2>8 DEF n
  <2> QED  BY <2>5, <2>9
<1>9. CASE run.left = {} /\ run.unmatched = {}
  BY <1>9 DEF Pair
<1> QED  BY <1>7, <1>8, <1>9

(* s says what became of each site: it kept its id, or has one that was    *)
(* free; and nothing but its names changed.                                *)
Renames(s, old, new) ==
  /\ Pairs(s, old, new)
  /\ \A o \in old :
       /\ s[o].id = o.id \/ (o.id \notin Ids(new) /\ s[o].id \notin Ids(old))
       /\ o.interface = s[o].interface /\ ProvenRename(o, s[o])
       /\ Exact(o, s[o]) \/ Proven(o, s[o], old, new)

(* Then the pairing starts well.                                           *)
LEMMA StartAbsorbs ==
  ASSUME NEW old, NEW new, Keyed(old), Keyed(new), NEW s, Renames(s, old, new)
  PROVE  Absorbing(Start(old, new), old, new)
<1> DEFINE run == Start(old, new)
           t == [o \in run.left |-> s[o]]
           partner(o) == CHOOSE n \in new : n.id = o.id
<1>1. /\ run.left = {o \in old : o.id \notin Ids(new)} /\ run.unmatched = {}
      /\ run.unclaimed = {n \in new : n.id \notin Ids(old)}
      /\ run.changes = {Matched(o, partner(o)) : o \in {x \in old : x.id \in Ids(new)}}
  BY DEF Start
<1>2. /\ \A o \in old : s[o] \in new
      /\ \A x, y \in old : s[x] = s[y] => x = y
      /\ \A n \in new : \E o \in old : s[o] = n
  BY DEF Renames, Pairs
<1>3. \A o \in old :
        /\ s[o].id = o.id \/ (o.id \notin Ids(new) /\ s[o].id \notin Ids(old))
        /\ o.interface = s[o].interface /\ ProvenRename(o, s[o])
        /\ Exact(o, s[o]) \/ Proven(o, s[o], old, new)
  BY DEF Renames
<1> HIDE DEF run
<1>4. \A o \in old : o.id \in Ids(old) /\ s[o].id \in Ids(new)
  BY <1>2 DEF Ids
<1>5. \A o \in old : o \in run.left <=> s[o] \in run.unclaimed
  BY <1>1, <1>2, <1>3, <1>4
<1>6. run.left \subseteq old /\ run.unclaimed \subseteq new
  BY <1>1
<1>7. Pairs(t, run.left, run.unclaimed)
  <2>1. t \in [run.left -> run.unclaimed] /\ \A o \in run.left : t[o] = s[o]
    BY <1>5, <1>6
  <2> HIDE DEF t
  <2>2. \A n \in run.unclaimed : \E o \in run.left : t[o] = n
    BY <1>2, <1>5, <1>6, <2>1
  <2> QED  BY <1>2, <1>6, <2>1, <2>2 DEF Pairs
<1>8. Completes(t, run, old, new)
  <2>1. \A o \in run.left : t[o] = s[o]
    OBVIOUS
  <2> HIDE DEF t
  <2>2. run.left \cup run.unmatched = run.left
    BY <1>1
  <2> QED  BY <1>1, <1>3, <1>6, <1>7, <2>1, <2>2 DEF Completes
<1>9. ASSUME NEW o \in old, o.id \in Ids(new)
      PROVE  Matched(o, partner(o)).status \in {"unchanged", "renamed"}
  <2>1. partner(o) \in new /\ partner(o).id = o.id
    BY <1>9 DEF Ids
  <2> HIDE DEF partner
  <2>2. s[o] \in new /\ s[o].id = o.id
    BY <1>2, <1>3, <1>9
  <2>3. partner(o) = s[o]
    BY <2>1, <2>2 DEF Keyed
  <2>4. o.interface = s[o].interface /\ ProvenRename(o, s[o])
    BY <1>3
  <2> DEFINE n == s[o]
  <2> HIDE DEF n
  <2>5. Matched(o, n).status \in {"unchanged", "renamed"}
    BY <2>4 DEF Matched, Change, n
  <2> QED  BY <2>3, <2>5 DEF n
<1>10. \A c \in run.changes : c.status \in {"unchanged", "renamed"}
  BY <1>1, <1>9
<1> QED  BY <1>8, <1>10 DEF Absorbing, run

(* And it ends as it started.                                              *)
LEMMA PairedAbsorbs ==
  ASSUME NEW old, NEW new, Keyed(old), Keyed(new), NEW s, Renames(s, old, new)
  PROVE  Absorbing(Paired(Start(old, new)), old, new)
<1> DEFINE start == Start(old, new)
           N == 2 * Cardinality(start.left)
           g == CHOOSE h : Runs(N, start, h)
<1>1. Running(start, old, new) /\ Absorbing(start, old, new)
  BY StartKeeps, StartAbsorbs
<1> HIDE DEF start
<1>2. N \in Nat
  <2>1. IsFiniteSet(start.left)
    BY <1>1, FS_Subset DEF Running, Keyed
  <2> QED  BY <2>1, FS_CardinalityType
<1>3. Runs(N, start, g) /\ Paired(start) = g[N]
  <2>1. Runs(N, start, g)
    BY <1>2, RunsExist
  <2>2. Paired(start) = g[N]
    BY DEF Paired, Runs
  <2> QED  BY <2>1, <2>2
<1> HIDE DEF N, g
<1>4. g[0] = start /\ \A k \in 0 .. N - 1 : g[k + 1] = Pair(g[k])
  <2>1. \A k \in 0 .. N : g[k] = IF k = 0 THEN start ELSE Pair(g[k - 1])
    BY <1>3 DEF Runs
  <2>2. 0 \in 0 .. N /\ \A k \in 0 .. N - 1 : k + 1 \in 0 .. N /\ k + 1 # 0 /\ k + 1 - 1 = k
    BY <1>2
  <2> QED  BY <2>1, <2>2
<1> DEFINE S == {k \in Nat : Running(g[k], old, new) /\ Absorbing(g[k], old, new)}
<1>5. 0 \in S
  BY <1>1, <1>4
<1>6. ASSUME NEW k \in 0 .. N - 1, k \in S  PROVE k + 1 \in S
  <2> DEFINE r == g[k]
  <2>1. k + 1 \in Nat /\ g[k + 1] = Pair(r) /\ Running(r, old, new) /\ Absorbing(r, old, new)
    BY <1>4, <1>6
  <2> HIDE DEF r
  <2>2. Running(Pair(r), old, new)
    BY <2>1, PairKeeps
  <2>3. Absorbing(Pair(r), old, new)
    BY <2>1, PairAbsorbs
  <2> QED  BY <2>1, <2>2, <2>3
<1> HIDE DEF S
<1>7. N \in S
  BY <1>2, <1>5, <1>6, CountUp
<1> QED  BY <1>3, <1>7 DEF S, start

(* Sites that were only renamed are reported unchanged or renamed.         *)
LEMMA RenamesAreAbsorbed ==
  ASSUME NEW old, NEW new, Keyed(old), Keyed(new), NEW s, Renames(s, old, new)
  PROVE  \A c \in ClassifyAppChanges(old, new) : c.status \in {"unchanged", "renamed"}
<1> DEFINE end == Paired(Start(old, new))
<1>1. Absorbing(end, old, new)
  BY PairedAbsorbs
<1>2. end.left = {} /\ end.unmatched = {}
  BY PairedIs
<1> HIDE DEF end
<1>3. PICK t : Completes(t, end, old, new)
  BY <1>1 DEF Absorbing
<1>4. end.unclaimed = {}
  <2>1. \A n \in end.unclaimed : \E x \in end.left \cup end.unmatched : t[x] = n
    BY <1>3 DEF Completes, Pairs
  <2> QED  BY <1>2, <2>1
<1>5. ClassifyAppChanges(old, new) = end.changes
  BY <1>4 DEF ClassifyAppChanges, end
<1> QED  BY <1>1, <1>5 DEF Absorbing

-----------------------------------------------------------------------------
(* Where a name is after some renames, which move the names of functions   *)
(* among themselves; and what is done to a list of names, or to a function. *)
At(p, name) == IF name \in Func THEN p[name] ELSE name
MovedNames(p, s) == [i \in DOMAIN s |-> At(p, s[i])]
MovedTo(p, fn, gn) ==
  /\ gn.text = fn.text /\ gn.gets = fn.gets /\ gn.sets = fn.sets /\ gn.event = fn.event
  /\ gn.calls = MovedNames(p, fn.calls) /\ gn.reads = MovedNames(p, fn.reads)

(* The names an application uses.                                          *)
Used(c) == UNION {Called(c[h]) \cup ReadBy(c[h]) : h \in Defined(c)}

(* d is c after renames to names c does not have, and does not use.        *)
Follows(c, d, p) ==
  /\ Pairs(p, Func, Func)
  /\ \A f \in Func : p[f] \in Defined(d) <=> f \in Defined(c)
  /\ \A f \in Defined(c) : MovedTo(p, c[f], d[p[f]])
  /\ \A f \in Defined(c) : p[f] = f \/ p[f] \notin Defined(c)
  /\ \A name \in Used(c) : name \notin Defined(c) => At(p, name) = name

(* Every name is somewhere else than any other.                            *)
LEMMA AtTells ==
  ASSUME NEW p, Pairs(p, Func, Func)
  PROVE  /\ \A x : At(p, x) \in Func <=> x \in Func
         /\ \A x, y : At(p, x) = At(p, y) => x = y
  BY DEF Pairs, At

(* The lists of a function.                                                *)
LEMMA NamesAre ==
  ASSUME NEW fn, IsAppFunction(fn)
  PROVE  /\ \E n \in Nat : fn.calls \in [1 .. n -> Nat]
         /\ \E n \in Nat : fn.reads \in [1 .. n -> Nat]
<1>1. ASSUME NEW s \in Seq(Nat)  PROVE \E n \in Nat : s \in [1 .. n -> Nat]
  <2>1. Len(s) \in Nat /\ s \in [1 .. Len(s) -> Nat]
    OBVIOUS
  <2> QED  BY <2>1
<1> QED  BY <1>1 DEF IsAppFunction

(* A function that is moved calls and reads the same under their new names. *)
LEMMA MovedNamesAre ==
  ASSUME NEW p, NEW fn, NEW gn, MovedTo(p, fn, gn)
  PROVE  /\ Called(gn) = {At(p, name) : name \in Called(fn)}
         /\ ReadBy(gn) = {At(p, name) : name \in ReadBy(fn)}
<1> DEFINE InList(s) == {s[i] : i \in DOMAIN s}
<1>1. \A s : InList(MovedNames(p, s)) = {At(p, name) : name \in InList(s)}
  BY DEF MovedNames
<1>2. gn.calls = MovedNames(p, fn.calls) /\ gn.reads = MovedNames(p, fn.reads)
  BY DEF MovedTo
<1>3. \A h : Called(h) = InList(h.calls) /\ ReadBy(h) = InList(h.reads)
  BY DEF Called, ReadBy
<1> HIDE DEF InList
<1> QED  BY <1>1, <1>2, <1>3

(* What has not been renamed is where it was.                              *)
LEMMA NothingMoved ==
  ASSUME NEW c, Application(c)
  PROVE  Follows(c, c, [f \in Func |-> f])
<1> DEFINE p == [f \in Func |-> f]
<1>1. Pairs(p, Func, Func) /\ \A f \in Func : p[f] = f
  BY DEF Pairs
<1>2. \A name : At(p, name) = name
  BY DEF At
<1> HIDE DEF p
<1>3. ASSUME NEW fn, IsAppFunction(fn)  PROVE MovedTo(p, fn, fn)
  <2>1. \A n : \A s \in [1 .. n -> Nat] : MovedNames(p, s) = s
    BY <1>2 DEF MovedNames
  <2> QED  BY <1>3, <2>1, NamesAre DEF MovedTo
<1>4. Defined(c) \subseteq Func /\ \A f \in Func : IsAppFunction(c[f])
  BY DEF Application, Defined
<1> QED  BY <1>1, <1>2, <1>3, <1>4 DEF Follows, p

(* A rename of f to g, of a name that nothing uses.                        *)
AppRenaming(c, f, g) ==
  /\ f \in Defined(c) /\ g \in Func \ Defined(c)
  /\ \A h \in Defined(c) : g \notin Called(c[h]) \cup ReadBy(c[h])

(* An application after it: each function, rewritten, under its new name.  *)
LEMMA AppRenamedIs ==
  ASSUME NEW c, Application(c), NEW f, NEW g, AppRenaming(c, f, g), NEW d, d = Renamed(c, f, g)
  PROVE  /\ \A h \in Func \ {g} : d[Swap(f, g, h)] = Rewritten(f, g, c[h])
         /\ d[f] = c[g]
<1>1. f \in Func /\ g \in Func /\ f # g /\ DOMAIN c = Func /\ \A h \in Func : IsAppFunction(c[h])
  BY DEF Application, AppRenaming, Defined
<1>2. ASSUME NEW fn, IsAppFunction(fn)
      PROVE  [fn EXCEPT !.calls = [i \in DOMAIN @ |-> IF @[i] = f THEN g ELSE @[i]],
                        !.reads = [i \in DOMAIN @ |-> IF @[i] = f THEN g ELSE @[i]]]
               = Rewritten(f, g, fn)
  BY DEF Rewritten, Listed, New
<1>3. \A h \in Func : d[h] = IF h = g THEN Rewritten(f, g, c[f])
                             ELSE IF h = f THEN c[g] ELSE Rewritten(f, g, c[h])
  BY <1>1, <1>2 DEF Renamed
<1>4. ASSUME NEW h \in Func \ {g}
      PROVE  d[Swap(f, g, h)] = Rewritten(f, g, c[h])
  <2>1. CASE h = f
    BY <1>1, <1>3, <2>1 DEF Swap
  <2>2. CASE h # f
    BY <1>3, <2>2 DEF Swap
  <2> QED  BY <2>1, <2>2
<1> QED  BY <1>1, <1>3, <1>4

(* One more rename, and the application is still what was saved but for    *)
(* names.                                                                  *)
LEMMA RenameFollows ==
  ASSUME NEW a, Application(a), NEW c, Application(c), NEW p, Follows(a, c, p),
         NEW f, NEW g, AppRenaming(c, f, g), g \notin Defined(a), NEW d, d = Renamed(c, f, g)
  PROVE  Follows(a, d, [h \in Func |-> Swap(f, g, p[h])])
<1> DEFINE q == [h \in Func |-> Swap(f, g, p[h])]
           A == Defined(a)
           C == Defined(c)
           D == Defined(d)
<1>1. /\ A \subseteq Func /\ C \subseteq Func /\ f \in C /\ g \in Func /\ g \notin C /\ f # g /\ f \in Func
      /\ \A h \in C : g \notin Called(c[h]) \cup ReadBy(c[h])
  BY DEF Application, Defined, AppRenaming
<1>2. /\ p \in [Func -> Func] /\ (\A x, y \in Func : p[x] = p[y] => x = y)
      /\ (\A n \in Func : \E x \in Func : p[x] = n)
      /\ \A h \in Func : p[h] \in C <=> h \in A
      /\ \A h \in A : MovedTo(p, a[h], c[p[h]])
      /\ \A h \in A : p[h] = h \/ p[h] \notin A
      /\ \A name \in Used(a) : name \notin A => At(p, name) = name
  BY DEF Follows, Pairs
<1>3. /\ d[f] = c[g] /\ \A h \in Func \ {g} : d[Swap(f, g, h)] = Rewritten(f, g, c[h])
  BY AppRenamedIs
<1>4. /\ \A h \in Func : c[h].text = "none" <=> h \notin C
      /\ \A h \in Func : d[h].text = "none" <=> h \notin D
      /\ D \subseteq Func /\ \A h \in Func : IsAppFunction(a[h]) /\ IsAppFunction(c[h])
  <2>1. DOMAIN c = Func /\ DOMAIN d = Func
    BY DEF Application, Renamed
  <2> QED  BY <2>1 DEF Defined, Application
<1> HIDE DEF A, C, D
<1>5. \A h \in Func : /\ Swap(f, g, h) \in Func /\ Swap(f, g, Swap(f, g, h)) = h
                      /\ Swap(f, g, h) = f <=> h = g
  BY <1>1 DEF Swap
<1>6. \A h \in Func : q[h] = Swap(f, g, p[h])
  OBVIOUS
<1>7. q \in [Func -> Func]
  BY <1>2, <1>5
<1> HIDE DEF q
<1>8. Pairs(q, Func, Func)
  <2>1. \A x, y \in Func : q[x] = q[y] => x = y
    BY <1>2, <1>5, <1>6
  <2>2. ASSUME NEW n \in Func  PROVE \E x \in Func : q[x] = n
    <3>1. PICK x \in Func : p[x] = Swap(f, g, n)
      BY <1>2, <1>5
    <3> QED  BY <1>5, <1>6, <3>1
  <2> QED  BY <1>7, <2>1, <2>2 DEF Pairs
<1>9. \A fn : IsAppFunction(fn) =>
        LET gn == Rewritten(f, g, fn) IN
        /\ gn.text = fn.text /\ gn.gets = fn.gets /\ gn.sets = fn.sets /\ gn.event = fn.event
        /\ gn.calls = Listed(f, g, fn.calls) /\ gn.reads = Listed(f, g, fn.reads)
  BY DEF Rewritten, IsAppFunction
<1>10. \A x \in Func : Swap(f, g, x) \in D <=> x \in C
  <2> TAKE x \in Func
  <2>1. CASE x = g
    BY <1>1, <1>3, <1>4, <2>1 DEF Swap
  <2>2. CASE x # g
    <3>1. d[Swap(f, g, x)].text = c[x].text
      BY <1>3, <1>4, <1>9, <2>2
    <3> QED  BY <1>4, <1>5, <3>1
  <2> QED  BY <2>1, <2>2
<1>11. \A h \in Func : q[h] \in D <=> h \in A
  BY <1>2, <1>6, <1>10
<1>12. \A name : name # g => New(f, g, name) = Swap(f, g, name)
  BY DEF New, Swap
<1>13. \A name : Swap(f, g, At(p, name)) = At(q, name)
  <2> TAKE name
  <2>1. CASE name \in Func
    BY <1>6, <2>1 DEF At
  <2>2. CASE name \notin Func
    BY <1>1, <2>2 DEF At, Swap
  <2> QED  BY <2>1, <2>2
<1>14. ASSUME NEW h \in A  PROVE MovedTo(q, a[h], d[q[h]])
  <2>1. h \in Func /\ p[h] \in C /\ p[h] \in Func \ {g}
    BY <1>1, <1>2
  <2>2. d[q[h]] = Rewritten(f, g, c[p[h]])
    BY <1>3, <1>6, <2>1
  <2> DEFINE b == c[p[h]]
             e == d[q[h]]
  <2>3. MovedTo(p, a[h], b) /\ IsAppFunction(a[h]) /\ IsAppFunction(b) /\ e = Rewritten(f, g, b)
        /\ g \notin Called(b) \cup ReadBy(b)
    BY <1>1, <1>2, <1>4, <2>1, <2>2
  <2> HIDE DEF b, e
  <2>4. /\ e.text = b.text /\ e.gets = b.gets /\ e.sets = b.sets /\ e.event = b.event
        /\ e.calls = Listed(f, g, b.calls) /\ e.reads = Listed(f, g, b.reads)
    BY <1>9, <2>3
  <2>5. ASSUME NEW s, NEW t, t = MovedNames(p, s), \A i \in DOMAIN t : t[i] # g
        PROVE  Listed(f, g, t) = MovedNames(q, s)
    <3>1. DOMAIN t = DOMAIN s /\ \A i \in DOMAIN s : t[i] = At(p, s[i])
      BY <2>5 DEF MovedNames
    <3>2. \A i \in DOMAIN s : New(f, g, t[i]) = At(q, s[i])
      BY <1>12, <1>13, <2>5, <3>1
    <3> QED  BY <3>1, <3>2 DEF Listed, MovedNames
  <2>6. (\A i \in DOMAIN b.calls : b.calls[i] # g) /\ (\A i \in DOMAIN b.reads : b.reads[i] # g)
    BY <2>3 DEF Called, ReadBy
  <2>7. b.calls = MovedNames(p, a[h].calls) /\ b.reads = MovedNames(p, a[h].reads)
    BY <2>3 DEF MovedTo
  <2>8. e.calls = MovedNames(q, a[h].calls) /\ e.reads = MovedNames(q, a[h].reads)
    BY <2>4, <2>5, <2>6, <2>7
  <2> QED  BY <2>3, <2>4, <2>8 DEF MovedTo, e
<1>15. ASSUME NEW h \in A  PROVE q[h] = h \/ q[h] \notin A
  <2>1. p[h] # g /\ h \in Func
    BY <1>1, <1>2
  <2>2. q[h] = g \/ q[h] = p[h]
    BY <1>6, <2>1 DEF Swap
  <2>3. g \notin A
    BY DEF A
  <2> QED  BY <1>2, <2>2, <2>3
<1>16. ASSUME NEW name \in Used(a), name \notin A  PROVE At(q, name) = name
  <2>1. At(p, name) = name
    BY <1>2, <1>16
  <2>2. PICK h \in A : name \in Called(a[h]) \cup ReadBy(a[h])
    BY DEF Used, A
  <2>3. p[h] \in C /\ MovedTo(p, a[h], c[p[h]])
    BY <1>1, <1>2, <1>4
  <2>4. name \in Called(c[p[h]]) \cup ReadBy(c[p[h]])
    BY <2>1, <2>2, <2>3, MovedNamesAre
  <2>5. name # g
    BY <1>1, <2>3, <2>4
  <2>6. name # f
    <3>1. ASSUME name = f  PROVE FALSE
      <4>1. p[name] = name /\ name \in Func /\ name \in C
        BY <1>1, <2>1, <3>1 DEF At
      <4> QED  BY <1>2, <1>16, <4>1
    <3> QED  BY <3>1
  <2>7. Swap(f, g, name) = name
    BY <2>5, <2>6 DEF Swap
  <2> QED  BY <1>13, <2>1, <2>7
<1> QED  BY <1>8, <1>11, <1>14, <1>15, <1>16 DEF Follows, A, D, q

-----------------------------------------------------------------------------
(* Where some functions are.                                               *)
Image(p, S) == {p[f] : f \in S}

(* What is reached from functions of D, in a graph that was moved with     *)
(* them.                                                                   *)
LEMMA ClosureMoves ==
  ASSUME NEW p, Pairs(p, Func, Func), NEW D \in SUBSET Func,
         NEW P \in [Func -> SUBSET Func], NEW Q \in [Func -> SUBSET Func],
         \A f \in D : P[f] \subseteq D /\ Q[p[f]] = Image(p, P[f]),
         NEW seeds \in SUBSET D
  PROVE  /\ Closure(seeds, P) \subseteq D
         /\ Closure(Image(p, seeds), Q) = Image(p, Closure(seeds, P))
<1> DEFINE K == Closure(seeds, P)
           there == Image(p, seeds)
           L == Closure(there, Q)
           back == {f \in D : p[f] \in L}
<1>1. /\ \A f \in Func : p[f] \in Func
      /\ \A f, g \in Func : p[f] = p[g] => f = g
  BY DEF Pairs
<1>2. seeds \in SUBSET Func /\ there \in SUBSET Func /\ IsFiniteSet(Func)
  BY <1>1, AppAssumption DEF Image
<1>3. /\ seeds \subseteq K /\ ClosedIn(K, P)
      /\ \A S \in SUBSET Func : seeds \subseteq S /\ ClosedIn(S, P) => K \subseteq S
  BY <1>2, ClosureIsReach
<1> HIDE DEF there
<1>4. /\ there \subseteq L /\ ClosedIn(L, Q)
      /\ \A S \in SUBSET Func : there \subseteq S /\ ClosedIn(S, Q) => L \subseteq S
  BY <1>2, ClosureIsReach
<1> HIDE DEF K, L
<1>5. K \subseteq back
  <2>1. \A f \in seeds : p[f] \in L
    BY <1>4 DEF there, Image
  <2>2. seeds \subseteq back /\ back \in SUBSET Func
    BY <2>1
  <2>3. ASSUME NEW f \in back, NEW g \in P[f]  PROVE g \in back
    <3>1. f \in D /\ p[f] \in L /\ g \in D
      BY <2>3
    <3>2. p[g] \in Q[p[f]]
      BY <2>3, <3>1 DEF Image
    <3>3. p[g] \in L
      BY <1>4, <3>1, <3>2 DEF ClosedIn
    <3> QED  BY <3>1, <3>3
  <2> HIDE DEF back
  <2>4. ClosedIn(back, P)
    BY <2>3 DEF ClosedIn
  <2> QED  BY <1>3, <2>2, <2>4
<1>6. K \subseteq D
  BY <1>5
<1>7. L \subseteq Image(p, K)
  <2>1. there \subseteq Image(p, K)
    BY <1>3 DEF there, Image
  <2>2. Image(p, K) \in SUBSET Func
    BY <1>1, <1>6 DEF Image
  <2>3. ClosedIn(Image(p, K), Q)
    <3> SUFFICES ASSUME NEW f \in K  PROVE Q[p[f]] \subseteq Image(p, K)
      BY DEF ClosedIn, Image
    <3>1. P[f] \subseteq K /\ Q[p[f]] = Image(p, P[f])
      BY <1>3, <1>6 DEF ClosedIn
    <3> QED  BY <3>1 DEF Image
  <2> QED  BY <1>4, <2>1, <2>2, <2>3
<1>8. Image(p, K) \subseteq L
  BY <1>5 DEF Image
<1> QED  BY <1>6, <1>7, <1>8 DEF K, L, there

(* The calls between functions are moved along.                            *)
LEMMA CallsMove ==
  ASSUME NEW c, Application(c), NEW d, Application(d), NEW p, Follows(c, d, p), NEW f \in Defined(c)
  PROVE  /\ CallGraph(d)[p[f]] = Image(p, CallGraph(c)[f])
         /\ Callers(d)[p[f]] = Image(p, Callers(c)[f])
<1> DEFINE C == Defined(c)
           D == Defined(d)
<1>1. /\ C \subseteq Func /\ D \subseteq Func /\ DOMAIN c = Func /\ DOMAIN d = Func
  BY DEF Application, Defined
<1>2. /\ \A h \in Func : p[h] \in Func
      /\ \A n \in Func : \E h \in Func : p[h] = n
      /\ \A h \in Func : p[h] \in D <=> h \in C
      /\ \A h \in C : Called(d[p[h]]) = {At(p, name) : name \in Called(c[h])}
  <2>1. \A h \in C : MovedTo(p, c[h], d[p[h]])
    BY DEF Follows
  <2> QED  BY <2>1, MovedNamesAre DEF Follows, Pairs
<1>3. /\ \A x : At(p, x) \in Func <=> x \in Func
      /\ \A x, y : At(p, x) = At(p, y) => x = y
  BY AtTells DEF Follows
<1>4. \A x \in Func : At(p, x) = p[x]
  BY DEF At
<1>5. f \in C
  OBVIOUS
<1> HIDE DEF C, D
<1>6. CallGraph(c)[f] = Called(c[f]) \cap C /\ CallGraph(d)[p[f]] = Called(d[p[f]]) \cap D
  BY <1>1, <1>2, <1>5 DEF CallGraph, C, D
<1>7. Callers(c)[f] = {g \in C : f \in Called(c[g])} /\ Callers(d)[p[f]] = {g \in D : p[f] \in Called(d[g])}
  BY <1>1, <1>2, <1>5 DEF Callers, C, D
<1>8. Called(d[p[f]]) \cap D = Image(p, Called(c[f]) \cap C)
  <2>1. ASSUME NEW n \in Called(c[f])
        PROVE  /\ At(p, n) \in D <=> n \in C
               /\ n \in C => At(p, n) = p[n]
    BY <1>1, <1>2, <1>3, <1>4
  <2> QED  BY <1>2, <1>5, <2>1 DEF Image
<1>9. {g \in D : p[f] \in Called(d[g])} = Image(p, {g \in C : f \in Called(c[g])})
  <2>1. ASSUME NEW h \in C  PROVE p[f] \in Called(d[p[h]]) <=> f \in Called(c[h])
    <3>1. p[f] = At(p, f)
      BY <1>1, <1>4, <1>5
    <3> QED  BY <1>2, <1>3, <3>1
  <2>2. \A n \in D : \E h \in C : n = p[h]
    BY <1>1, <1>2
  <2>3. \A h \in C : p[h] \in D
    BY <1>1, <1>2
  <2> QED  BY <2>1, <2>2, <2>3 DEF Image
<1> QED  BY <1>6, <1>7, <1>8, <1>9

(* So is what is around some functions,                                    *)
LEMMA AroundMoves ==
  ASSUME NEW c, Application(c), NEW d, Application(d), NEW p, Follows(c, d, p),
         NEW seeds \in SUBSET Defined(c)
  PROVE  /\ Around(c, seeds) \subseteq Defined(c)
         /\ Around(d, Image(p, seeds)) = Image(p, Around(c, seeds))
<1> DEFINE C == Defined(c)
           P == Callers(c)
           Q == Callers(d)
           G == CallGraph(c)
           H == CallGraph(d)
           K == Closure(seeds, P)
<1>1. C \in SUBSET Func /\ Pairs(p, Func, Func)
  BY DEF Application, Defined, Follows
<1>2. /\ P \in [Func -> SUBSET Func] /\ Q \in [Func -> SUBSET Func]
      /\ G \in [Func -> SUBSET Func] /\ H \in [Func -> SUBSET Func]
  BY DEF Application, Defined, Callers, CallGraph
<1>3. \A f \in C : P[f] \subseteq C /\ G[f] \subseteq C
  BY <1>1 DEF Callers, CallGraph, Application
<1>4. \A f \in C : Q[p[f]] = Image(p, P[f]) /\ H[p[f]] = Image(p, G[f])
  BY CallsMove
<1>5. /\ Around(c, seeds) = Closure(K, G)
      /\ Around(d, Image(p, seeds)) = Closure(Closure(Image(p, seeds), Q), H)
      /\ seeds \in SUBSET C
  BY DEF Around
<1> HIDE DEF C, P, Q, G, H
<1>6. K \subseteq C /\ Closure(Image(p, seeds), Q) = Image(p, K)
  BY <1>1, <1>2, <1>3, <1>4, <1>5, ClosureMoves
<1> HIDE DEF K
<1>7. K \in SUBSET C
  BY <1>6
<1>8. Closure(K, G) \subseteq C /\ Closure(Image(p, K), H) = Image(p, Closure(K, G))
  BY <1>1, <1>2, <1>3, <1>4, <1>7, ClosureMoves
<1> QED  BY <1>5, <1>6, <1>8 DEF C, K

(* and who writes what they read,                                          *)
LEMMA MoreMoves ==
  ASSUME NEW c, Application(c), NEW d, Application(d), NEW p, Follows(c, d, p),
         NEW seeds \in SUBSET Defined(c)
  PROVE  MoreSeeds(c, seeds) \subseteq Defined(c) /\ MoreSeeds(d, Image(p, seeds)) = Image(p, MoreSeeds(c, seeds))
<1> DEFINE A == Around(c, seeds)
           C == Defined(c)
           D == Defined(d)
<1>1. A \subseteq C /\ Around(d, Image(p, seeds)) = Image(p, A)
  BY AroundMoves
<1>2. /\ C \subseteq Func /\ D \subseteq Func
      /\ \A n \in Func : \E h \in Func : p[h] = n
      /\ \A x, y \in Func : p[x] = p[y] => x = y
      /\ \A h \in Func : p[h] \in D <=> h \in C
      /\ \A h \in C : d[p[h]].gets = c[h].gets /\ d[p[h]].sets = c[h].sets
  BY DEF Application, Defined, Follows, Pairs, MovedTo
<1> DEFINE loaded == UNION {c[m].gets : m \in A}
           loadedThere == UNION {d[m].gets : m \in Image(p, A)}
           W == {g \in C : c[g].sets \cap loaded # {}}
           V == {g \in D : d[g].sets \cap loadedThere # {}}
<1>3. /\ MoreSeeds(c, seeds) = IF W \subseteq A THEN seeds ELSE seeds \cup W
      /\ MoreSeeds(d, Image(p, seeds))
           = IF V \subseteq Image(p, A) THEN Image(p, seeds) ELSE Image(p, seeds) \cup V
      /\ seeds \subseteq C /\ W \subseteq C
  BY <1>1 DEF MoreSeeds, Writers
<1> HIDE DEF A, C, D
<1>4. loadedThere = loaded
  BY <1>1, <1>2 DEF Image
<1> HIDE DEF loaded, loadedThere
<1>5. V = Image(p, W)
  <2>1. \A n \in D : \E h \in C : n = p[h]
    BY <1>2
  <2>2. \A h \in C : p[h] \in D /\ d[p[h]].sets = c[h].sets
    BY <1>2
  <2> QED  BY <1>4, <2>1, <2>2 DEF Image
<1> HIDE DEF W, V
<1>6. Image(p, W) \subseteq Image(p, A) <=> W \subseteq A
  <2>1. \A x, y \in C : p[x] = p[y] => x = y
    BY <1>2
  <2> QED  BY <1>1, <1>3, <2>1 DEF Image
<1>7. Image(p, seeds \cup W) = Image(p, seeds) \cup Image(p, W)
  BY DEF Image
<1>8. MoreSeeds(c, seeds) \subseteq C
  BY <1>3
<1>9. MoreSeeds(d, Image(p, seeds)) = Image(p, MoreSeeds(c, seeds))
  BY <1>3, <1>5, <1>6, <1>7
<1> QED  BY <1>8, <1>9 DEF C

(* and the slices.                                                         *)
LEMMA SliceMoves ==
  ASSUME NEW c, Application(c), NEW d, Application(d), NEW p, Follows(c, d, p), NEW f \in Defined(c)
  PROVE  /\ f \in Slice(c, f) /\ Slice(c, f) \subseteq Defined(c)
         /\ \A m \in Slice(c, f) : Called(c[m]) \cap Defined(c) \subseteq Slice(c, f)
         /\ Slice(d, p[f]) = Image(p, Slice(c, f))
<1> DEFINE N == Cardinality(Func)
           g == CHOOSE h : Seeds(N, c, f, h)
           e == CHOOSE h : Seeds(N, d, p[f], h)
           C == Defined(c)
<1>1. N \in Nat /\ f \in Func /\ C \subseteq Func /\ DOMAIN c = Func
  BY AppAssumption, FS_CardinalityType DEF Defined, Application
<1>2. Seeds(N, c, f, g) /\ Seeds(N, d, p[f], e)
  BY <1>1, SeedsExist
<1>3. Slice(c, f) = Around(c, g[N]) /\ Slice(d, p[f]) = Around(d, e[N])
  BY DEF Slice, Seeds
<1> HIDE DEF N, g, e
<1>4. /\ g[0] = {f} /\ \A k \in 0 .. N - 1 : g[k + 1] = MoreSeeds(c, g[k])
      /\ e[0] = {p[f]} /\ \A k \in 0 .. N - 1 : e[k + 1] = MoreSeeds(d, e[k])
  <2>1. /\ \A k \in 0 .. N : g[k] = IF k = 0 THEN {f} ELSE MoreSeeds(c, g[k - 1])
        /\ \A k \in 0 .. N : e[k] = IF k = 0 THEN {p[f]} ELSE MoreSeeds(d, e[k - 1])
    BY <1>2 DEF Seeds
  <2>2. 0 \in 0 .. N /\ \A k \in 0 .. N - 1 : k + 1 \in 0 .. N /\ k + 1 # 0 /\ k + 1 - 1 = k
    BY <1>1
  <2> QED  BY <2>1, <2>2
<1> DEFINE S == {k \in Nat : f \in g[k] /\ g[k] \subseteq C /\ e[k] = Image(p, g[k])}
<1>5. 0 \in S
  BY <1>4 DEF Image
<1>6. ASSUME NEW k \in 0 .. N - 1, k \in S  PROVE k + 1 \in S
  <2> DEFINE seeds == g[k]
  <2>1. /\ k + 1 \in Nat /\ g[k + 1] = MoreSeeds(c, seeds) /\ e[k + 1] = MoreSeeds(d, Image(p, seeds))
        /\ f \in seeds /\ seeds \in SUBSET C
    BY <1>4, <1>6
  <2> HIDE DEF seeds
  <2>2. MoreSeeds(c, seeds) \subseteq C /\ MoreSeeds(d, Image(p, seeds)) = Image(p, MoreSeeds(c, seeds))
    BY <2>1, MoreMoves
  <2>3. f \in MoreSeeds(c, seeds)
    BY <2>1 DEF MoreSeeds
  <2> QED  BY <2>1, <2>2, <2>3
<1> HIDE DEF S
<1>7. N \in S
  BY <1>1, <1>5, <1>6, CountUp
<1> DEFINE T == g[N]
<1>8. f \in T /\ T \in SUBSET C /\ T \in SUBSET Func /\ e[N] = Image(p, T)
  BY <1>1, <1>7 DEF S
<1> HIDE DEF T
<1>9. Around(c, T) \subseteq C /\ Around(d, Image(p, T)) = Image(p, Around(c, T))
  BY <1>8, AroundMoves
<1>10. T \subseteq Around(c, T) /\ ClosedIn(Around(c, T), CallGraph(c))
  BY <1>8, AroundIs
<1>11. \A m \in Around(c, T) : Called(c[m]) \cap C \subseteq Around(c, T)
  BY <1>1, <1>9, <1>10 DEF ClosedIn, CallGraph
<1>12. Slice(c, f) = Around(c, T) /\ Slice(d, p[f]) = Around(d, Image(p, T))
  BY <1>3, <1>8 DEF T
<1> QED  BY <1>8, <1>9, <1>10, <1>11, <1>12

-----------------------------------------------------------------------------
(* Two lists, one after the other.                                         *)
Joins(list, s, n, t, m) ==
  /\ n + m \in Nat /\ DOMAIN list = 1 .. (n + m)
  /\ \A i \in 1 .. n : list[i] = s[i]
  /\ \A i \in 1 .. (n + m) : ~(i <= n) => i - n \in 1 .. m /\ list[i] = t[i - n]

LEMMA JoinedIs ==
  ASSUME NEW T, NEW n \in Nat, NEW m \in Nat, NEW s \in [1 .. n -> T], NEW t \in [1 .. m -> T]
  PROVE  Joins(s \o t, s, n, t, m)
<1>1. s \in Seq(T) /\ Len(s) = n /\ t \in Seq(T) /\ Len(t) = m
  OBVIOUS
<1>2. n + m \in Nat /\ \A i \in 1 .. (n + m) : ~(i <= n) => i - n \in 1 .. m
  OBVIOUS
<1>3. s \o t \in Seq(T) /\ Len(s \o t) = n + m
  BY <1>1
<1>4. DOMAIN (s \o t) = 1 .. (n + m)
  BY <1>2, <1>3
<1>5. \A i \in 1 .. n : (s \o t)[i] = s[i]
  <2> TAKE i \in 1 .. n
  <2>1. i \in 1 .. Len(s) + Len(t) /\ i <= Len(s)
    BY <1>1
  <2> QED  BY <1>1, <2>1
<1>6. \A i \in 1 .. (n + m) : ~(i <= n) => (s \o t)[i] = t[i - n]
  <2> SUFFICES ASSUME NEW i \in 1 .. (n + m), ~(i <= n) PROVE (s \o t)[i] = t[i - n]
    OBVIOUS
  <2>1. i \in 1 .. Len(s) + Len(t) /\ ~(i <= Len(s))
    BY <1>1
  <2> QED  BY <1>1, <2>1
<1> QED  BY ONLY <1>2, <1>4, <1>5, <1>6 DEF Joins

(* Calls that are told by the names that stay where they are, or not by    *)
(* names.                                                                  *)
Kept(p, calls, n) ==
  \A i \in 1 .. n : \A name : calls[i] = <<"name", name>> => At(p, name) = name

(* The hash of a function that was moved is the same, if its calls are     *)
(* told by names that were not, or by other means.                         *)
LEMMA HashForgets ==
  ASSUME NEW p, Pairs(p, Func, Func),
         NEW fn, IsAppFunction(fn), NEW gn, MovedTo(p, fn, gn),
         NEW n \in Nat, NEW C, NEW calls \in [1 .. n -> C], Kept(p, calls, n)
  PROVE  Hash(gn, calls) = Hash(fn, calls)
<1> DEFINE Told(s) == [i \in DOMAIN s |-> <<"name", s[i]>>]
           a == Told(fn.reads)
           b == Told(gn.reads)
           T == C \cup {a[i] : i \in DOMAIN a} \cup {b[i] : i \in DOMAIN b}
           old == calls \o a
           new == calls \o b
<1>1. PICK m \in Nat : fn.reads \in [1 .. m -> Nat]
  BY NamesAre
<1>2. /\ DOMAIN a = 1 .. m /\ DOMAIN b = 1 .. m
      /\ a = [i \in 1 .. m |-> a[i]] /\ b = [i \in 1 .. m |-> b[i]]
      /\ \A i \in 1 .. m : a[i] = <<"name", fn.reads[i]>> /\ b[i] = <<"name", At(p, fn.reads[i])>>
  <2>1. gn.reads = [i \in 1 .. m |-> At(p, fn.reads[i])] /\ DOMAIN fn.reads = 1 .. m
    BY <1>1 DEF MovedTo, MovedNames
  <2> DEFINE r == fn.reads
             q == gn.reads
  <2> HIDE DEF r, q
  <2>2. DOMAIN q = 1 .. m /\ DOMAIN r = 1 .. m /\ \A i \in 1 .. m : q[i] = At(p, r[i])
    BY <2>1 DEF r, q
  <2>3. /\ DOMAIN Told(r) = 1 .. m /\ DOMAIN Told(q) = 1 .. m
        /\ Told(r) = [i \in 1 .. m |-> Told(r)[i]] /\ Told(q) = [i \in 1 .. m |-> Told(q)[i]]
        /\ \A i \in 1 .. m : Told(r)[i] = <<"name", r[i]>> /\ Told(q)[i] = <<"name", At(p, r[i])>>
    BY <2>2
  <2> QED  BY <2>3 DEF r, q
<1> HIDE DEF Told, a, b
<1>3. calls \in [1 .. n -> T] /\ a \in [1 .. m -> T] /\ b \in [1 .. m -> T]
  <2>1. \A i \in 1 .. m : a[i] \in T /\ b[i] \in T
    BY <1>2
  <2>2. \A i \in 1 .. n : calls[i] \in T
    OBVIOUS
  <2> HIDE DEF T
  <2> QED  BY <1>2, <2>1, <2>2
<1> HIDE DEF T
<1>4. Joins(old, calls, n, a, m) /\ Joins(new, calls, n, b, m)
  BY <1>3, JoinedIs
<1> HIDE DEF old, new
<1>5. /\ n + m \in Nat /\ DOMAIN old = 1 .. (n + m) /\ DOMAIN new = 1 .. (n + m)
      /\ \A i \in 1 .. n : old[i] = calls[i] /\ new[i] = calls[i]
      /\ \A i \in 1 .. (n + m) : ~(i <= n) =>
           i - n \in 1 .. m /\ old[i] = a[i - n] /\ new[i] = b[i - n]
  BY <1>4 DEF Joins
<1>6. ASSUME NEW i \in 1 .. (n + m)
      PROVE  \/ i \in 1 .. n /\ old[i] = calls[i] /\ new[i] = calls[i]
             \/ \E x : old[i] = <<"name", x>> /\ new[i] = <<"name", At(p, x)>>
  <2>1. CASE i <= n
    <3>1. i \in 1 .. n
      BY <2>1
    <3> QED  BY <1>5, <3>1
  <2>2. CASE ~(i <= n)
    <3>1. i - n \in 1 .. m /\ old[i] = a[i - n] /\ new[i] = b[i - n]
      BY <1>5, <2>2
    <3>2. \E j \in 1 .. m : old[i] = a[j] /\ new[i] = b[j]
      BY <3>1
    <3> QED  BY <1>2, <3>2
  <2> QED  BY <2>1, <2>2
<1>7. \A x, y : At(p, x) = At(p, y) => x = y
  BY AtTells
<1>8. \A x, y : <<"name", x>> = <<"name", y>> => x = y
  OBVIOUS
<1>9. ASSUME NEW i \in 1 .. (n + m), NEW j \in 1 .. (n + m)
      PROVE  new[i] = new[j] <=> old[i] = old[j]
  <2>1. ASSUME NEW k \in 1 .. n, NEW x
        PROVE  calls[k] = <<"name", At(p, x)>> <=> calls[k] = <<"name", x>>
    <3>1. ASSUME calls[k] = <<"name", At(p, x)>>  PROVE At(p, x) = x
      BY <1>7, <3>1 DEF Kept
    <3>2. ASSUME calls[k] = <<"name", x>>  PROVE At(p, x) = x
      BY <3>2 DEF Kept
    <3> QED  BY <3>1, <3>2
  <2>2. CASE i \in 1 .. n /\ old[i] = calls[i] /\ new[i] = calls[i]
    <3>1. CASE j \in 1 .. n /\ old[j] = calls[j] /\ new[j] = calls[j]
      BY <2>2, <3>1
    <3>2. CASE \E x : old[j] = <<"name", x>> /\ new[j] = <<"name", At(p, x)>>
      BY <2>1, <2>2, <3>2
    <3> QED  BY <1>6, <3>1, <3>2
  <2>3. CASE \E x : old[i] = <<"name", x>> /\ new[i] = <<"name", At(p, x)>>
    <3>1. CASE j \in 1 .. n /\ old[j] = calls[j] /\ new[j] = calls[j]
      BY <2>1, <2>3, <3>1
    <3>2. CASE \E x : old[j] = <<"name", x>> /\ new[j] = <<"name", At(p, x)>>
      BY <1>7, <1>8, <2>3, <3>2
    <3> QED  BY <1>6, <3>1, <3>2
  <2> QED  BY <1>6, <2>2, <2>3
<1>10. Alpha(new) = Alpha(old)
  <2>1. \A list : Condition!Alpha(list) = Alpha(list)
    BY DEF Condition!Alpha, Alpha
  <2>2. Condition!Alpha(new) = Condition!Alpha(old)
    BY <1>5, <1>9, AlphaForgetsNames
  <2> QED  BY <2>1, <2>2
<1>11. /\ Hash(fn, calls) = <<fn.text, fn.event, fn.gets, fn.sets, calls, Alpha(old)>>
       /\ Hash(gn, calls) = <<gn.text, gn.event, gn.gets, gn.sets, calls, Alpha(new)>>
  BY DEF Hash, old, new, Told, a, b
<1> QED  BY <1>10, <1>11 DEF MovedTo

(* A refinement of the hashes of a slice is moved with it.                 *)
LEMMA RefinedMoves ==
  ASSUME NEW c, Application(c), NEW d, Application(d), NEW p, Follows(c, d, p),
         NEW M \in SUBSET Defined(c), \A m \in M : Called(c[m]) \cap Defined(c) \subseteq M,
         NEW k, NEW before, NEW there, \A m \in M : there[p[m]] = before[m]
  PROVE  \A m \in M : Refined(k, d, Image(p, M), there)[p[m]] = Refined(k, c, M, before)[m]
<1> DEFINE C == Defined(c)
           K == Image(p, M)
           told == [m \in M |-> [i \in DOMAIN c[m].calls |->
                     IF c[m].calls[i] \in M THEN <<"slice", before[c[m].calls[i]]>>
                     ELSE <<"name", c[m].calls[i]>>]]
           toldThere == [m \in K |-> [i \in DOMAIN d[m].calls |->
                     IF d[m].calls[i] \in K THEN <<"slice", there[d[m].calls[i]]>>
                     ELSE <<"name", d[m].calls[i]>>]]
<1>1. /\ C \subseteq Func /\ \A h \in Func : IsAppFunction(c[h]) /\ IsAppFunction(d[h])
      /\ Pairs(p, Func, Func) /\ \A h \in Func : p[h] \in Func
      /\ \A h \in C : MovedTo(p, c[h], d[p[h]])
      /\ \A name \in Used(c) : name \notin C => At(p, name) = name
  BY DEF Application, Defined, Follows, Pairs
<1>2. \A m \in M : m \in C /\ m \in Func /\ p[m] \in K /\ p[m] \in Func
  BY <1>1 DEF Image
<1>3. \A m \in M : Refined(k, c, M, before)[m] = IF k = 0 THEN <<>> ELSE Hash(c[m], told[m])
  BY DEF Refined
<1>4. \A m \in K : Refined(k, d, K, there)[m] = IF k = 0 THEN <<>> ELSE Hash(d[m], toldThere[m])
  BY DEF Refined
<1>5. ASSUME NEW m \in M
      PROVE  /\ told[m] = [i \in DOMAIN c[m].calls |-> told[m][i]]
             /\ \A i \in DOMAIN c[m].calls :
                  told[m][i] = IF c[m].calls[i] \in M THEN <<"slice", before[c[m].calls[i]]>>
                               ELSE <<"name", c[m].calls[i]>>
  OBVIOUS
<1>6. ASSUME NEW m \in K
      PROVE  /\ toldThere[m] = [i \in DOMAIN d[m].calls |-> toldThere[m][i]]
             /\ \A i \in DOMAIN d[m].calls :
                  toldThere[m][i] = IF d[m].calls[i] \in K THEN <<"slice", there[d[m].calls[i]]>>
                                    ELSE <<"name", d[m].calls[i]>>
  OBVIOUS
<1> HIDE DEF C, told, toldThere
<1>7. /\ \A x : At(p, x) \in Func <=> x \in Func
      /\ \A x, y : At(p, x) = At(p, y) => x = y
  BY <1>1, AtTells
<1>8. \A x \in Func : At(p, x) = p[x]
  BY DEF At
<1>9. ASSUME NEW m \in M, NEW x \in Called(c[m])
      PROVE  /\ x \in M => At(p, x) \in K /\ At(p, x) = p[x]
             /\ x \notin M => At(p, x) \notin K /\ At(p, x) = x
  <2>1. CASE x \in M
    BY <1>2, <1>8, <2>1
  <2>2. CASE x \notin M
    <3>1. x \notin C
      BY <2>2 DEF C
    <3>2. x \in Used(c)
      BY <1>2 DEF Used, C
    <3>3. At(p, x) = x
      BY <1>1, <3>1, <3>2
    <3>4. \A y \in M : p[y] # At(p, x)
      BY <1>2, <1>7, <1>8, <2>2
    <3> QED  BY <2>2, <3>3, <3>4 DEF Image
  <2> QED  BY <2>1, <2>2
<1> HIDE DEF K
<1>10. ASSUME NEW m \in M  PROVE toldThere[p[m]] = told[m]
  <2> DEFINE s == c[m].calls
             u == d[p[m]].calls
             a == told[m]
             b == toldThere[p[m]]
  <2>1. u = [i \in DOMAIN s |-> At(p, s[i])]
    BY <1>1, <1>2 DEF MovedTo, MovedNames
  <2>2. \A i \in DOMAIN s : s[i] \in Called(c[m])
    BY DEF Called
  <2>3. /\ a = [i \in DOMAIN s |-> a[i]]
        /\ \A i \in DOMAIN s : a[i] = IF s[i] \in M THEN <<"slice", before[s[i]]>> ELSE <<"name", s[i]>>
    BY <1>5
  <2>4. /\ b = [i \in DOMAIN u |-> b[i]]
        /\ \A i \in DOMAIN u : b[i] = IF u[i] \in K THEN <<"slice", there[u[i]]>> ELSE <<"name", u[i]>>
    BY <1>2, <1>6
  <2> HIDE DEF s, u, a, b
  <2>5. DOMAIN u = DOMAIN s /\ \A i \in DOMAIN s : u[i] = At(p, s[i])
    BY <2>1
  <2>6. \A i \in DOMAIN s : a[i] = b[i]
    <3> TAKE i \in DOMAIN s
    <3>1. CASE s[i] \in M
      <4>1. u[i] \in K /\ u[i] = p[s[i]]
        BY <1>9, <2>2, <2>5, <3>1
      <4>2. there[u[i]] = before[s[i]]
        BY <3>1, <4>1
      <4> QED  BY <2>3, <2>4, <2>5, <3>1, <4>1, <4>2
    <3>2. CASE s[i] \notin M
      <4>1. u[i] \notin K /\ u[i] = s[i]
        BY <1>9, <2>2, <2>5, <3>2
      <4> QED  BY <2>3, <2>4, <2>5, <3>2, <4>1
    <3> QED  BY <3>1, <3>2
  <2>7. a = b
    BY <2>3, <2>4, <2>5, <2>6
  <2> QED  BY <2>7 DEF a, b
<1>11. ASSUME NEW m \in M  PROVE Hash(d[p[m]], told[m]) = Hash(c[m], told[m])
  <2> DEFINE fn == c[m]
             gn == d[p[m]]
             calls == told[m]
  <2>0. PICK n \in Nat : c[m].calls \in [1 .. n -> Nat]
    BY <1>1, <1>2, NamesAre
  <2>1. DOMAIN c[m].calls = 1 .. n
    BY <2>0
  <2> DEFINE T == {calls[i] : i \in 1 .. n}
  <2>2. calls \in [1 .. n -> T]
    <3>1. calls = [i \in 1 .. n |-> calls[i]]
      BY <1>5, <2>1
    <3> HIDE DEF calls
    <3> QED  BY <3>1
  <2>3. ASSUME NEW i \in 1 .. n, NEW name, calls[i] = <<"name", name>>  PROVE At(p, name) = name
    <3>1. calls[i] = IF c[m].calls[i] \in M THEN <<"slice", before[c[m].calls[i]]>>
                     ELSE <<"name", c[m].calls[i]>>
      BY <1>5, <2>1
    <3>2. c[m].calls[i] \notin M /\ name = c[m].calls[i]
      BY <2>3, <3>1
    <3>3. c[m].calls[i] \in Called(c[m])
      BY <2>1 DEF Called
    <3> QED  BY <1>9, <3>2, <3>3
  <2>4. Pairs(p, Func, Func) /\ IsAppFunction(fn) /\ MovedTo(p, fn, gn) /\ n \in Nat
    BY <1>1, <1>2
  <2> HIDE DEF fn, gn, calls, T
  <2>5. Kept(p, calls, n)
    BY <2>3 DEF Kept
  <2>6. Hash(gn, calls) = Hash(fn, calls)
    BY <2>2, <2>4, <2>5, HashForgets
  <2> QED  BY <2>6 DEF calls, fn, gn
<1> QED  BY <1>2, <1>3, <1>4, <1>10, <1>11 DEF K

(* There are as many functions where they are as there were.               *)
LEMMA ImageCounts ==
  ASSUME NEW p, Pairs(p, Func, Func), NEW S \in SUBSET Func
  PROVE  Cardinality(Image(p, S)) = Cardinality(S)
<1> DEFINE b == [f \in S |-> p[f]]
           T == Image(p, S)
<1>1. /\ b \in [S -> T] /\ (\A f, g \in S : b[f] = b[g] => f = g)
      /\ \A n \in T : \E f \in S : b[f] = n
  BY DEF Pairs, Image
<1>2. IsFiniteSet(S)
  BY AppAssumption, FS_Subset
<1> HIDE DEF b, T
<1>3. b \in Bijection(S, T)
  BY <1>1, Zenon DEF Bijection, Injection, Surjection, IsInjective
<1>4. ExistsBijection(S, T)
  BY <1>3 DEF ExistsBijection
<1> QED  BY <1>2, <1>4, FS_Bijection DEF T

(* The rename fingerprint of a slice is that of the slice where it was     *)
(* moved to.                                                               *)
LEMMA InvariantHashesMove ==
  ASSUME NEW c, Application(c), NEW d, Application(d), NEW p, Follows(c, d, p),
         NEW M \in SUBSET Defined(c), \A m \in M : Called(c[m]) \cap Defined(c) \subseteq M
  PROVE  InvariantHashes(d, Image(p, M)) = InvariantHashes(c, M)
<1> DEFINE K == Image(p, M)
           N == Cardinality(M)
           L == Cardinality(K)
           g == CHOOSE h : Refinings(N, c, M, h)
           e == CHOOSE h : Refinings(L, d, K, h)
           inv == g[N]
           there == e[L]
<1>1. M \in SUBSET Func /\ Pairs(p, Func, Func)
  BY DEF Application, Defined, Follows
<1>2. N \in Nat /\ L = N
  <2>1. IsFiniteSet(M)
    BY <1>1, AppAssumption, FS_Subset
  <2> QED  BY <1>1, <2>1, ImageCounts, FS_CardinalityType
<1>3. Refinings(N, c, M, g) /\ Refinings(L, d, K, e)
  BY <1>2, RefiningsExist
<1>4. /\ InvariantHashes(c, M) = [h \in {inv[m] : m \in M} |-> Cardinality({m \in M : inv[m] = h})]
      /\ InvariantHashes(d, K) = [h \in {there[m] : m \in K} |-> Cardinality({m \in K : there[m] = h})]
  BY DEF InvariantHashes, Refinings, Refined
<1> HIDE DEF N, L, g, e
<1>5. \A k \in 0 .. N : g[k] = Refined(k, c, M, g[k - 1]) /\ e[k] = Refined(k, d, K, e[k - 1])
  BY <1>2, <1>3 DEF Refinings
<1> HIDE DEF K
<1> DEFINE S == {k \in Nat : \A m \in M : e[k][p[m]] = g[k][m]}
<1>6. 0 \in S
  <2>1. 0 \in 0 .. N /\ \A m \in M : p[m] \in K
    BY <1>2 DEF K, Image
  <2>2. \A m \in M : g[0][m] = <<>>
    BY <1>5, <2>1 DEF Refined
  <2>3. \A m \in K : e[0][m] = <<>>
    BY <1>5, <2>1 DEF Refined
  <2> QED  BY <2>1, <2>2, <2>3
<1>7. ASSUME NEW k \in 0 .. N - 1, k \in S  PROVE k + 1 \in S
  <2> DEFINE before == g[k]
             moved == e[k]
  <2>1. k + 1 \in 0 .. N /\ k + 1 - 1 = k /\ k + 1 \in Nat
    BY <1>2
  <2>2. g[k + 1] = Refined(k + 1, c, M, before) /\ e[k + 1] = Refined(k + 1, d, K, moved)
    BY <1>5, <2>1
  <2>3. \A m \in M : moved[p[m]] = before[m]
    BY <1>7
  <2> HIDE DEF before, moved
  <2>4. \A m \in M : Refined(k + 1, d, Image(p, M), moved)[p[m]] = Refined(k + 1, c, M, before)[m]
    BY <2>3, RefinedMoves
  <2> QED  BY <2>1, <2>2, <2>4 DEF K
<1> HIDE DEF S
<1>8. N \in S
  BY <1>2, <1>6, <1>7, CountUp
<1>9. \A m \in M : there[p[m]] = inv[m]
  BY <1>2, <1>8 DEF S
<1> HIDE DEF inv, there
<1>10. {there[m] : m \in K} = {inv[m] : m \in M}
  BY <1>9 DEF K, Image
<1>11. ASSUME NEW h  PROVE Cardinality({m \in K : there[m] = h}) = Cardinality({m \in M : inv[m] = h})
  <2> DEFINE T == {m \in M : inv[m] = h}
  <2>1. {m \in K : there[m] = h} = Image(p, T)
    BY <1>9 DEF K, Image
  <2>2. T \in SUBSET Func
    BY <1>1
  <2> HIDE DEF T
  <2>3. Cardinality(Image(p, T)) = Cardinality(T)
    BY <1>1, <2>2, ImageCounts
  <2> QED  BY <2>1, <2>3 DEF T
<1>12. InvariantHashes(d, K) = InvariantHashes(c, M)
  BY <1>4, <1>10, <1>11
<1> QED  BY <1>12 DEF K

(* A slice reads the same constants where it was moved to.                 *)
LEMMA ConstantsStay ==
  ASSUME NEW c, Application(c), NEW d, Application(d), NEW p, Follows(c, d, p),
         NEW M \in SUBSET Defined(c)
  PROVE  Constant \cap UNION {ReadBy(d[m]) : m \in Image(p, M)} = Constant \cap UNION {ReadBy(c[m]) : m \in M}
<1>1. \A m \in M : ReadBy(d[p[m]]) = {At(p, name) : name \in ReadBy(c[m])}
  BY MovedNamesAre DEF Follows
<1>2. \A x : At(p, x) \in Constant <=> x \in Constant
  <2>1. \A x : At(p, x) \in Func <=> x \in Func
    BY AtTells DEF Follows
  <2> QED  BY <2>1, AppAssumption DEF At
<1>3. \A x \in Constant : At(p, x) = x
  BY AppAssumption DEF At
<1>4. ASSUME NEW m \in M  PROVE Constant \cap ReadBy(d[p[m]]) = Constant \cap ReadBy(c[m])
  BY <1>1, <1>2, <1>3
<1> QED  BY <1>4 DEF Image

-----------------------------------------------------------------------------
(* The names a slice calls.                                                *)
CalledIn(c, f) == UNION {Called(c[m]) : m \in Slice(c, f)}

(* The fingerprint tells them.                                             *)
LEMMA FingerprintTellsCalls ==
  ASSUME NEW c, NEW d, NEW v, NEW w, NEW f, NEW g,
         Site(c, v, f).fingerprint = Site(d, w, g).fingerprint
  PROVE  CalledIn(c, f) = CalledIn(d, g)
<1> DEFINE H(b, M) == {OwnHash(b[m]) : m \in M}
           told(h) == {h[5][i][2] : i \in DOMAIN h[5]}
<1>1. H(c, Slice(c, f)) = H(d, Slice(d, g))
  <2>1. \A b, u, x : Site(b, u, x).fingerprint[1] = H(b, Slice(b, x))
    BY DEF Site
  <2> HIDE DEF H
  <2> QED  BY <2>1
<1>2. ASSUME NEW fn  PROVE told(OwnHash(fn)) = Called(fn)
  <2> DEFINE s == fn.calls
  <2>1. OwnHash(fn)[5] = [i \in DOMAIN s |-> <<"name", s[i]>>]
    BY DEF OwnHash, Hash
  <2> QED  BY <2>1 DEF Called
<1> HIDE DEF told
<1>3. \A b, x : CalledIn(b, x) = UNION {told(h) : h \in H(b, Slice(b, x))}
  BY <1>2 DEF CalledIn
<1> QED  BY <1>1, <1>3

(* What becomes of a site: the rename fingerprint stays, and the other     *)
(* one, unless a function it calls was renamed.                            *)
LEMMA SiteMoves ==
  ASSUME NEW c, Application(c), NEW d, Application(d), NEW p, Follows(c, d, p),
         NEW f \in Defined(c), NEW v
  PROVE  /\ Site(d, v, p[f]).interface = Site(c, v, f).interface
         /\ Site(d, v, p[f]).rename = Site(c, v, f).rename
         /\ CalledIn(d, p[f]) = {At(p, name) : name \in CalledIn(c, f)}
         /\ CalledIn(c, f) \subseteq Used(c)
         /\ (\A name \in CalledIn(c, f) : At(p, name) = name) =>
              Site(d, v, p[f]).fingerprint = Site(c, v, f).fingerprint
<1> DEFINE M == Slice(c, f)
           K == Image(p, M)
           reads == Constant \cap UNION {ReadBy(c[m]) : m \in M}
           there == Constant \cap UNION {ReadBy(d[m]) : m \in K}
<1>1. /\ M \in SUBSET Defined(c) /\ Slice(d, p[f]) = K
      /\ \A m \in M : Called(c[m]) \cap Defined(c) \subseteq M
  BY SliceMoves
<1> HIDE DEF M
<1>2. /\ \A m \in Defined(c) : MovedTo(p, c[m], d[p[m]]) /\ IsAppFunction(c[m])
      /\ Pairs(p, Func, Func)
  BY DEF Follows, Application, Defined
<1>3. InvariantHashes(d, K) = InvariantHashes(c, M)
  BY <1>1, InvariantHashesMove
<1>4. there = reads
  BY <1>1, ConstantsStay
<1> HIDE DEF K
<1>5. /\ Site(c, v, f).interface = c[f].event /\ Site(d, v, p[f]).interface = d[p[f]].event
      /\ Site(c, v, f).rename = <<InvariantHashes(c, M), [x \in reads |-> v[x]]>>
      /\ Site(d, v, p[f]).rename = <<InvariantHashes(d, K), [x \in there |-> v[x]]>>
      /\ Site(c, v, f).fingerprint = <<{OwnHash(c[m]) : m \in M}, [x \in reads |-> v[x]]>>
      /\ Site(d, v, p[f]).fingerprint = <<{OwnHash(d[m]) : m \in K}, [x \in there |-> v[x]]>>
  BY <1>1 DEF Site, M
<1> HIDE DEF reads, there
<1>6. Site(d, v, p[f]).interface = Site(c, v, f).interface
  BY <1>2, <1>5 DEF MovedTo
<1>7. Site(d, v, p[f]).rename = Site(c, v, f).rename
  BY <1>3, <1>4, <1>5
<1>8. CalledIn(d, p[f]) = {At(p, name) : name \in CalledIn(c, f)}
  <2>1. \A m \in M : Called(d[p[m]]) = {At(p, name) : name \in Called(c[m])}
    BY <1>1, <1>2, MovedNamesAre
  <2>2. CalledIn(d, p[f]) = UNION {Called(d[p[m]]) : m \in M}
    BY <1>1 DEF CalledIn, K, Image
  <2>3. CalledIn(c, f) = UNION {Called(c[m]) : m \in M}
    BY DEF CalledIn, M
  <2> QED  BY <2>1, <2>2, <2>3
<1>9. CalledIn(c, f) \subseteq Used(c)
  BY <1>1 DEF CalledIn, Used, M
<1>10. ASSUME \A name \in CalledIn(c, f) : At(p, name) = name
       PROVE  Site(d, v, p[f]).fingerprint = Site(c, v, f).fingerprint
  <2>1. ASSUME NEW m \in M  PROVE OwnHash(d[p[m]]) = OwnHash(c[m])
    <3> DEFINE fn == c[m]
               gn == d[p[m]]
               calls == [i \in DOMAIN fn.calls |-> <<"name", fn.calls[i]>>]
               T == {calls[i] : i \in DOMAIN fn.calls}
    <3>1. MovedTo(p, fn, gn) /\ IsAppFunction(fn)
      BY <1>1, <1>2
    <3>2. \A x \in Called(fn) : At(p, x) = x
      BY <1>10 DEF CalledIn, M
    <3> HIDE DEF fn, gn
    <3>3. PICK n \in Nat : fn.calls \in [1 .. n -> Nat]
      BY <3>1, NamesAre
    <3>4. DOMAIN fn.calls = 1 .. n /\ \A i \in 1 .. n : At(p, fn.calls[i]) = fn.calls[i]
      BY <3>2, <3>3 DEF Called
    <3>5. gn.calls = [i \in DOMAIN fn.calls |-> fn.calls[i]]
      <4>1. gn.calls = [i \in DOMAIN fn.calls |-> At(p, fn.calls[i])]
        BY <3>1 DEF MovedTo, MovedNames
      <4> QED  BY <3>4, <4>1
    <3>6. calls = [i \in 1 .. n |-> calls[i]] /\ \A i \in 1 .. n : calls[i] = <<"name", fn.calls[i]>>
      BY <3>4
    <3>7. OwnHash(fn) = Hash(fn, calls) /\ OwnHash(gn) = Hash(gn, calls)
      <4>1. DOMAIN gn.calls = DOMAIN fn.calls /\ \A i \in DOMAIN fn.calls : gn.calls[i] = fn.calls[i]
        BY <3>5
      <4>2. [i \in DOMAIN gn.calls |-> <<"name", gn.calls[i]>>] = calls
        BY <4>1
      <4> QED  BY <4>2 DEF OwnHash
    <3>8. \A i \in 1 .. n : calls[i] \in T
      BY <3>4
    <3> HIDE DEF calls, T
    <3>9. calls \in [1 .. n -> T]
      BY <3>6, <3>8
    <3>10. Kept(p, calls, n)
      BY <3>4, <3>6 DEF Kept
    <3>11. Hash(gn, calls) = Hash(fn, calls)
      BY <1>2, <3>1, <3>9, <3>10, HashForgets
    <3> QED  BY <3>7, <3>11 DEF fn, gn
  <2>2. {OwnHash(d[m]) : m \in K} = {OwnHash(c[m]) : m \in M}
    BY <2>1 DEF K, Image
  <2> QED  BY <1>4, <1>5, <2>2
<1> QED  BY <1>6, <1>7, <1>8, <1>9, <1>10

(* A site whose fingerprint moved has one that nothing else has on either  *)
(* side: it tells a name that only one of the two sides calls.             *)
LEMMA MovedStandsOut ==
  ASSUME NEW c, Application(c), NEW d, Application(d), NEW p, Follows(c, d, p),
         NEW f \in Defined(c), NEW g \in Defined(c), NEW v,
         Site(d, v, p[f]).fingerprint # Site(c, v, f).fingerprint
  PROVE  /\ Site(d, v, p[g]).fingerprint # Site(c, v, f).fingerprint
         /\ Site(c, v, g).fingerprint # Site(d, v, p[f]).fingerprint
<1> DEFINE C == Defined(c)
<1>1. PICK name \in CalledIn(c, f) : At(p, name) # name
  BY SiteMoves
<1>2. /\ C \subseteq Func
      /\ \A h \in C : p[h] = h \/ p[h] \notin C
      /\ \A x \in Used(c) : x \notin C => At(p, x) = x
      /\ \A h \in Func : At(p, h) = p[h]
      /\ \A x, y : At(p, x) = At(p, y) => x = y
  BY AtTells DEF Follows, Application, Defined, At
<1>3. /\ CalledIn(c, f) \subseteq Used(c) /\ CalledIn(c, g) \subseteq Used(c)
      /\ CalledIn(d, p[f]) = {At(p, x) : x \in CalledIn(c, f)}
      /\ CalledIn(d, p[g]) = {At(p, x) : x \in CalledIn(c, g)}
  <2>1. \A h \in C : CalledIn(c, h) \subseteq Used(c) /\ CalledIn(d, p[h]) = {At(p, x) : x \in CalledIn(c, h)}
    BY SiteMoves
  <2> QED  BY <2>1
<1>4. name \in C /\ name \in Func /\ At(p, name) \notin C
  BY <1>1, <1>2, <1>3
<1>5. ASSUME Site(d, v, p[g]).fingerprint = Site(c, v, f).fingerprint  PROVE FALSE
  <2>1. CalledIn(d, p[g]) = CalledIn(c, f)
    BY <1>5, FingerprintTellsCalls
  <2>2. PICK x \in CalledIn(c, g) : name = At(p, x)
    BY <1>1, <1>3, <2>1
  <2>3. x # name
    BY <1>1, <2>2
  <2>4. x \in C
    BY <1>2, <1>3, <2>2, <2>3
  <2> QED  BY <1>2, <1>4, <2>2, <2>3, <2>4
<1>6. ASSUME Site(c, v, g).fingerprint = Site(d, v, p[f]).fingerprint  PROVE FALSE
  <2>1. CalledIn(c, g) = CalledIn(d, p[f])
    BY <1>6, FingerprintTellsCalls
  <2>2. At(p, name) \in Used(c)
    BY <1>1, <1>3, <2>1
  <2>3. At(p, At(p, name)) = At(p, name)
    BY <1>2, <1>4, <2>2
  <2> QED  BY <1>1, <1>2, <2>3
<1> QED  BY <1>5, <1>6

(* The sites of an application, after renames to new names.                *)
LEMMA SitesAreRenamed ==
  ASSUME NEW c, Application(c), NEW d, Application(d), NEW p, Follows(c, d, p), NEW v
  PROVE  \E s : Renames(s, Sites(c, v), Sites(d, v))
<1> DEFINE old == Sites(c, v)
           new == Sites(d, v)
           C == Defined(c)
           D == Defined(d)
           s == [o \in old |-> Site(d, v, p[o.id])]
<1>1. /\ \A h \in Func : p[h] \in Func
      /\ \A x, y \in Func : p[x] = p[y] => x = y
      /\ \A n \in Func : \E h \in Func : p[h] = n
      /\ \A h \in Func : p[h] \in D <=> h \in C
      /\ \A h \in C : p[h] = h \/ p[h] \notin C
      /\ \A h \in C : d[p[h]].event = c[h].event
      /\ C \subseteq Func /\ D \subseteq Func
  BY DEF Follows, Pairs, MovedTo, Application, Defined
<1>2. /\ \A o \in old : o.id \in C /\ c[o.id].event # None /\ o = Site(c, v, o.id)
      /\ \A n \in new : n.id \in D /\ d[n.id].event # None /\ n = Site(d, v, n.id)
      /\ \A f \in C : c[f].event # None => Site(c, v, f) \in old
      /\ \A f \in D : d[f].event # None => Site(d, v, f) \in new
      /\ \A f : Site(c, v, f).id = f /\ Site(d, v, f).id = f
  <2>1. \A f : Site(c, v, f).id = f /\ Site(d, v, f).id = f
    BY DEF Site
  <2> QED  BY <2>1 DEF Sites
<1>3. \A o \in old : s[o] = Site(d, v, p[o.id])
  OBVIOUS
<1>4. s = [o \in old |-> s[o]]
  OBVIOUS
<1> HIDE DEF old, new, C, D, s
<1>5. \A o \in old : s[o] \in new /\ s[o].id = p[o.id]
  BY <1>1, <1>2, <1>3
<1>6. Pairs(s, old, new)
  <2>1. s \in [old -> new]
    BY <1>4, <1>5
  <2>2. ASSUME NEW x \in old, NEW y \in old, s[x] = s[y]  PROVE x = y
    <3>1. x.id = y.id
      BY <1>1, <1>2, <1>5, <2>2
    <3> QED  BY <1>2, <3>1
  <2>3. ASSUME NEW n \in new  PROVE \E o \in old : s[o] = n
    <3>1. PICK h \in Func : p[h] = n.id
      BY <1>1, <1>2
    <3>2. h \in C /\ c[h].event # None
      BY <1>1, <1>2, <3>1
    <3>3. Site(c, v, h) \in old /\ Site(c, v, h).id = h
      BY <1>2, <3>2
    <3>4. s[Site(c, v, h)] = Site(d, v, n.id)
      BY <1>3, <3>1, <3>3
    <3> QED  BY <1>2, <3>3, <3>4
  <2> QED  BY <2>1, <2>2, <2>3 DEF Pairs
<1>7. ASSUME NEW o \in old
      PROVE  /\ s[o].id = o.id \/ (o.id \notin Ids(new) /\ s[o].id \notin Ids(old))
             /\ o.interface = s[o].interface /\ ProvenRename(o, s[o])
             /\ Exact(o, s[o]) \/ Proven(o, s[o], old, new)
  <2> DEFINE f == o.id
  <2>1. f \in C /\ o = Site(c, v, f) /\ s[o] = Site(d, v, p[f])
    BY <1>2, <1>3
  <2> HIDE DEF f
  <2>2. s[o].id = o.id \/ (o.id \notin Ids(new) /\ s[o].id \notin Ids(old))
    <3>1. CASE p[f] = f
      BY <1>2, <2>1, <3>1
    <3>2. CASE p[f] # f
      <4>1. p[f] \notin C
        BY <1>1, <2>1, <3>2
      <4>2. p[f] \notin Ids(old)
        BY <1>2, <4>1 DEF Ids
      <4>3. ASSUME NEW n \in new, n.id = f  PROVE FALSE
        <5>1. PICK h \in Func : p[h] = f
          BY <1>1, <2>1
        <5>2. h \in C
          BY <1>1, <1>2, <4>3, <5>1
        <5> QED  BY <1>1, <2>1, <3>2, <5>1, <5>2
      <4>4. f \notin Ids(new)
        BY <4>3 DEF Ids
      <4> QED  BY <1>2, <2>1, <4>2, <4>4
    <3> QED  BY <3>1, <3>2
  <2>3. s[o].interface = o.interface /\ s[o].rename = o.rename
    BY <2>1, SiteMoves DEF C
  <2>4. ProvenRename(o, s[o])
    <3>1. o.rename # <<>>
      BY <2>1 DEF Site
    <3> QED  BY <2>3, <3>1 DEF ProvenRename
  <2>5. CASE s[o].fingerprint = o.fingerprint
    BY <2>2, <2>3, <2>4, <2>5 DEF Exact
  <2>6. CASE s[o].fingerprint # o.fingerprint
    <3>1. \A g \in C : /\ Site(d, v, p[g]).fingerprint # o.fingerprint
                       /\ Site(c, v, g).fingerprint # s[o].fingerprint
      BY <2>1, <2>6, MovedStandsOut DEF C
    <3>2. \A k \in old : k.fingerprint # s[o].fingerprint
      BY <1>2, <3>1
    <3>3. ASSUME NEW k \in new  PROVE k.fingerprint # o.fingerprint
      <4>1. PICK x \in old : s[x] = k
        BY <1>6 DEF Pairs
      <4>2. x.id \in C /\ k = Site(d, v, p[x.id])
        BY <1>2, <1>3, <4>1
      <4> QED  BY <3>1, <4>2
    <3>4. Proven(o, s[o], old, new)
      BY <2>3, <2>4, <3>2, <3>3 DEF Proven
    <3> QED  BY <2>2, <2>3, <2>4, <3>4
  <2> QED  BY <2>5, <2>6
<1>8. Renames(s, old, new)
  BY <1>6, <1>7 DEF Renames
<1> QED  BY <1>8 DEF old, new

-----------------------------------------------------------------------------
(* While fresh holds, the application is what was saved but for names.     *)
NamesInvariant == fresh => value = baseValue /\ \E p : Follows(base, code, p)

(* It is, when nothing has been edited.                                    *)
LEMMA NamesInit == GateInit => NamesInvariant
<1> SUFFICES ASSUME GateInit  PROVE NamesInvariant
  OBVIOUS
<1>1. base = code /\ value = baseValue
  BY DEF GateInit, Init
<1>2. Application(code)
  BY SurfaceInit DEF SurfaceInvariant
<1>3. Follows(code, code, [f \in Func |-> f])
  BY <1>2, NothingMoved
<1> QED  BY <1>1, <1>3 DEF NamesInvariant

(* A rename to a new name keeps it so; any other edit ends it.             *)
LEMMA NamesEdit ==
  ASSUME SurfaceInvariant, NamesInvariant,
         \/ \E f \in Func, def \in Def : Rewrite(f, def)
         \/ \E f, g \in Func : Rename(f, g)
         \/ \E c \in Constant, v \in Value : SetConstant(c, v)
  PROVE  NamesInvariant'
<1>1. CASE \E f \in Func, def \in Def : Rewrite(f, def)
  BY <1>1 DEF NamesInvariant, Rewrite
<1>2. CASE \E c \in Constant, v \in Value : SetConstant(c, v)
  BY <1>2 DEF NamesInvariant, SetConstant
<1>3. ASSUME NEW f \in Func, NEW g \in Func, Rename(f, g)  PROVE NamesInvariant'
  <2>1. /\ code' = Renamed(code, f, g) /\ base' = base /\ value' = value /\ baseValue' = baseValue
        /\ fresh' = (fresh /\ g \notin Defined(base)) /\ AppRenaming(code, f, g)
    BY <1>3 DEF Rename, Count, AppRenaming
  <2> SUFFICES ASSUME fresh'  PROVE value' = baseValue' /\ \E q : Follows(base', code', q)
    BY DEF NamesInvariant, Follows, MovedTo, MovedNames, At, Pairs, Used, Called, ReadBy, Defined
  <2>2. fresh /\ g \notin Defined(base)
    BY <2>1
  <2>3. value = baseValue /\ Application(base) /\ Application(code)
    BY <2>2 DEF NamesInvariant, SurfaceInvariant
  <2>4. PICK p : Follows(base, code, p)
    BY <2>2 DEF NamesInvariant
  <2> DEFINE after == Renamed(code, f, g)
             q == [h \in Func |-> Swap(f, g, p[h])]
  <2>5. Follows(base, after, q)
    BY <2>1, <2>2, <2>3, <2>4, RenameFollows
  <2> HIDE DEF after, q
  <2>6. code' = after
    BY <2>1 DEF after
  <2> QED  BY <2>1, <2>3, <2>5, <2>6
<1> QED  BY <1>1, <1>2, <1>3

(* Every step keeps it; a save with --app starts it anew.                  *)
LEMMA NamesKept == SurfaceInvariant /\ NamesInvariant /\ [GateNext]_gvars => NamesInvariant'
<1> SUFFICES ASSUME SurfaceInvariant, NamesInvariant, [GateNext]_gvars  PROVE NamesInvariant'
  OBVIOUS
<1>1. NamesInvariant' <=> (fresh' => value' = baseValue' /\ \E p : Follows(base', code', p))
  BY DEF NamesInvariant, Follows, MovedTo, MovedNames, At, Pairs, Used, Called, ReadBy, Defined
<1>2. ASSUME UNCHANGED <<code, value, base, baseValue, fresh>>  PROVE NamesInvariant'
  BY <1>1, <1>2 DEF NamesInvariant
<1>3. CASE EditSteps
  BY <1>2, <1>3 DEF EditSteps
<1>4. CASE EditApp
  BY <1>4, NamesEdit DEF EditApp
<1>5. CASE EditBodies
  BY <1>2, <1>5 DEF EditBodies, vars
<1>6. ASSUME NEW withApp \in BOOLEAN, GateDiff(withApp)  PROVE NamesInvariant'
  BY <1>2, <1>6 DEF GateDiff, Diff, vars
<1>7. ASSUME NEW withApp \in BOOLEAN, GateSave(withApp)  PROVE NamesInvariant'
  <2>1. CASE withApp
    <3>1. code' = code /\ value' = value /\ base' = code /\ baseValue' = value
      BY <1>7, <2>1 DEF GateSave
    <3>2. Follows(code, code, [f \in Func |-> f])
      BY NothingMoved DEF SurfaceInvariant
    <3> QED  BY <1>1, <3>1, <3>2
  <2>2. CASE ~withApp
    <3>1. UNCHANGED <<code, value, base, baseValue>> /\ (fresh' => fresh)
      BY <1>7, <2>2 DEF GateSave
    <3> QED  BY <1>1, <3>1 DEF NamesInvariant
  <2> QED  BY <2>1, <2>2
<1>8. CASE UNCHANGED gvars
  BY <1>2, <1>8 DEF gvars, vars
<1> QED  BY <1>3, <1>4, <1>5, <1>6, <1>7, <1>8 DEF GateNext

(* The invariant of the names holds of every story.                        *)
LEMMA NamesHold == GateSpec => [](SurfaceInvariant /\ NamesInvariant)
<1>1. GateInit => SurfaceInvariant /\ NamesInvariant
  BY SurfaceInit, NamesInit
<1>2. SurfaceInvariant /\ NamesInvariant /\ [GateNext]_gvars => (SurfaceInvariant /\ NamesInvariant)'
  BY SurfaceKept, NamesKept
<1> QED  BY <1>1, <1>2, PTL DEF GateSpec

(* Renames to new names are absorbed (the exact pass, the rename            *)
(* fingerprints and the interface pass of classify_app_changes together),  *)
(* however many functions are renamed, in whatever order, between diffs    *)
(* and saves: no site is reported as a risk, added or removed.             *)
THEOREM RenamesRaiseNoReport == GateSpec => []RenameIsAbsorbed
<1>1. SurfaceInvariant /\ NamesInvariant => RenameIsAbsorbed
  <2> SUFFICES ASSUME SurfaceInvariant, NamesInvariant, report # None, fresh, ~legacy
               PROVE  \A c \in Changes : c.status \in {"unchanged", "renamed"}
    BY DEF RenameIsAbsorbed
  <2> DEFINE old == Sites(base, baseValue)
             new == Sites(code, value)
             told(c) == [change |-> c, risk |-> PoliciesAtRisk(c)]
  <2>1. Application(base) /\ Application(code) /\ report = {told(c) : c \in ClassifyAppChanges(old, new)}
    BY DEF SurfaceInvariant, Diffed, Committed
  <2>2. \A c : told(c).change = c
    OBVIOUS
  <2> HIDE DEF told
  <2>3. Changes = ClassifyAppChanges(old, new)
    BY <2>1, <2>2 DEF Changes
  <2>4. Keyed(old) /\ Keyed(new)
    BY <2>1, SitesAreListed DEF Lists
  <2>5. value = baseValue /\ \E p : Follows(base, code, p)
    BY DEF NamesInvariant
  <2>6. \E s : Renames(s, old, new)
    BY <2>1, <2>5, SitesAreRenamed
  <2> HIDE DEF old, new
  <2> QED  BY <2>3, <2>4, <2>6, RenamesAreAbsorbed
<1> QED  BY <1>1, NamesHold, PTL
=============================================================================
