-------------------------------- MODULE Gate --------------------------------
(***************************************************************************)
(* "catalog diff --app" and "catalog save" as a whole, and the contract    *)
(* check of the dashboard: what the steps register (CatalogReview), what a *)
(* step predicate tests (StepCondition) and where the application emits    *)
(* (AppSurface), compared with one committed catalogue.                    *)
(*                                                                         *)
(* A change touches one part, or the registry and the application; the     *)
(* other parts stay as they are at home.                                   *)
(***************************************************************************)
EXTENDS AppSurface

CONSTANTS StepId, Matches, Step, Scenario, InitialRegistry, HomeRegistry, MaxStepEdits,
          StepFunc, Pred, StepConstant, StepValue, Body, InitialBodies, HomeBodies, MaxBodyEdits,
          HomeApp,
          Parts   \* what a change may touch: "steps", "bodies", "app", "both" (steps and app)

VARIABLES part,      \* what the change touches
          section,   \* the catalogue has an app_surface section
          registry, committed, review, stepEdits, registryBase, believed, rewired,
          bodies, bodyValue, bodiesBase, bodyBaseValue, names, bodyEdits

Steps == INSTANCE CatalogReview WITH
  Policy <- Scenario, Initial <- InitialRegistry, MaxEdits <- MaxStepEdits,
  code <- registry, edits <- stepEdits, base <- registryBase

Condition == INSTANCE StepCondition WITH
  Func <- StepFunc, Constant <- StepConstant, Value <- StepValue, Initial <- InitialBodies,
  MaxEdits <- MaxBodyEdits, code <- bodies, value <- bodyValue, base <- bodiesBase,
  baseValue <- bodyBaseValue, edits <- bodyEdits

stepVars == <<registry, committed, review, stepEdits, registryBase, believed, rewired>>
bodyVars == <<bodies, bodyValue, bodiesBase, bodyBaseValue, names, bodyEdits>>
gvars == <<part, section, vars, stepVars, bodyVars>>

ASSUME GateAssumption ==
  /\ Steps!StepAssumption /\ Condition!FuncAssumption
  /\ HomeRegistry \in InitialRegistry /\ HomeBodies \in InitialBodies /\ HomeApp \in Initial

Touches ==
  [steps |-> part \in {"steps", "both"}, bodies |-> part = "bodies", app |-> part \in {"app", "both"}]

GateInit ==
  /\ part \in Parts
  /\ Init /\ (part # "app" => code = HomeApp /\ ~legacy)
  /\ Steps!Init /\ (part # "steps" => registry = HomeRegistry)
  /\ Condition!Init /\ (part # "bodies" => bodies = HomeBodies)
  /\ \A c \in StepConstant, d \in Constant :
       /\ part # "bodies" => bodyValue[c] = CHOOSE v \in StepValue : TRUE
       /\ part # "app" => value[d] = CHOOSE v \in Value : TRUE
  /\ section = Touches.app

-----------------------------------------------------------------------------
(* Bound: a change of two parts edits each once, a step without giving it  *)
(* aliases and the application in what it emits.                           *)
Once(n) == part = "both" => n = 0
Narrow(small) == part = "both" => small

EditSteps ==
  /\ Touches.steps /\ Once(stepEdits)
  /\ \E id \in StepId, step \in Step \cup {None} :
       Steps!Edit(id, step) /\ Narrow(step # None => step.aliases = {})
  /\ report' = None
  /\ UNCHANGED <<part, section, bodyVars, code, value, base, baseValue, legacy, fresh, edits>>

EditApp ==
  /\ Touches.app /\ Once(edits)
  /\ \/ \E f \in Func, def \in Def : Rewrite(f, def) /\ Narrow(def = Absent \/ def.event # None)
     \/ \E f, g \in Func : Rename(f, g) /\ Narrow(FALSE)
     \/ \E c \in Constant, v \in Value : SetConstant(c, v) /\ Narrow(FALSE)
  /\ review' = None
  /\ UNCHANGED <<part, section, bodyVars,
                 registry, committed, stepEdits, registryBase, believed, rewired>>

EditBodies ==
  /\ Touches.bodies
  /\ Condition!Next
  /\ UNCHANGED <<part, section, vars, stepVars>>

(* catalog diff, with --app or without, of a catalogue it can read; of one *)
(* without an app_surface section, no site is compared.                    *)
GateDiff(withApp) ==
  /\ ~Touches.bodies /\ withApp = Touches.app
  /\ Steps!Diff
  /\ IF withApp /\ section THEN Diff ELSE UNCHANGED vars
  /\ UNCHANGED <<part, section, bodyVars>>

(* catalog save, with --app or without: the file is written anew, and      *)
(* without --app it has no app_surface section.                            *)
GateSave(withApp) ==
  /\ Touches.steps /\ (withApp => Touches.app)
  /\ Steps!Save
  /\ section' = withApp
  /\ report' = None
  /\ base' = (IF withApp THEN code ELSE base) /\ baseValue' = (IF withApp THEN value ELSE baseValue)
  /\ legacy' = (legacy /\ ~withApp) /\ fresh' = (fresh \/ withApp)
  /\ UNCHANGED <<part, code, value, edits, bodyVars>>

GateNext ==
  \/ EditSteps \/ EditApp \/ EditBodies
  \/ \E withApp \in BOOLEAN : GateDiff(withApp) \/ GateSave(withApp)

GateSpec == GateInit /\ [][GateNext]_gvars

-----------------------------------------------------------------------------
(* The verdict of the command and of the page.                             *)
InBucket(statuses) == IF report # None THEN {r \in report : r.change.status \in statuses} ELSE {}

(* catalog_diff_command and _app_surface_diff: the exit code.              *)
ExitCode(failOnAppRisk) ==
  LET failures == review.breaks \cup InBucket(Gating)
                    \cup (IF failOnAppRisk THEN InBucket({"behavior-risk"}) ELSE {})
  IN IF failures = {} THEN 0 ELSE 1

(* Mutant: the page has no bucket for the sites that are gone.             *)
PageBreaksKept == InBucket({"interface-break"})

(* Dashboard._check_app_surface: the sites the page shows as broken.       *)
PageBreaks == InBucket(Gating)

(* _check_stability: the steps each running policy lost, as                *)
(* notifications() finds them, and the colour of the strip.                *)
PageStepBreaks ==
  {b \in [to : Scenario, step : Steps!Moved(committed, registry)] :
     b.step \in Steps!UsedStepIds(registry, b.to)}

PageStatus ==
  IF PageStepBreaks # {} \/ PageBreaks # {} THEN "breaks"
  ELSE IF InBucket({"behavior-risk"}) # {} THEN "risks" ELSE "ok"

-----------------------------------------------------------------------------
(* "Same mechanism as catalog diff --app" (dashboard.py:61-62): when the    *)
(* policies compile, so that the monitored application runs at all, its    *)
(* page is red when the command fails, amber when it fails only with       *)
(* --fail-on-app-risk, and names the same policies and steps.              *)
PageAgreesWithGate ==
  (review # None /\ \A p \in Scenario : Steps!FileCompiles(registry, p.file)) =>
    /\ PageStepBreaks = review.breaks
    /\ PageStatus = "breaks" <=> ExitCode(FALSE) = 1
    /\ PageStatus = "risks" <=> (ExitCode(FALSE) = 0 /\ ExitCode(TRUE) = 1)

(* "A policy that no longer compiles IS a stability failure"               *)
(* (__main__.py:200): then the command does not exit with 0.               *)
UncompilableGates == (review # None /\ review.uncompilable # {}) => ExitCode(FALSE) = 1

(* "A core-code change that can affect the monitor shows": what            *)
(* NoBreakKeepsInterfaces says of a diff, over a story of changes, diffs   *)
(* and saves: while the command exits with 0, every interface of the       *)
(* application last saved with --app is still constructed.                 *)
ExitKeepsInterfaces ==
  (review # None /\ Touches.app /\ ExitCode(FALSE) = 0) =>
    \A f \in Emitting(base) : \E g \in Emitting(code) : code[g].event = base[f].event

(* The properties of the parts; those of the bodies say nothing while the  *)
(* bodies stay as they are.                                                *)
SameIdsSameMeaning == Steps!SameIdsSameMeaning
NoSilentDrift == Steps!NoSilentDrift
RewordingIsAbsorbed == Steps!RenameIsAbsorbed
RenameIsSilent == Touches.bodies => Condition!RenameIsSilent
NewTextIsSeen == Touches.bodies => Condition!NewTextIsSeen
SilentKeepsCondition == Touches.bodies => Condition!SilentKeepsCondition
=============================================================================
