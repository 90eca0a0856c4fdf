----------------------------- MODULE AppSurface -----------------------------
(***************************************************************************)
(* behave_rv.catalog.app_surface: the emit sites of an application, the    *)
(* fingerprints of their slices, and the comparison of two versions with   *)
(* the policies each change puts at risk.                                  *)
(*                                                                         *)
(* A function is that of SourceHash with the attributes of self it loads   *)
(* and stores (of one class) and the event it constructs, if any, as       *)
(* [type, keys].  The order of the names is that of the site ids.          *)
(***************************************************************************)
EXTENDS SourceHash

CONSTANTS None,
          Func,      \* names of functions
          Constant,  \* names of module- and class-level constants
          Value,     \* their values
          Def,       \* the functions an edit can leave
          Initial,   \* the applications the catalogue was saved from
          Policy,    \* [types, keys, deadline]: what each policy observes
          MaxEdits   \* bound: edits since then

(* A function as the analysis sees it.                                     *)
IsAppFunction(fn) ==
  /\ DOMAIN fn = {"text", "calls", "reads", "gets", "sets", "event"}
  /\ fn.calls \in Seq(Nat) /\ fn.reads \in Seq(Nat)

(* The events that can be constructed.                                     *)
Events == {def.event : def \in Def} \cup UNION {{start[f].event : f \in Func} : start \in Initial}

ASSUME AppAssumption ==
  /\ IsFiniteSet(Func) /\ Func \subseteq Nat /\ Func \cap Constant = {}
  /\ \A def \in Def : IsAppFunction(def)
  /\ \A start \in Initial : DOMAIN start = Func /\ \A f \in Func : IsAppFunction(start[f])
  /\ None \notin [id : Func, event : Events]

Absent == [text |-> "none", calls |-> <<>>, reads |-> <<>>,
           gets |-> {}, sets |-> {}, event |-> None]

-----------------------------------------------------------------------------
(* The analysis.                                                           *)
Callers(code) == [f \in DOMAIN code |-> {g \in Defined(code) : f \in Called(code[g])}]

(* Mutant: the callees first, then the callers of all of them.             *)
AroundSwapped(code, seeds) == Closure(Closure(seeds, CallGraph(code)), Callers(code))

(* Who decides when and with what the seeds run, and all they call.        *)
Around(code, seeds) == Closure(Closure(seeds, Callers(code)), CallGraph(code))

(* The methods that store an attribute a member loads.                     *)
Writers(code, members) ==
  {g \in Defined(code) : code[g].sets \cap UNION {code[m].gets : m \in members} # {}}

(* slice_of: as long as one of them is not a member yet, they are seeds    *)
(* too; when all are members, no matter why, nothing is added.             *)
MoreSeeds(code, seeds) ==
  LET members == Around(code, seeds)
      writers == Writers(code, members)
  IN IF writers \subseteq members THEN seeds ELSE seeds \cup writers

Slice(code, f) ==
  LET seeds[n \in 0..Cardinality(Func)] ==
        IF n = 0 THEN {f} ELSE MoreSeeds(code, seeds[n - 1])
  IN Around(code, seeds[Cardinality(Func)])

(* own_hash and _invariant_hash: the names of calls are kept, or replaced. *)
Hash(fn, calls) ==
  <<fn.text, fn.event, fn.gets, fn.sets, calls,
    Alpha(calls \o [i \in DOMAIN fn.reads |-> <<"name", fn.reads[i]>>])>>

OwnHash(fn) == Hash(fn, [i \in DOMAIN fn.calls |-> <<"name", fn.calls[i]>>])

(* The hash with each callee of the slice replaced by its own, repeated as *)
(* often as the slice has members.                                         *)
InvariantHashes(code, members) ==
  LET refined[n \in 0..Cardinality(members)] ==
        [m \in members |->
           IF n = 0 THEN <<>>
           ELSE Hash(code[m], [i \in DOMAIN code[m].calls |->
                  LET callee == code[m].calls[i] IN
                  IF callee \in members THEN <<"slice", refined[n - 1][callee]>>
                  ELSE <<"name", callee>>])]
      inv == refined[Cardinality(members)]
  IN [h \in {inv[m] : m \in members} |-> Cardinality({m \in members : inv[m] = h})]

Site(code, value, f) ==
  LET members == Slice(code, f)
      read == Constant \cap UNION {ReadBy(code[m]) : m \in members}
      constants == [c \in read |-> value[c]]
  IN [id |-> f, interface |-> code[f].event,
      fingerprint |-> <<{OwnHash(code[m]) : m \in members}, constants>>,
      rename |-> <<InvariantHashes(code, members), constants>>]

Sites(code, value) ==
  {Site(code, value, f) : f \in {g \in Defined(code) : code[g].event # None}}

(* EmitSite.from_dict, for a catalogue older than the rename fingerprint.  *)
WithoutProof(sites) == {[s EXCEPT !.rename = <<>>] : s \in sites}

-----------------------------------------------------------------------------
(* The classification.                                                     *)
ProvenRename(o, n) == o.rename # <<>> /\ o.rename = n.rename

(* The sites are in the order of their ids.                                *)
First(sites) == CHOOSE s \in sites : \A t \in sites : s.id <= t.id

Brief(s) == [id |-> s.id, event |-> s.interface]
Change(status, o, n) == [status |-> status, old |-> Brief(o), new |-> Brief(n)]
Removed(o) == [status |-> "removed", old |-> Brief(o), new |-> None]
Added(n) == [status |-> "added", old |-> None, new |-> Brief(n)]

(* Mutant: the rename fingerprint is not consulted.                        *)
MatchedUnproven(o, n) ==
  IF o.interface # n.interface THEN Change("interface-break", o, n)
  ELSE Change(IF o.fingerprint = n.fingerprint THEN "unchanged" ELSE "behavior-risk", o, n)

(* Two sites of one id.                                                    *)
Matched(o, n) ==
  IF o.interface # n.interface THEN Change("interface-break", o, n)
  ELSE IF o.fingerprint = n.fingerprint THEN Change("unchanged", o, n)
  ELSE Change(IF ProvenRename(o, n) THEN "renamed" ELSE "behavior-risk", o, n)

(* o has been dealt with; if it takes the first good site nobody has      *)
(* claimed, that one is no longer there to claim.                          *)
Without(run, o) == [run EXCEPT !.left = @ \ {o}, !.unmatched = @ \ {o}]

Claim(run, o, good, status) ==
  LET n == First(good) IN
  [Without(run, o) EXCEPT !.unclaimed = @ \ {n}, !.changes = @ \cup {Change(status, o, n)}]

ExactPass(run, o) ==
  LET good == {n \in run.unclaimed : n.interface = o.interface /\ n.fingerprint = o.fingerprint}
  IN IF good = {} THEN [run EXCEPT !.left = @ \ {o}, !.unmatched = @ \cup {o}]
     ELSE Claim(run, o, good, "renamed")

Remove(run, o) == [Without(run, o) EXCEPT !.changes = @ \cup {Removed(o)}]

(* Mutant: a new site of the same event type will do.                      *)
InterfacePassByType(run, o) ==
  LET same == {n \in run.unclaimed : n.interface.type = o.interface.type}
      proven == {n \in same : ProvenRename(o, n)}
  IN IF same = {} THEN Remove(run, o)
     ELSE IF proven # {} THEN Claim(run, o, proven, "renamed")
     ELSE Claim(run, o, same, "behavior-risk")

(* Mutant: the claimed site stays available.                               *)
InterfacePassKeeping(run, o) ==
  LET same == {n \in run.unclaimed : n.interface = o.interface} IN
  IF same = {} THEN Remove(run, o)
  ELSE [Claim(run, o, same, "behavior-risk") EXCEPT !.unclaimed = run.unclaimed]

InterfacePass(run, o) ==
  LET same == {n \in run.unclaimed : n.interface = o.interface}
      proven == {n \in same : ProvenRename(o, n)}
  IN IF same = {} THEN Remove(run, o)
     ELSE IF proven # {} THEN Claim(run, o, proven, "renamed")
     ELSE Claim(run, o, same, "behavior-risk")

(* The sites that are gone, one by one; the first pass ends before the     *)
(* second begins.                                                          *)
Pair(run) ==
  IF run.left # {} THEN ExactPass(run, First(run.left))
  ELSE IF run.unmatched # {} THEN InterfacePass(run, First(run.unmatched))
  ELSE run

Paired(start) ==
  LET rounds == 2 * Cardinality(start.left)
      run[n \in 0..rounds] == IF n = 0 THEN start ELSE Pair(run[n - 1])
  IN run[rounds]

(* classify_app_changes.                                                   *)
Ids(sites) == {s.id : s \in sites}

Start(old, new) ==
  [left |-> {o \in old : o.id \notin Ids(new)}, unmatched |-> {},
   unclaimed |-> {n \in new : n.id \notin Ids(old)},
   changes |-> {Matched(o, CHOOSE n \in new : n.id = o.id) : o \in {s \in old : s.id \in Ids(new)}}]

ClassifyAppChanges(old, new) ==
  LET end == Paired(Start(old, new))
  IN end.changes \cup {Added(n) : n \in end.unclaimed}

Gating == {"interface-break", "removed"}
Reported == Gating \cup {"behavior-risk"}

(* policies_at_risk: None when an event type is dynamic.                   *)
SidesOf(change) == {change.old, change.new} \ {None}

(* Mutant: only the new side, when there is one.                           *)
DirectNewSide(change) ==
  LET side == IF change.new # None THEN change.new ELSE change.old IN
  {p \in Policy : side.event.type \in p.types}

Direct(change) == {p \in Policy : \E s \in SidesOf(change) : s.event.type \in p.types}

PoliciesAtRisk(change) ==
  LET site == IF change.new # None THEN change.new ELSE change.old IN
  IF \E s \in SidesOf(change) : s.event.type = "dynamic" THEN None
  ELSE [direct |-> Direct(change),
        coupled |-> {p \in Policy : p.deadline /\ p.keys = site.event.keys} \ Direct(change)]

-----------------------------------------------------------------------------
VARIABLES code,    \* the functions of the application
          value,   \* its constants
          base, baseValue,   \* both when the catalogue was saved
          legacy,  \* the catalogue has no rename fingerprints
          report,  \* what "catalog diff --app" said, None after an edit
          fresh,   \* history: all edits were renames to names base has not
          edits    \* history: their number

vars == <<code, value, base, baseValue, legacy, report, fresh, edits>>

Committed ==
  IF legacy THEN WithoutProof(Sites(base, baseValue)) ELSE Sites(base, baseValue)

Init ==
  /\ code \in Initial /\ base = code
  /\ value \in [Constant -> Value] /\ baseValue = value
  /\ legacy \in BOOLEAN
  /\ report = None
  /\ fresh = TRUE
  /\ edits = 0

Count ==
  /\ edits < MaxEdits /\ edits' = edits + 1
  /\ report' = None
  /\ UNCHANGED <<base, baseValue, legacy>>

Rewrite(f, def) ==
  /\ Count /\ def # code[f]
  /\ code' = [code EXCEPT ![f] = def]
  /\ fresh' = FALSE
  /\ UNCHANGED value

Rename(f, g) ==
  /\ Count /\ f \in Defined(code) /\ g \notin Defined(code)
  /\ \A h \in Defined(code) : g \notin Called(code[h]) \cup ReadBy(code[h])
  /\ code' = Renamed(code, f, g)
  /\ fresh' = (fresh /\ g \notin Defined(base))
  /\ UNCHANGED value

SetConstant(c, v) ==
  /\ Count /\ v # value[c]
  /\ value' = [value EXCEPT ![c] = v]
  /\ fresh' = FALSE
  /\ UNCHANGED code

(* _app_surface_diff: each change, with the policies it is reported to.    *)
Diff ==
  /\ report = None
  /\ report' = {[change |-> c, risk |-> PoliciesAtRisk(c)] :
                  c \in ClassifyAppChanges(Committed, Sites(code, value))}
  /\ UNCHANGED <<code, value, base, baseValue, legacy, fresh, edits>>

Next ==
  \/ \E f \in Func, def \in Def : Rewrite(f, def)
  \/ \E f, g \in Func : Rename(f, g)
  \/ \E c \in Constant, v \in Value : SetConstant(c, v)
  \/ Diff

Spec == Init /\ [][Next]_vars

-----------------------------------------------------------------------------
Changes == {r.change : r \in report}
Emitting(c) == {f \in Defined(c) : c[f].event # None}

(* Reference: who takes part in a run that comes to f, by way of a caller; *)
(* and in a run that comes to a function which stores an attribute such a  *)
(* function loads, without being one of them.                              *)
Reach(c, e) ==
  LET Closed(S) == e \in S /\ \A f \in S : Called(c[f]) \cap Defined(c) \subseteq S
  IN {g \in Func : \A S \in SUBSET Func : Closed(S) => g \in S}
RunsTo(c, f) == UNION {Reach(c, e) : e \in {g \in Defined(c) : f \in Reach(c, g)}}
Participants(c, f) ==
  LET run == RunsTo(c, f)
  IN run \cup UNION {RunsTo(c, w) : w \in Writers(c, run) \ run}
Texts(c, fs) == {c[f].text : f \in fs}

(* Pairing loses nothing and uses nothing twice: every old site and every  *)
(* new site is in exactly one change.                                      *)
EverySiteOnce ==
  report # None =>
    /\ \A f \in Emitting(base) :
         Cardinality({c \in Changes : c.old # None /\ c.old.id = f}) = 1
    /\ \A f \in Emitting(code) :
         Cardinality({c \in Changes : c.new # None /\ c.new.id = f}) = 1

(* No emission disappears without a break: unless the diff fails, every    *)
(* interface is constructed at as many sites as before, wherever they are  *)
(* now.                                                                    *)
NoBreakKeepsInterfaces ==
  (report # None /\ \A c \in Changes : c.status \notin Gating) =>
    \A i \in {base[f].event : f \in Emitting(base)} :
      Cardinality({f \in Emitting(base) : base[f].event = i})
        <= Cardinality({f \in Emitting(code) : code[f].event = i})

(* "An event type that changed value must alert the policies observing the *)
(* OLD type": a type no site constructs any more reaches its observers, as *)
(* a break, or as one that cannot be scoped.                               *)
LostTypeReachesObservers ==
  report # None =>
    \A f \in Emitting(base), p \in Policy :
      (/\ base[f].event.type \in p.types
       /\ \A g \in Emitting(code) : code[g].event.type # base[f].event.type)
      => \E r \in report :
           r.change.status \in Gating /\ (r.risk = None \/ p \in r.risk.direct)

(* Renames to new names are absorbed, however many functions are renamed.  *)
RenameIsAbsorbed ==
  (report # None /\ fresh /\ ~legacy) =>
    \A c \in Changes : c.status \in {"unchanged", "renamed"}

(* When a text the application did not have takes part in a run that comes *)
(* to an emission, or in one that stores what such a run loads, or one it  *)
(* had is gone, the site is reported.  Of a writer that the emission's own *)
(* run calls too, the other callers are not meant: the next property.      *)
NewTextIsReported ==
  report # None =>
    \A c \in {d \in Changes : d.old # None /\ d.new # None /\ d.status \notin Reported} :
      /\ Texts(code, Participants(code, c.new.id)) \subseteq Texts(base, Func)
      /\ Texts(base, Participants(base, c.old.id)) \subseteq Texts(code, Func)

(* The docstring of slice_of (app_surface.py:424-426): "every method that  *)
(* ASSIGNS a self-attribute some member reads, which then gets the same    *)
(* caller/callee treatment", those the emission's own run calls included.  *)
WriterRunsAreReported ==
  report # None =>
    \A c \in {d \in Changes : d.old # None /\ d.new # None /\ d.status \notin Reported} :
      \A w \in Writers(code, RunsTo(code, c.new.id)) :
        Texts(code, RunsTo(code, w)) \subseteq Texts(base, Func)

(* "Precision is lost only toward over-approximation -- extra warnings,    *)
(* never missed ones" (app_surface.py:22-23): without a report, every      *)
(* caller of an emission does what it did.                                 *)
SilenceMeansSafe ==
  (report # None /\ \A c \in Changes : c.status = "unchanged") =>
    \A f \in Emitting(code) :
      \A e \in {g \in Defined(code) \cap Defined(base) : f \in Reach(code, g)} :
        Behaviour(code, value, e) = Behaviour(base, baseValue, e)

(* "What remains is genuinely removed or added" (app_surface.py, docstring *)
(* of classify_app_changes): a site reported as removed is not one whose   *)
(* rename the fingerprints prove.                                          *)
RemovedIsGone ==
  report # None =>
    \A c \in {d \in Changes : d.status = "removed"} :
      \A n \in Sites(code, value) : \A o \in {s \in Committed : s.id = c.old.id} :
        (n.id \notin Emitting(base) /\ n.interface = o.interface) => ~ProvenRename(o, n)

(* "Any change to the entity's event flow can move its verdict" (docstring *)
(* of policies_at_risk): a deadline policy on the key of a site whose      *)
(* emissions are lost to it is at risk.                                    *)
LostFlowReachesDeadlines ==
  report # None =>
    \A r \in {s \in report : s.change.status \in Gating /\ s.risk # None} :
      \A p \in {q \in Policy : q.deadline /\ q.keys = r.change.old.event.keys} :
        p \in r.risk.direct \cup r.risk.coupled
=============================================================================
