---------------------------- MODULE StepRegistry ----------------------------
(***************************************************************************)
(* behave_rv.catalog.registry.StepRegistry as a value, and what the        *)
(* statements of a steps module do to it.                                  *)
(*                                                                         *)
(* A text is a sequence of words; a phrasing may have one placeholder.  An *)
(* entry is [id, kind, phrasing, signature, func, observed] (the entry and *)
(* the function of an id are set together), a signature [type, key,        *)
(* print]: event type, correlation key and all that is derived from the    *)
(* function.  An operation that may raise yields [reg, ok].                *)
(***************************************************************************)
EXTENDS Naturals, SequencesExt

CONSTANT Blank   \* the placeholder of a phrasing

EmptyRegistry == [entries |-> <<>>, aliases |-> <<>>]
Returns(reg) == [reg |-> reg, ok |-> TRUE]
Raises(reg)  == [reg |-> reg, ok |-> FALSE]

Ids(reg) == {reg.entries[i].id : i \in DOMAIN reg.entries}
EntryOf(reg, id) == reg.entries[CHOOSE i \in DOMAIN reg.entries : reg.entries[i].id = id]

-----------------------------------------------------------------------------
(* register(): the same step again is no change, another step under a      *)
(* known id is refused.                                                    *)
SameStep(a, b) == a.kind = b.kind /\ a.phrasing = b.phrasing /\ a.signature = b.signature

(* Mutant: what is known is not compared.                                  *)
RegisterUncompared(reg, entry) ==
  IF entry.id \in Ids(reg) THEN Returns(reg)
  ELSE Returns([reg EXCEPT !.entries = Append(@, [entry EXCEPT !.observed = FALSE])])

(* Mutant: the later definition wins.                                      *)
RegisterReplacing(reg, entry) ==
  Returns([reg EXCEPT !.entries =
    Append(SelectSeq(@, LAMBDA e : e.id # entry.id), [entry EXCEPT !.observed = FALSE])])

Register(reg, entry) ==
  IF entry.id \notin Ids(reg)
  THEN Returns([reg EXCEPT !.entries = Append(@, [entry EXCEPT !.observed = FALSE])])
  ELSE IF SameStep(EntryOf(reg, entry.id), entry) THEN Returns(reg)
  ELSE Raises(reg)

(* alias(): of a known id only; a repeated one is kept twice.              *)
Alias(reg, alias) ==
  IF alias.id \notin Ids(reg) THEN Raises(reg)
  ELSE Returns([reg EXCEPT !.aliases = Append(@, alias)])

AliasOnce(reg, alias) ==
  IF alias \in ToSet(reg.aliases) THEN Returns(reg) ELSE Alias(reg, alias)

(* The first that raises ends a sequence of operations; what was done      *)
(* before it stays done.                                                   *)
InTurn(Op(_, _), reg, args) ==
  LET after[n \in 0 .. Len(args)] ==
        IF n = 0 THEN Returns(reg)
        ELSE IF after[n - 1].ok THEN Op(after[n - 1].reg, args[n])
        ELSE after[n - 1]
  IN after[Len(args)]

(* Mutant: the entries only.                                               *)
CopyEntries(source, target) == InTurn(Register, target, source.entries)

(* copy_into(): the entries in their order, then the aliases.              *)
CopyInto(source, target) ==
  LET copied == InTurn(Register, target, source.entries)
  IN IF copied.ok THEN InTurn(AliasOnce, copied.reg, source.aliases) ELSE copied

(* mark_observed(): the flag, and the entries that still lack it.          *)
MarkObserved(reg, types) ==
  LET mark(e) == [e EXCEPT !.observed = @ \/ e.signature.type \in types]
  IN [reg EXCEPT !.entries = [i \in DOMAIN @ |-> mark(@[i])]]
Unobserved(reg) == {e \in ToSet(reg.entries) : ~e.observed}

-----------------------------------------------------------------------------
(* parse.parse(phrasing, text): the placeholder stands for any text that   *)
(* is not empty.                                                           *)
With(phrasing, filler) ==
  FlattenSeq([i \in DOMAIN phrasing |-> IF phrasing[i] = Blank THEN filler ELSE <<phrasing[i]>>])
Parts(text) == {SubSeq(text, i, j) : i, j \in DOMAIN text} \ {<<>>}
Fillers(phrasing, text) ==
  IF Blank \in ToSet(phrasing) THEN {f \in Parts(text) : With(phrasing, f) = text}
  ELSE IF phrasing = text THEN {<<>>} ELSE {}

(* [x for x in s if ...], given the places of what is kept.  (SelectSeq    *)
(* has no definition that a proof could expand.)                           *)
Chosen(s, places) ==
  LET kept[n \in 0 .. Len(s)] ==
        IF n = 0 THEN <<>>
        ELSE IF n \in places THEN Append(kept[n - 1], s[n]) ELSE kept[n - 1]
  IN kept[Len(s)]

(* resolve(): one resolution for each id of which a phrasing matches, by   *)
(* the first that does.                                                    *)
Phrasings(reg, entry) ==
  LET mine == Chosen(reg.aliases, {i \in DOMAIN reg.aliases : reg.aliases[i].id = entry.id})
  IN <<entry.phrasing>> \o [i \in DOMAIN mine |-> mine[i].phrasing]

Resolution(entry, phrasing, text) ==
  [step |-> entry.id, func |-> entry.func, signature |-> entry.signature,
   phrasing |-> phrasing, filler |-> CHOOSE f \in Fillers(phrasing, text) : TRUE]

Resolve(reg, text) ==
  UNION {LET all == Phrasings(reg, e)
             matching == {i \in DOMAIN all : Fillers(all[i], text) # {}}
         IN IF matching = {} THEN {}
            ELSE {Resolution(e, all[CHOOSE i \in matching : \A j \in matching : i <= j], text)} :
         e \in ToSet(reg.entries)}

-----------------------------------------------------------------------------
(* The statements of a steps module: the decorators and alias().           *)
Statement(reg, s) ==
  CASE s.do = "register" -> Register(reg, s.arg)
    [] s.do = "alias"    -> Alias(reg, s.arg)

Executed(reg, statements) == InTurn(Statement, reg, statements)

(* __main__._load_steps_module: the statements of the import, and when     *)
(* these left the registry empty, those of build_registry(), run in a      *)
(* registry of its own and copied in.                                      *)
Load(module, target) ==
  LET imported == Executed(target, module.imports)
      built == Executed(EmptyRegistry, module.builds)
  IN IF ~imported.ok \/ imported.reg.entries # <<>> THEN imported
     ELSE IF ~built.ok THEN Raises(imported.reg)
     ELSE CopyInto(built.reg, imported.reg)
=============================================================================
