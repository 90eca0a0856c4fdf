---------------------------- MODULE MCAuthoring ----------------------------
(***************************************************************************)
(* Five steps modules: import style and build_registry() style, other      *)
(* versions of one id, aliases, a placeholder that makes a text ambiguous, *)
(* and two that raise half-way.  Scenarios: every text of up to three      *)
(* words and chosen longer ones in a Then, and every layout of up to two   *)
(* Given, two When and two Then over a few texts.                          *)
(***************************************************************************)
EXTENDS Authoring, TLC


Reg(id, phrasing, type, key, print) ==
  [do |-> "register",
   arg |-> [id |-> id, kind |-> "trigger", phrasing |-> phrasing, func |-> <<id, print>>,
            signature |-> [type |-> type, key |-> key, print |-> print], observed |-> FALSE]]
Also(id, phrasing) == [do |-> "alias", arg |-> [id |-> id, phrasing |-> phrasing]]

Paid == Reg("s1", <<"paid">>, "order", "o", "v1")
Open == Reg("s2", <<"open">>, "order", "o", "v1")
Login == Reg("s3", <<"login">>, "session", "u", "v1")
Is == Reg("s4", <<"is", Blank>>, "status", "o", "v1")

Words == [imports |-> <<Paid, Open, Login, Also("s1", <<"settled">>)>>, builds |-> <<>>]
Values == [imports |-> <<>>, builds |-> <<Is, Paid, Also("s4", <<"was", Blank>>), Also("s1", <<"is", "paid">>)>>]
NewPaid == [imports |-> <<>>,
            builds |-> <<Reg("s1", <<"settled">>, "order", "o", "v2"), Also("s1", <<"paid">>)>>]
Conflict == [imports |-> <<Is, Reg("s2", <<"open">>, "order", "o", "v2"), Open>>, builds |-> <<>>]
EarlyAlias == [imports |-> <<Login, Also("s1", <<"settled">>), Paid>>, builds |-> <<>>]

MCModule == {Words, Values, NewPaid, Conflict, EarlyAlias}
MCWindow == ("within 2" :> 2) @@ ("within inf" :> Infinite)

Scenario(name, steps) == [name |-> name, steps |-> steps]
Then(text) == Line("then", text)
One(scenario) == <<scenario>>

Lexicon == {"paid", "open", "login", "settled", "since", "until", "never happens", "has happened",
            "always holds", "previously", "before", "within 2", "within inf"}
ThenTexts ==
  UNION {[1..n -> Lexicon] : n \in 1..3}
  \cup {<<"paid", "since", "open", w>> : w \in Lexicon}
  \cup {<<"paid", "since", "open", "since", w>> : w \in {"open", "before"}}
OnlyThen == {<<Then(t)>> : t \in ThenTexts}

(* The layouts.                                                            *)
UpTo2(type, texts) == {<<>>} \cup {<<Line(type, t)>> : t \in texts}
                      \cup {<<Line(type, t), Line(type, t)>> : t \in {<<"paid">>, <<"open", "never happens">>} \cap texts}
Givens == UpTo2("given", {<<"paid">>, <<"login">>, <<"paid", "until", "open">>, <<"settled", "until", "login">>,
                          <<"paid", "until">>, <<"open", "until", "paid", "until", "open">>})
Whens == UpTo2("when", {<<"paid">>, <<"open">>, <<"login">>, <<"unknown">>})
Thens == UpTo2("then", {<<"open", "never happens">>, <<"settled", "has happened">>, <<"open", "since", "paid">>,
                        <<"paid", "before">>, <<"open", "previously">>, <<"open", "within 2">>, <<"open", "within inf">>})
Layouts == {t \o g \o w : g \in Givens, w \in Whens, t \in Thens} \cup {g \o w \o t : g \in Givens, w \in Whens, t \in Thens}

Wide == {One(Scenario("A", s)) : s \in OnlyThen \cup (Layouts \ {<<>>})}

(* With a placeholder; and files of two scenarios.                         *)
Valued == {One(Scenario("A", <<Then(t)>>)) : t \in
  {<<"is", v, "never happens">> : v \in {"paid", "sent"}}
  \cup {<<"was", "sent", "since", "paid">>, <<"paid", "since", "is", "sent">>, <<"is", "sent", "has happened">>}}
Nested == {One(Scenario("A", <<Then(<<"is", "sent", "since", "is", "lost", "has happened">>)>>))}
Pairs == {<<Scenario("A", <<Then(<<"paid", "never happens">>)>>), Scenario(n, <<Then(t)>>)>> :
            n \in {"A", "B"}, t \in {<<"open", "has happened">>, <<"login", "before">>, <<"is", "sent", "has happened">>}}
Narrow == Valued \cup Nested \cup Pairs

Ev(type, value) == [type |-> type, value |-> value]
Quiet == {Ev("order", None), Ev("status", <<"sent">>)}
MCTrace == {Quiet, {Ev("session", None), Ev("status", <<"lost">>), Ev("order", <<"sent">>)}}

Commands(names, modules, features, traces) ==
  [name : names, module : modules, feature : features, trace : traces]
MCCommand(n) ==
  IF n = 1 THEN Commands({"diff"}, {Words}, Wide, {Quiet})
                \cup Commands({"run", "save", "diff"}, MCModule, Narrow, MCTrace)
  ELSE IF n <= 3 THEN Commands({"run", "save", "diff"}, MCModule, Pairs, MCTrace)
  ELSE {}
=============================================================================
