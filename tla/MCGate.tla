------------------------------- MODULE MCGate -------------------------------
(***************************************************************************)
(* The registry: two step ids, two step texts and three phrasings, one of  *)
(* which has a placeholder and matches both texts; two behaviours under    *)
(* one key and a step of another key; two scenarios in one file, one in    *)
(* another.  The bodies: a predicate (1), helpers (2, 3) that may call     *)
(* each other and themselves, a name to rename to (4), two constants       *)
(* (11, 12) and an unresolvable callee (9).  The application: three        *)
(* functions and a free name: callers, functions that construct an event,  *)
(* functions that store an attribute an emitting one loads, an             *)
(* unresolvable callee (9), a constant (11).                               *)
(***************************************************************************)
EXTENDS Gate

MCMatches == [paid |-> {"t1"}, authorized |-> {"t2"}, any |-> {"t1", "t2"}]
Sig(key, body) == [key |-> key, body |-> body]
MCStep ==
  {[phrasing |-> ph, signature |-> Sig("k1", b), aliases |-> a] :
     ph \in DOMAIN MCMatches, b \in {"b1", "b2"}, a \in {{}, {"paid"}, {"authorized"}}}
  \cup {[phrasing |-> "authorized", signature |-> Sig("k2", "b1"), aliases |-> {}]}
MCScenario == {[file |-> "F", texts |-> {"t1", "t2"}], [file |-> "F", texts |-> {"t2"}],
               [file |-> "G", texts |-> {"t1"}]}
MCSolo == {[file |-> "G", texts |-> {"t1"}]}

Plain(phrasing, body) == [phrasing |-> phrasing, signature |-> Sig("k1", body), aliases |-> {}]
Two == [s1 |-> Plain("paid", "b1"), s2 |-> Plain("authorized", "b2")]
One == [s1 |-> Plain("any", "b1"), s2 |-> None]
MCInitialRegistry == {Two, One}

Fn(text, calls, reads) == [text |-> text, calls |-> calls, reads |-> reads]
MCBody ==
  {Fn("and not", <<x, y>>, <<>>) : x, y \in {2, 3}}
  \cup {Fn("between", <<>>, <<x, y>>) : x, y \in {11, 12}}
  \cup {Fn("is paid", <<>>, <<>>), Fn("is refunded", <<>>, <<>>), Fn("is known", <<9>>, <<>>),
        Fn("is part", <<2>>, <<>>), Fn("is part", <<3>>, <<>>), NoFunction}

Bodies(one, two, three) == <<one, two, three, NoFunction>>
HelpersApart == Bodies(Fn("and not", <<2, 3>>, <<>>), Fn("is paid", <<>>, <<>>), Fn("is refunded", <<>>, <<>>))
MCInitialBodies ==
  {HelpersApart,
   Bodies(Fn("is part", <<2>>, <<>>), Fn("is part", <<3>>, <<>>), Fn("between", <<>>, <<11, 12>>)),
   Bodies(Fn("is part", <<3>>, <<>>), Fn("is known", <<9>>, <<>>), Fn("is part", <<3>>, <<>>))}

Order == [type |-> "order", keys |-> {"o"}]
OrderByUser == [type |-> "order", keys |-> {"u"}]
Audit == [type |-> "audit", keys |-> {"o"}]
Computed == [type |-> "dynamic", keys |-> {"o"}]

Caller(text, calls) == [Absent EXCEPT !.text = text, !.calls = calls]
Emitter(text, event) == [Absent EXCEPT !.text = text, !.event = event]
Writer(text) == [Absent EXCEPT !.text = text, !.sets = {"rate"}]
Loading(def) == [def EXCEPT !.gets = {"rate"}]
Limited(def) == [def EXCEPT !.reads = <<11>>]

MCDef ==
  {Absent, Caller("main", <<2, 3>>), Caller("main", <<3>>), Caller("main", <<2, 9>>),
   Emitter("paid", Order), Emitter("refunded", Order), Emitter("paid", OrderByUser),
   Emitter("paid", Audit), Emitter("paid", Computed),
   Limited(Loading(Emitter("paid", Order))), Writer("init"), Writer("tune"), Caller("tune", <<>>),
   Caller("reset", <<4>>)}

App(one, two, three, four) == <<one, two, three, four>>
MCHomeApp == App(Caller("main", <<2, 3>>), Emitter("paid", Order), Emitter("refunded", Order), Absent)
MCOneSite == App(Caller("main", <<2>>), Limited(Loading(Emitter("paid", Order))), Absent, Writer("init"))
MCWriterApp ==
  App(Caller("main", <<2, 4>>), Loading(Emitter("paid", Order)), Caller("admin", <<4>>), Writer("init"))
MCInitialApps ==
  {MCHomeApp, MCOneSite,
   App(Absent, Emitter("paid", Order), Emitter("paid", Audit), Emitter("paid", Order))}
MCUntrueApps == MCInitialApps \cup {MCWriterApp}

MCPolicy == {[types |-> {"order"}, keys |-> {"o"}, deadline |-> FALSE],
             [types |-> {"audit"}, keys |-> {"o"}, deadline |-> TRUE]}
=============================================================================
