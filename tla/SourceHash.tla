----------------------------- MODULE SourceHash -----------------------------
(***************************************************************************)
(* The normalised hash of a function (catalog/condition.py: _Alpha,        *)
(* _stable_dump) and what the two fingerprints build on it.                *)
(*                                                                         *)
(* A function is [text, calls, reads]: the names it calls and the other    *)
(* names it reads, each in order, and as "text" all that normalisation     *)
(* keeps (shape, literals, attribute names).  Names are numbers.           *)
(***************************************************************************)
EXTENDS Naturals, Sequences, FiniteSets

Called(fn) == {fn.calls[i] : i \in DOMAIN fn.calls}
ReadBy(fn) == {fn.reads[i] : i \in DOMAIN fn.reads}

(* _Alpha.visit_Name: a name stands for the place it first occurs at.      *)
Alpha(names) ==
  [i \in DOMAIN names |->
     CHOOSE j \in 1..i : names[j] = names[i] /\ \A k \in 1..(j - 1) : names[k] # names[i]]

(* The members of graph, [name -> set of names], that seeds reach.         *)
Closure(seeds, graph) ==
  LET Nodes == DOMAIN graph
      grown[n \in 0..Cardinality(Nodes)] ==
        IF n = 0 THEN seeds ELSE grown[n - 1] \cup UNION {graph[f] : f \in grown[n - 1]}
  IN grown[Cardinality(Nodes)]

Defined(code) == {f \in DOMAIN code : code[f].text # "none"}
NoFunction == [text |-> "none", calls |-> <<>>, reads |-> <<>>]

(* The calls that name a function of the code.                             *)
CallGraph(code) == [f \in DOMAIN code |-> Called(code[f]) \cap Defined(code)]

-----------------------------------------------------------------------------
(* What a call of f does, the names of functions and constants forgotten:  *)
(* the reference the fingerprints are judged by.                           *)
Behaviour(code, value, f) ==
  LET depth == Cardinality(Defined(code))
      unfold[n \in 0..depth] ==
        LET Target(name) ==
              IF name \in DOMAIN value THEN <<"constant", value[name]>>
              ELSE IF name \in Defined(code) /\ n > 0 THEN <<"function", unfold[n - 1][name]>>
              ELSE <<"other", IF name \in Defined(code) THEN 0 ELSE name>>
        IN [g \in Defined(code) |->
              <<code[g].text, [i \in DOMAIN code[g].calls |-> Target(code[g].calls[i])],
                [i \in DOMAIN code[g].reads |-> Target(code[g].reads[i])]>>]
  IN unfold[depth][f]

(* code with the function f called g everywhere; g is not in use.          *)
Renamed(code, f, g) ==
  LET New(name) == IF name = f THEN g ELSE name
      Rewritten(fn) == [fn EXCEPT !.calls = [i \in DOMAIN @ |-> New(@[i])],
                                  !.reads = [i \in DOMAIN @ |-> New(@[i])]]
  IN [h \in DOMAIN code |->
        IF h = g THEN Rewritten(code[f]) ELSE IF h = f THEN code[g] ELSE Rewritten(code[h])]
=============================================================================
