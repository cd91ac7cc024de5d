--------------------------- MODULE MCRuleLibrary ---------------------------
(***************************************************************************)
(* Instances of RuleLibrary for TLC: one foundation rule and one of the    *)
(* team's own, and analysts who write rules that refer to one another, or  *)
(* take a name that is taken.                                              *)
(***************************************************************************)
EXTENDS RuleLibrary, TLC

Text(name, refs) == [name |-> name, refs |-> refs]

Imported == 1 :> [layer |-> "foundation", text |-> Text("upstream", {})]
OneOwn == Imported @@ 2 :> [layer |-> "own", text |-> Text("mine", {})]

Written == {Text("mine", {"upstream"}), Text("other", {"mine"})}

Everything == [layers |-> Layers, rules |-> {}]
Named == [layers |-> {}, rules |-> {1, 2}]
Choices == {Everything, Named}

\* No request is told from another but by what it asks.
Interchangeable == Permutations(Writers) \cup Permutations(Freezers)
=============================================================================
