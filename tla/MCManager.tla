------------------------------ MODULE MCManager ------------------------------
(* A secret cut in two shares and a mask.  An expression is a sum of symbols, *)
(* the set of the symbols it adds.                                            *)
EXTENDS Manager

Shares == {"s0", "s1"}
Symbols == Shares \union {"m"}
MCNode == {n : n \in SUBSET Symbols}
MCConst == {{}}
MCXor(a, b) == (a \ b) \union (b \ a)

\* The sums of the expressions of S that no mask hides
Sum(T) == {x \in Symbols : Cardinality({n \in T : x \in n}) % 2 = 1}
Seen(S) == {Sum(T) : T \in SUBSET S} \intersect SUBSET Shares

\* TPS: the secret does not show.  SNI and NI at the order of one: what shows
\* needs at most 1 (less the outputs) share.
MCSecure(property, S, outputs) ==
  CASE property = "TPS" -> Shares \notin Seen(S)
    [] property = "NI"  -> \A n \in Seen(S) : Cardinality(n) <= 1
    [] property = "SNI" -> \A n \in Seen(S) : Cardinality(n) + outputs <= 1

\* The concrete simulation runs with s0 = 1, s1 = 0, m = 0
Bit(n) == "s0" \in n
Plain(n) == [expr |-> n, ls |-> {n} \ MCConst, curr |-> Bit(n)]
AllShown == {Plain({}), Plain({"s0"}), Plain({"s1"}), Plain({"s0", "m"}),
             [expr |-> {"s0", "m"}, ls |-> {{"s0", "m"}, {"m"}}, curr |-> TRUE]}
FewShown == {Plain({}), Plain({"s0"}), Plain({"s1"})}

NoMux(wires) == [w \in wires |-> [a |-> {}, b |-> {}]]

\* Two wires; the gate that drives the register r reads x
Values == [
  wires |-> {"r", "x"}, cells |-> {}, regs |-> {"r"}, outputs |-> {},
  topology |-> [w \in {"r", "x"} |-> IF w = "r" THEN {"x"} ELSE {}],
  mux |-> NoMux({"r", "x"}), shown |-> FewShown,
  checks |-> Kinds, property |-> "TPS", approx |-> TRUE, force |-> FALSE,
  skip |-> 0, cycles |-> 100, exit |-> FALSE, order |-> 1, type |-> "SPATIAL",
  convergence |-> {TRUE}, commits |-> 3]

\* A memory cell, glitches, and transitions from the stable value
Memory == [Values EXCEPT
  !.wires = {"w"}, !.cells = {"c"}, !.regs = {"w"},
  !.topology = [w \in {"w"} |-> {}], !.mux = NoMux({"w"}), !.shown = AllShown, !.approx = FALSE]

\* The output r selects a mux whose port A reads x; the first cycle is skipped
Sni == [Values EXCEPT
  !.outputs = {"r"}, !.topology = [w \in {"r", "x"} |-> {}],
  !.mux = [w \in {"r", "x"} |-> [a |-> IF w = "r" THEN {"x"} ELSE {}, b |-> {}]],
  !.checks = {"vwog", "vwg"}, !.property = "SNI", !.skip = 1]

\* Pairs among three wires, one of them an output
Spatial == [Values EXCEPT
  !.wires = {"r", "x", "y"}, !.outputs = {"r"},
  !.topology = [w \in {"r", "x", "y"} |-> {}], !.mux = NoMux({"r", "x", "y"}),
  !.checks = {"vwog", "vwg"}, !.property = "SNI", !.order = 2, !.commits = 2]

\* Pairs and triples of up to five cycles of one wire
Temporal(order) == [Memory EXCEPT
  !.cells = {}, !.shown = {Plain({"s0"}), Plain({"s1"})},
  !.checks = {"vwog", "vwg"}, !.property = "NI", !.order = order, !.type = "TEMPORAL",
  !.commits = 5]

MCSetups == {Values, Memory, Sni, Spatial, Temporal(2), Temporal(3)}
MCSkip == {[Values EXCEPT !.skip = 2]}
MCTemporalSkip == {[Temporal(2) EXCEPT !.skip = 2]}
=============================================================================
