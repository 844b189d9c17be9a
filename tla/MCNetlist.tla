------------------------------ MODULE MCNetlist ------------------------------
(* Circuits for Netlist *)
EXTENDS Netlist

Part1(type, width, output) ==
  << [type |-> type, width |-> width, output |-> output, input |-> FALSE] >>
In == << [type |-> "value", width |-> 1, output |-> FALSE, input |-> TRUE] >>
Val == Part1("value", 1, FALSE)
Out == Part1("value", 1, TRUE)
Reg == Part1("wire", 1, FALSE)
Word == Part1("value", 2, FALSE)
FusedWire == Val \o Val

B(n) == << << n, 1 >> >>
W(n) == << << n, 1 >>, << n, 2 >> >>
At1(n, i) == << << n, i >> >>

Gate(type, ports, out, bitwise) == [type |-> type, ports |-> ports, out |-> out, bitwise |-> bitwise]
cell1(a, y) == Gate("cell", [A |-> a], y, FALSE)
cell2(a, b, y) == Gate("cell", [A |-> a, B |-> b], y, FALSE)
bits2(a, b, y) == Gate("cell", [A |-> a, B |-> b], y, TRUE)
mux(s, a, b, y) == Gate("$mux", [A |-> a, B |-> b, S |-> s], y, Len(y) = 1)
dff(d, q) == Gate("$dff", [D |-> d], q, TRUE)
mem(addr, data, y) == Gate("$mem_v2", [ADDR |-> addr, DATA |-> data], y, FALSE)

Circuit(items, gates) == [items |-> items, gates |-> gates, quiet |-> {"c", "k", "s"} \X {1}]

\* A chain to a register that feeds back
Chain ==
  Circuit([a |-> In, r |-> Reg, x |-> Val, y |-> Val, z |-> Out],
          << cell2(B("a"), B("r"), B("x")), cell2(B("x"), B("a"), B("y")), dff(B("y"), B("r")),
             cell2(B("x"), B("y"), B("z")) >>)
\* A mux whose branches nobody else reads
Branching ==
  Circuit([a |-> In, b |-> In, c |-> In, k |-> Val, p |-> Val, q |-> Val, m |-> Out],
          << cell1(B("c"), B("k")), cell1(B("a"), B("p")), cell1(B("b"), B("q")),
             mux(B("k"), B("p"), B("q"), B("m")) >>)
\* Two muxes, one in a branch of the other, one selector
Nested ==
  Circuit([a |-> In, b |-> In, c |-> In, k |-> Val, p |-> Val, q |-> Val, m |-> Val, n |-> Out],
          << cell1(B("c"), B("k")), cell1(B("a"), B("p")), cell1(B("b"), B("q")),
             mux(B("k"), B("p"), B("b"), B("m")), mux(B("k"), B("m"), B("q"), B("n")) >>)
\* A word whose bits part
Slices ==
  Circuit([a |-> In, b |-> In, w |-> Word, u |-> Out, v |-> Val, r |-> Reg],
          << cell2(B("a"), B("b"), W("w")), cell1(At1("w", 1), B("u")), cell2(At1("w", 2), B("b"), B("v")),
             dff(B("v"), B("r")) >>)
Words ==
  Circuit([a |-> In, b |-> In, w |-> Word, x |-> Word, y |-> Part1("value", 2, TRUE)],
          << bits2(B("a") \o B("b"), B("b") \o B("a"), W("w")), cell2(W("w"), B("a"), W("x")),
             bits2(W("x"), W("w"), W("y")) >>)
\* A memory: what its address depends on is nobody's input
Table ==
  Circuit([a |-> In, b |-> In, x |-> Val, d |-> Val, y |-> Out, M |-> Part1("memory", 1, FALSE),
           old |-> Part1("alias", 1, FALSE)],
          << cell1(B("a"), B("x")), mem(B("x"), B("b"), B("d")), cell2(B("d"), B("a"), B("y")) >>)
\* A fused wire one part of which is computed from the other, and one with
\* an aliased part
Loop ==
  Circuit([a |-> In, b |-> In, w |-> FusedWire, y |-> Out,
           z |-> Part1("value", 1, FALSE) \o Part1("alias", 1, FALSE)],
          << cell1(B("a"), At1("w", 1)), cell2(At1("w", 1), B("b"), At1("w", 2)),
             cell1(At1("w", 2), At1("z", 1)), cell1(At1("z", 1), B("y")) >>)

\* Every circuit of a cell, a selector and two gates
Ends(i, j, y) ==
  {cell1(B(i), B(y)), cell1(B(j), B(y)), cell2(B(i), B(j), B(y))}
    \union {mux(B("k"), B(p), B(q), B(y)) : p, q \in {i, j}}
Small ==
  {Circuit([a |-> In, b |-> In, c |-> In, k |-> Val, x |-> Out, y |-> Val, z |-> Out],
           << cell2(B("a"), B("b"), B("x")), cell1(B("c"), B("k")), g, h >>) :
     g \in Ends("x", "a", "y"), h \in Ends("x", "y", "z")}

\* The circuits the theorem on the election is about, and their levels
Level(C) ==
  LET bits == UNION {ToSet(g.out) \union Reading(g) : g \in ToSet(C.gates)}
      level[b \in bits] ==
        Max({0} \union {level[c] + 1 : c \in UNION
              {UNION {Feeds(g, p, b) : p \in DOMAIN g.ports} :
                 g \in {g \in ToSet(C.gates) : Computes(g) /\ b \in ToSet(g.out)}}})
  IN level
ASSUME MCWellBuilt ==
  \A C \in {Chain, Branching, Nested, Slices, Words, Table} \union {C \in Small : Live(C)} :
    WellBuilt(C) /\ Layered(C, Level(C), Len(C.gates))
ASSUME MCUnmixed == Unmixed(Loop)

Modes(C, all, cycles) ==
  [circuit : C, BIT_VERIF : BOOLEAN, FORCE_VERIFY_ALL : all, TRACK_LEAKS : {FALSE}, cycles : {cycles}]
Tracked1(C) ==
  [circuit : C, BIT_VERIF : {TRUE}, FORCE_VERIFY_ALL : {FALSE}, TRACK_LEAKS : {TRUE}, cycles : {1}]
\* In words the constructor's fused wires are elected without being forced
Unforced(C) ==
  [circuit : {C}, BIT_VERIF : {FALSE}, FORCE_VERIFY_ALL : {FALSE}, TRACK_LEAKS : {FALSE}, cycles : {1}]
MCSetups ==
  Modes({Words, Table, Nested} \union Small, {FALSE}, 1) \union Modes({Loop}, {TRUE}, 1)
    \union Unforced(Loop)
    \union Modes({Chain, Branching, Slices}, {FALSE}, 2)
    \union Tracked1({Chain, Loop, Table})

\* Two gates that drive the two parts of a fused wire
Parted ==
  Circuit([a |-> In, b |-> In, p |-> Val, q |-> Val, w |-> FusedWire, y |-> Out],
          << cell1(B("a"), B("p")), cell1(B("b"), B("q")), cell1(B("p"), At1("w", 1)),
             cell1(B("q"), At1("w", 2)), cell2(At1("w", 1), At1("w", 2), B("y")) >>)
MCFused == Modes({Parted}, {FALSE}, 1)

\* A mux whose selector is a register
Registered ==
  Circuit([a |-> In, b |-> In, c |-> In, s |-> Reg, k |-> Val, p |-> Val, q |-> Val, m |-> Val, r |-> Reg],
          << cell1(B("c"), B("k")), dff(B("k"), B("s")), cell1(B("a"), B("p")), cell1(B("b"), B("q")),
             mux(B("s"), B("p"), B("q"), B("m")), dff(B("m"), B("r")) >>)
MCSelector == Modes({Registered}, {FALSE}, 1)
=============================================================================
