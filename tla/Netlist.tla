------------------------------- MODULE Netlist -------------------------------
(***************************************************************************)
(* What the Manager knows of the structure of the circuit and what it does *)
(* with it: parse_circuit reads the table of the gates, init_database lays *)
(* out the database, build_database and verify elect the wires whose       *)
(* LeakSets are verified, and track_parents climbs from the leaking wires  *)
(* to the roots of the leakage.                                            *)
(*                                                                         *)
(* A bit is << name, i >>.  An item of the database has one part, or is    *)
(* fused: several wires of one bit under one name, as splitnets leaves     *)
(* them.  What a bit shows during a cycle is the set of the bits whose     *)
(* expressions its LeakSet holds.                                          *)
(***************************************************************************)
EXTENDS Integers, Sequences, FiniteSets, Functions, SequencesExt, FiniteSetsExt

CONSTANT Setups   \* records [circuit, BIT_VERIF, FORCE_VERIFY_ALL, TRACK_LEAKS, cycles],
                  \* where cycles bounds the cycles verified

(* A circuit is a record of                                                *)
(*   items: name |-> sequence of parts [type, width, output, input], where *)
(*     a constant, which has no next value either, counts as an input      *)
(*   gates: in the order of their names, records [type, ports, out,        *)
(*     bitwise], where ports maps a port to its bits                       *)
(*   quiet: the bits that show nothing (public values)                    *)
ASSUME NetlistAssumption ==
  \A s \in Setups :
    /\ s.cycles \in Nat
    /\ DOMAIN s.circuit.gates \subseteq Nat
    /\ \A n \in DOMAIN s.circuit.items : s.circuit.items[n] # << >>

\* init_database asserts that no memory is fused
ASSUME PartsAssumption ==
  \A s \in Setups : \A n \in DOMAIN s.circuit.items :
    Len(s.circuit.items[n]) > 1 => \A part \in ToSet(s.circuit.items[n]) : part.type # "memory"

\* The bits and the wires of a gate
Reading(g) == UNION {ToSet(g.ports[p]) : p \in DOMAIN g.ports}
WiresOf(g) == {b[1] : b \in ToSet(g.out) \union Reading(g)}

\* The table names wires: items of the circuit that are no memory and that
\* cxxrtl did not replace by an alias.
ASSUME WiresAssumption ==
  \A s \in Setups : \A g \in DOMAIN s.circuit.gates : \A n \in WiresOf(s.circuit.gates[g]) :
    /\ n \in DOMAIN s.circuit.items
    /\ \A part \in ToSet(s.circuit.items[n]) : part.type # "memory"
    /\ Len(s.circuit.items[n]) > 1 \/ \E part \in ToSet(s.circuit.items[n]) : part.type # "alias"

VARIABLES
  setup,        \* fixed
  phase,
  unread,       \* the lines of the table still to read
  inputs, outputs, muxGate, muxAInputs, muxBInputs,   \* local to parse_circuit
  topology, mux_structures, split_wires,
  registers_and_outputs, database,                    \* database: the names it has
  cycle,
  stab, bit,    \* of the evaluated cycle: the stable bits, the selectors that are 1
  shows,        \* the bits whose expressions each bit shows
  showed,       \* and showed in the cycle before
  inputs_of_stabilized_gate, elected,
  leaky,        \* the wires is_secure_* refuses in this cycle
  needles,      \* those verify found, not yet tracked
  found,        \* ghost: those verify found
  stack, cached, roots

parser == << unread, inputs, outputs, muxGate, muxAInputs, muxBInputs, split_wires >>
layout == << registers_and_outputs, database >>
signals == << cycle, stab, bit, shows, showed >>
election == << inputs_of_stabilized_gate, elected >>
tracking == << needles, stack, cached, roots >>
vars == << setup, phase, parser, topology, mux_structures, layout, signals, election, leaky,
           found, tracking >>

Items == setup.circuit.items
Gates == setup.circuit.gates
Names == DOMAIN Items
Part(n, i) == IF Len(Items[n]) = 1 THEN Items[n][1] ELSE Items[n][i]
Width(n) == IF Len(Items[n]) = 1 THEN Items[n][1].width ELSE Len(Items[n])
BitsOf(n) == {<< n, i >> : i \in 1 .. Width(n)}
NamesIn(s) == {b[1] : b \in ToSet(s)}
Fused(n) == Len(Items[n]) > 1

Nothing == [x \in {} |-> {}]
\* f with x added to the set f has for k
AddedAt(f, k, x) ==
  [j \in DOMAIN f \union {k} |-> IF j # k THEN f[j] ELSE IF k \in DOMAIN f THEN f[k] \union x ELSE x]
SetAt(f, k, x) == [j \in DOMAIN f \union {k} |-> IF j = k THEN x ELSE f[j]]
Lookup(f, k) == IF k \in DOMAIN f THEN f[k] ELSE {}

-----------------------------------------------------------------------------
(* parse_circuit                                                           *)

\* The wires of a port that are sliced there: "\name [i]"
Sliced(s) == {n \in NamesIn(s) : ~Fused(n) /\ ~(BitsOf(n) \subseteq ToSet(s))}
Line(g, port, dir, s) ==
  [gate |-> g, type |-> Gates[g].type, port |-> port, dir |-> dir, wires |-> NamesIn(s),
   sliced |-> Sliced(s)]
\* write_table: a line for every input and for the output of every gate
Lines ==
  UNION {{Line(g, port, "in", Gates[g].ports[port]) : port \in DOMAIN Gates[g].ports}
           \union {Line(g, "Y", "out", Gates[g].out)} : g \in DOMAIN Gates}

Init ==
  /\ setup \in Setups
  /\ phase = "parse" /\ unread = Lines
  /\ inputs = Nothing /\ outputs = Nothing
  /\ muxGate = Nothing /\ muxAInputs = Nothing /\ muxBInputs = Nothing
  /\ topology = Nothing /\ mux_structures = Nothing /\ split_wires = {}
  /\ registers_and_outputs = {} /\ database = {}
  /\ cycle = 0 /\ stab = {} /\ bit = {} /\ shows = Nothing /\ showed = Nothing
  /\ inputs_of_stabilized_gate = {} /\ elected = {} /\ leaky = {} /\ found = {}
  /\ needles = {} /\ stack = << >> /\ cached = {} /\ roots = {}

ParseLine ==
  /\ phase = "parse" /\ unread # {}
  /\ LET row == CHOOSE l \in unread : TRUE   \* the order is the file's
         Muxes(port) == row.type = "$mux" /\ row.dir = "in" /\ row.port = port
     IN /\ unread' = unread \ {row}
        /\ split_wires' = split_wires \union row.sliced
        /\ muxGate' = IF Muxes("S") THEN SetAt(muxGate, row.gate, row.wires) ELSE muxGate
        /\ muxAInputs' = IF Muxes("A") THEN SetAt(muxAInputs, row.gate, row.wires) ELSE muxAInputs
        /\ muxBInputs' = IF Muxes("B") THEN SetAt(muxBInputs, row.gate, row.wires) ELSE muxBInputs
        \* the inputs of a memory are not inputs of its outputs
        /\ inputs' = IF row.dir = "in" /\ row.type # "$mem_v2"
                     THEN AddedAt(inputs, row.gate, row.wires) ELSE inputs
        /\ outputs' = IF row.dir = "out" THEN AddedAt(outputs, row.gate, row.wires) ELSE outputs
  /\ UNCHANGED << setup, phase, topology, mux_structures, layout, signals, election, leaky,
                  found, tracking >>

\* A wire with several gates keeps the inputs of the last one
Topology ==
  [w \in UNION Range(outputs) |-> Lookup(inputs, Max({g \in DOMAIN outputs : w \in outputs[g]}))]
\* All the muxes of one selector (mutant: the branches the wrong way round)
Branches(ports, s) == UNION {Lookup(ports, g) : g \in {g \in DOMAIN muxGate : muxGate[g] = {s}}}
MuxesSwapped == [s \in UNION Range(muxGate) |-> << Branches(muxBInputs, s), Branches(muxAInputs, s) >>]
Muxes == [s \in UNION Range(muxGate) |-> << Branches(muxAInputs, s), Branches(muxBInputs, s) >>]

\* The constructor adds the fused wires the topology has, and those the table
\* is not expected to name as an output
NeedsNone(part) == part.input \/ part.type \in {"alias", "memory"}
InParts(known) == {n \in Names : Fused(n) /\ (n \in known \/ NeedsNone(Items[n][1]))}

Merge ==
  /\ phase = "parse" /\ unread = {}
  /\ topology' = Topology /\ mux_structures' = Muxes
  /\ split_wires' = split_wires \union InParts(DOMAIN Topology)
  /\ phase' = "init"
  /\ UNCHANGED << setup, unread, inputs, outputs, muxGate, muxAInputs, muxBInputs, layout,
                  signals, election, leaky, found, tracking >>

-----------------------------------------------------------------------------
(* init_database                                                           *)

Parts(n) == {p \in ToSet(Items[n]) : p.type # "alias"}
Synchronous(n) == \E p \in Parts(n) : p.type = "wire"
IsOutput(n) == \E p \in Parts(n) : p.output
Memory(n) == \E p \in Parts(n) : p.type = "memory"
Memories == {n \in Names : Memory(n)}

\* (mutant: an item with an alias among its parts is skipped)
KnownUnaliased == {n \in Names : ~Memory(n) /\ Parts(n) = ToSet(Items[n])}
Known == {n \in Names : ~Memory(n) /\ (Fused(n) \/ Parts(n) # {})}

init_database ==
  /\ phase = "init"
  /\ database' = Known
  /\ registers_and_outputs' = {n \in Known : Synchronous(n) \/ IsOutput(n)}
  /\ phase' = "eval"
  /\ UNCHANGED << setup, parser, topology, mux_structures, signals, election, leaky, found,
                  tracking >>

-----------------------------------------------------------------------------
(* eval: the circuit                                                       *)

Driven(b) == \E g \in DOMAIN Gates : b \in ToSet(Gates[g].out)
Driver(b) == Gates[CHOOSE g \in DOMAIN Gates : b \in ToSet(Gates[g].out)]
Position(g, b) == CHOOSE i \in DOMAIN g.out : g.out[i] = b
\* The bits of a port that a bit of the output depends on
Feeds(g, port, b) == IF g.bitwise THEN {g.ports[port][Position(g, b)]} ELSE ToSet(g.ports[port])
AllBits == UNION {BitsOf(n) : n \in {n \in Names : Parts(n) # {} /\ ~Memory(n)}}
IsRegister(b) == Driven(b) /\ Driver(b).type = "$dff"
Combinational(b) == Driven(b) /\ Driver(b).type \in {"cell", "$mux"}
Selector(g) == g.ports["S"][1]

\* What a bit shows to the gates that read it, when the others show f.  A
\* stable bit shows itself; a mux shows the branch a stable selector chose, or
\* both.
From(f, g, port, b) == UNION {f[c] : c \in Feeds(g, port, b)}
ShownMux(f, g, b, stable, ones) ==
  IF Selector(g) \notin stable THEN From(f, g, "A", b) \union From(f, g, "B", b) \union From(f, g, "S", b)
  ELSE IF Selector(g) \in ones THEN From(f, g, "B", b) ELSE From(f, g, "A", b)
Shown(f, b, stable, ones) ==
  IF b \in setup.circuit.quiet THEN {}
  ELSE IF ~Combinational(b) \/ b \in stable THEN {b}
  ELSE IF Driver(b).type = "$mux" THEN ShownMux(f, Driver(b), b, stable, ones)
  ELSE UNION {From(f, Driver(b), port, b) : port \in DOMAIN Driver(b).ports}
Shows(stable, ones) == LET f[b \in AllBits] == Shown(f, b, stable, ones) IN f

\* The database reads a register before the commit: its next value
Next0(b) == IF IsRegister(b) THEN Driver(b).ports["D"][Position(Driver(b), b)] ELSE b
\* What the entries hold
Held(n) == UNION {shows[Next0(b)] : b \in BitsOf(n)}
\* Nothing before the first cycle
HeldBefore(n) == UNION {Lookup(showed, Next0(b)) : b \in BitsOf(n)}
AppliedStability(n) == \E b \in BitsOf(n) : Next0(b) \in stab

Selectors == {Selector(Gates[g]) : g \in {g \in DOMAIN Gates : Gates[g].type = "$mux"}}
\* Inputs are stable
Sources == {b \in AllBits : ~Driven(b)}

Eval ==
  /\ phase = "eval" /\ cycle < setup.cycles
  /\ \E S \in SUBSET (AllBits \ Sources) : stab' = S \union Sources
  /\ bit' \in SUBSET Selectors
  /\ shows' = Shows(stab', bit') /\ showed' = shows
  /\ cycle' = cycle + 1 /\ phase' = "verify"
  /\ UNCHANGED << setup, parser, topology, mux_structures, layout, election, leaky, found,
                  tracking >>

-----------------------------------------------------------------------------
(* build_database and verify                                               *)

\* The branch the selector, if it is a single item, did not choose
DeadBranch(n) ==
  IF Fused(n) \/ n \notin DOMAIN mux_structures THEN {}
  ELSE IF << n, 1 >> \in bit THEN mux_structures[n][1] ELSE mux_structures[n][2]

Stabilized == {n \in Known : AppliedStability(n)}
InputsOfStabilized == UNION {Lookup(topology, n) \union DeadBranch(n) : n \in Stabilized}

\* (mutant: those of the cycle before are forgotten)
ElectedNow ==
  InputsOfStabilized \union registers_and_outputs
    \union (IF setup.FORCE_VERIFY_ALL THEN database ELSE {})
    \union (IF setup.BIT_VERIF THEN {} ELSE split_wires)
Elected ==
  inputs_of_stabilized_gate \union InputsOfStabilized \union registers_and_outputs
    \union (IF setup.FORCE_VERIFY_ALL THEN database ELSE {})
    \union (IF setup.BIT_VERIF THEN {} ELSE split_wires)

Verify ==
  /\ phase = "verify"
  /\ inputs_of_stabilized_gate' = InputsOfStabilized
  /\ elected' = Elected
  \* operator[] of the two maps
  /\ topology' = [n \in DOMAIN topology \union Stabilized |-> Lookup(topology, n)]
  /\ database' = database \union elected'
  /\ leaky' \in IF setup.TRACK_LEAKS THEN SUBSET (Known \union Memories) ELSE {{}}
  \* without glitches all the wires are verified, with glitches those elected
  /\ \E all \in BOOLEAN :
       needles' = leaky' \intersect (IF all THEN Names ELSE elected' \union Memories)
  /\ found' = needles'
  /\ cached' = {} /\ roots' = {} /\ stack' = << >>
  /\ phase' = IF needles' = {} THEN "verified" ELSE "track"
  /\ UNCHANGED << setup, parser, mux_structures, registers_and_outputs, signals >>

-----------------------------------------------------------------------------
(* track_parents                                                           *)

\* A call on a wire
Call(n, frames) ==
  /\ cached' = cached \union {n}
  /\ roots' = IF n \notin cached /\ n \notin DOMAIN topology THEN roots \union {n} ELSE roots
  /\ stack' = IF n \in cached \/ n \notin DOMAIN topology THEN frames
              ELSE << [needle |-> n, todo |-> topology[n], leaking |-> FALSE] >> \o frames

Top == stack[1]
\* The frame once parent w is done with (mutant: the parent stays)
DoneStuck(w) == [Top EXCEPT !.todo = IF Synchronous(w) THEN @ ELSE @ \ {w}]
Done(w) == [Top EXCEPT !.todo = @ \ {w}]
\* (mutant: a wire in the cache is taken for secure)
LeaksUncached(w) == w \in leaky /\ w \notin cached
Leaks(w) == w \in cached \/ w \in leaky

Track ==
  /\ phase = "track" /\ stack = << >> /\ needles # {}
  /\ \E n \in needles : Call(n, << >>) /\ needles' = needles \ {n}
  /\ UNCHANGED << setup, phase, parser, topology, mux_structures, layout, signals, election,
                  leaky, found >>

Parent ==
  /\ phase = "track" /\ stack # << >>
  /\ \E w \in Top.todo :
       IF w \notin database THEN phase' = "aborted" /\ UNCHANGED << stack, cached, roots >>
       ELSE /\ phase' = phase
            /\ IF Synchronous(w) \/ ~Leaks(w)
               THEN stack' = << Done(w) >> \o Tail(stack) /\ UNCHANGED << cached, roots >>
               ELSE Call(w, << [Done(w) EXCEPT !.leaking = TRUE] >> \o Tail(stack))
  /\ UNCHANGED << setup, parser, topology, mux_structures, layout, signals, election, leaky,
                  found, needles >>

Return ==
  /\ phase = "track" /\ stack # << >> /\ Top.todo = {}
  /\ roots' = IF Top.leaking THEN roots ELSE roots \union {Top.needle}
  /\ stack' = Tail(stack)
  /\ UNCHANGED << setup, phase, parser, topology, mux_structures, layout, signals, election,
                  leaky, found, needles, cached >>

Tracked ==
  /\ phase = "track" /\ stack = << >> /\ needles = {}
  /\ phase' = "verified"
  /\ UNCHANGED << setup, parser, topology, mux_structures, layout, signals, election, leaky,
                  found, tracking >>

NextCycle ==
  /\ phase = "verified" /\ phase' = "eval"
  /\ UNCHANGED << setup, parser, topology, mux_structures, layout, signals, election, leaky,
                  found, tracking >>

Tracking == Track \/ Parent \/ Return \/ Tracked
Next == ParseLine \/ Merge \/ init_database \/ Eval \/ Verify \/ Tracking \/ NextCycle

\* One thread: the calls of track_parents, once made, run
Spec == Init /\ [][Next]_vars /\ WF_vars(Tracking)

-----------------------------------------------------------------------------
\* Bits some gate other than a memory reads, or that are read outside
Read(C, b) == \E g \in Range(C.gates) : g.type # "$mem_v2" /\ b \in Reading(g)
Observable(b) == IsOutput(b[1]) \/ Read(setup.circuit, b)
ToCover == {b \in AllBits : Combinational(b) /\ Observable(b) /\ ~IsRegister(b)}
Filled == elected \intersect Known

\* The election is enough: whatever an observer of one wire of the circuit
\* learns in a cycle, the observer of one of the elected wires learns too.
\* Bits are observed one by one, or all those of a word together.
Covered ==
  phase = "verified" =>
    IF setup.BIT_VERIF
    THEN \A b \in ToCover : \E n \in Filled : \E c \in BitsOf(n) : shows[b] \subseteq shows[Next0(c)]
    ELSE \A n \in {b[1] : b \in ToCover} : \E e \in Filled :
           UNION {shows[b] : b \in BitsOf(n)} \subseteq Held(e)

\* "We will want to verify all the wires that applied stability previous
\* cycle": the election is enough for transitions as well, where an observer
\* sees what a wire showed in the cycle before together with what it shows.
TransitionsCovered ==
  phase = "verified" =>
    IF setup.BIT_VERIF
    THEN \A b \in ToCover : \E n \in Filled : \E c \in BitsOf(n) :
           Lookup(showed, b) \union shows[b] \subseteq Lookup(showed, Next0(c)) \union shows[Next0(c)]
    ELSE \A n \in {b[1] : b \in ToCover} : \E e \in Filled :
           UNION {Lookup(showed, b) \union shows[b] : b \in BitsOf(n)} \subseteq HeldBefore(e) \union Held(e)

(* The circuits for which the election is enough without FORCE_VERIFY_ALL  *)
Computes(g) == g.type \in {"cell", "$mux"}
OutputOf(C, n) == \E p \in ToSet(C.items[n]) : p.type # "alias" /\ p.output
\* No item is fused, and the bits of the gates are bits of items.
Plain(C) ==
  \A g \in Range(C.gates) : \A b \in ToSet(g.out) \union Reading(g) :
    Len(C.items[b[1]]) = 1 /\ b \in {b[1]} \X (1 .. C.items[b[1]][1].width)
\* A wire has one gate, a gate one wire, and a bitwise gate as many bits out as in.
Driven1(C) ==
  /\ \A i, j \in DOMAIN C.gates : NamesIn(C.gates[i].out) \intersect NamesIn(C.gates[j].out) # {} => i = j
  /\ \A g \in Range(C.gates) :
       /\ g.out # << >> /\ IsInjective(g.out) /\ \A b, c \in ToSet(g.out) : b[1] = c[1]
       /\ g.bitwise => \A p \in DOMAIN g.ports : DOMAIN g.ports[p] = DOMAIN g.out
\* Gates are cells, muxes whose selectors are public wires of one bit that are
\* no registers, registers, and memories; what a public bit is computed from is public.
Kinds(C) ==
  \A g \in Range(C.gates) :
    /\ Computes(g) \/ g.type \in {"$dff", "$mem_v2"}
    /\ g.type = "$mux" =>
         /\ DOMAIN g.ports = {"A", "B", "S"} /\ DOMAIN g.ports["S"] = {1}
         /\ Selector(g)[2] = 1 /\ Selector(g) \in C.quiet
         /\ \A h \in Range(C.gates) : h.type = "$dff" => Selector(g) \notin ToSet(h.out)
    /\ g.type = "$dff" =>
         /\ DOMAIN g.ports = {"D"} /\ g.bitwise
         /\ \A n \in NamesIn(g.out) : C.items[n][1].type = "wire"
    /\ Computes(g) /\ ToSet(g.out) \intersect C.quiet # {} => Reading(g) \subseteq C.quiet
\* What is read is read by a register or by logic that is read in turn.
Live(C) ==
  \A g \in Range(C.gates) : \A b \in ToSet(g.out) : Computes(g) /\ Read(C, b) =>
    \/ OutputOf(C, b[1])
    \/ \E h \in Range(C.gates) : h.type = "$dff" /\ b \in Reading(h)
    \/ \E h \in Range(C.gates) : \E y \in ToSet(h.out), p \in DOMAIN h.ports :
         Computes(h) /\ b \in Feeds(h, p, y) /\ (OutputOf(C, y[1]) \/ Read(C, y))
\* eval computes a bit after those it is computed from.
Layered(C, depth, levels) ==
  \A g \in Range(C.gates) : Computes(g) => \A y \in ToSet(g.out) :
    /\ depth[y] \in 0 .. levels
    /\ \A p \in DOMAIN g.ports : \A b \in Feeds(g, p, y) :
         depth[b] \in 0 .. levels /\ depth[b] < depth[y]
WellBuilt(C) == Plain(C) /\ Driven1(C) /\ Kinds(C) /\ Live(C)
\* No wire is a register in one bit and computed in another.
Unmixed(C) ==
  \A g, h \in Range(C.gates) :
    NamesIn(g.out) \intersect NamesIn(h.out) # {} /\ g.type = "$dff" => h.type = "$dff"

\* "Note that the structure of database is fixed": neither verify nor
\* track_parents ever asks for a name that init_database did not enter.
StructureFixed ==
  phase \notin {"parse", "init"} => database = Known /\ phase # "aborted"

\* The wires tracking may pass through: the leaking ones it was given, and
\* the leaking combinational parents of those it passes through
Above(n) == {w \in Lookup(topology, n) \intersect leaky : ~Synchronous(w)}
Closed(C) == found \subseteq C /\ \A n \in C : Above(n) \subseteq C
Reached == {n \in Names : \A C \in SUBSET Names : Closed(C) => n \in C}

\* Tracking reports exactly the leaking wires above those it was given that no
\* combinational parent explains, in whatever order it meets them.
RootsExact ==
  phase = "verified" => roots = {n \in Reached : Above(n) = {}}

\* Tracking ends, also on wires that are, under their fused names, parents of
\* themselves.
TrackingEnds == (phase = "track") ~> (phase \in {"verified", "aborted"})
=============================================================================
