------------------------------- MODULE Manager -------------------------------
(***************************************************************************)
(* The driver of libs/aleakator: Manager::step, what it reads from the     *)
(* circuit (build_database), what it verifies at order one (verify) and    *)
(* above (verify_higher_order), the is_secure_* functions with their       *)
(* cache, and the measure lifecycle.                                       *)
(*                                                                         *)
(* The circuit is open: an evaluation may put any of Shown on any wire,    *)
(* may stabilise any gate and may queue any memory writes.  The harness    *)
(* calls step, begin_measure and end_measure in any order and, like every  *)
(* harness of CPUs/ and accelerators/, ignores what step returns.          *)
(*                                                                         *)
(* A wire is one bit wide.  An expression is an element of Node; the       *)
(* verification of the external library is the operator Secure.            *)
(***************************************************************************)
EXTENDS Naturals, Sequences, FiniteSets

CONSTANTS
  Setups,             \* the circuits and configurations considered
  Node, ConstNode,    \* expressions, and those whose nature is CONST
  NULL,               \* the expression of an entry never filled
  Xor(_, _),          \* simplify(a ^ b)
  Secure(_, _, _),    \* symb_verify_*: a property, expressions, counted outputs
  MaxLeaking          \* bound: cycles counted as leaking

Kinds == {"vwog", "twog", "vwg", "twg"}

VARIABLES
  setup,                \* the circuit and configuration, fixed
  steps,
  measure,              \* [started, ended, begin_cycle, end_cycle]
  database,             \* [now, before]: database_[0] and database_[1]
  database_ho,          \* the entries of every verified cycle, with (ghost) its number
  inputs_of_stabilized_gate,
  verified_nodes,       \* Cache: pairs of an expression and its verdict
  verified_sets,        \* Cache: pairs of a set and its verdict
  memory,               \* the expression stored in every cell
  leaking_cycles,
  leaks_per_cycles,     \* pairs of a measure cycle and its number of leaks
  crashed,              \* std::out_of_range was thrown
  commits,              \* ghost: cycles the circuit went through
  began,                \* ghost: commits when the measure began
  past,                 \* ghost: the last committed cycle [verified, wires, applied]
  expected,             \* ghost: what leaks_per_cycles ought to be
  asked                 \* ghost: the tuples verified, as sets of pairs wire and cycle

\* The circuit
Wires == setup.wires                    \* the entries of database_
Cells == setup.cells                    \* the cells of a memory
RegsAndOutputs == setup.regs            \* registers_and_outputs_, split_wires_ in word mode
OutputWires == setup.outputs            \* Entry::is_output_
Topology == setup.topology              \* topology_: the inputs of the gate that drives a wire
MuxBranches == setup.mux                \* mux_structures_: inputs A and B of the selected muxes
Shown == setup.shown                    \* what a wire may show: expression, LeakSet, concrete bit
Convergence == setup.convergence        \* what top.eval() may return
MaxCommits == setup.commits             \* bound: committed cycles
\* The configuration
Checks == setup.checks                  \* VERIF_VALUE/TRANSITION_W/WO_GLITCHES_
SNI == setup.property = "SNI"           \* SECURITY_PROPERTY_
OVER_APPROX == setup.approx             \* TRANSITION_W_GLITCHES_OVER_APPROX_
FORCE_VERIFY_ALL == setup.force
SKIP_VERIF_CYCLES == setup.skip
CYCLES_TO_VERIFY == setup.cycles
EXIT_AT_FIRST_LEAKING_CYCLE == setup.exit
ORDER_VERIF == setup.order
HIGHER_ORDER_TYPE == setup.type

\* The numbers of outputs a verification may count
OutputCounts(s) == 0 .. s.order

SetupAssumption(s) ==
  /\ IsFiniteSet(s.wires)
  /\ s.regs \subseteq s.wires /\ s.outputs \subseteq s.regs
  /\ s.topology \in [s.wires -> SUBSET s.wires]
  /\ s.mux \in [s.wires -> [a : SUBSET s.wires, b : SUBSET s.wires]]
  /\ s.wires \intersect s.cells = {}
  /\ s.shown \subseteq [expr : Node, ls : SUBSET (Node \ ConstNode), curr : BOOLEAN]
  /\ s.checks \subseteq Kinds
  /\ s.property \in {"TPS", "NI", "SNI"}
  /\ s.approx \in BOOLEAN /\ s.force \in BOOLEAN /\ s.exit \in BOOLEAN
  /\ s.skip \in Nat /\ s.cycles \in Nat /\ s.commits \in Nat
  /\ s.convergence \subseteq BOOLEAN
  /\ s.order \in Nat \ {0} /\ s.type \in {"SPATIAL", "TEMPORAL"}
  \* Configuration refuses transitions with SNI and with higher orders
  /\ s.property = "SNI" \/ s.order > 1 => s.checks \subseteq {"vwog", "vwg"}
  /\ s.property = "SNI" /\ s.order > 1 => s.type = "SPATIAL"
  \* without memories, and with enough wires, at higher orders
  /\ s.order > 1 => s.cells = {} /\ (s.type = "SPATIAL" => s.order <= Cardinality(s.wires))

ASSUME SetupsAssumption == \A s \in Setups : SetupAssumption(s)
ASSUME NodeAssumption ==
  /\ ConstNode \subseteq Node /\ NULL \notin Node
  /\ \A a, b \in Node : Xor(a, b) \in Node
\* Outputs only matter to SNI
ASSUME SecureAssumption ==
  /\ \A p \in {"TPS", "NI", "SNI"}, S \in SUBSET Node :
       \A s \in Setups : \A outputs \in OutputCounts(s) : Secure(p, S, outputs) \in BOOLEAN
  /\ \A p \in {"TPS", "NI"}, S \in SUBSET Node :
       \A s \in Setups : \A outputs \in OutputCounts(s) : Secure(p, S, outputs) = Secure(p, S, 0)

circuit == << memory, commits, past >>
cache == << verified_nodes, verified_sets >>
report == << leaking_cycles, leaks_per_cycles, expected >>
higher == << database_ho, crashed, asked >>
vars == << setup, steps, measure, database, inputs_of_stabilized_gate, cache, report,
           higher, circuit, began >>

Measuring == measure.started /\ ~measure.ended
MeasureCycle == steps - measure.begin_cycle

\* reg_stabilize of a stored or driven expression
Own(expr) == {expr} \ (ConstNode \union {NULL})
Unfilled == [expr |-> NULL, ls |-> {}]
Nothing == [expr |-> NULL, ls |-> {}, curr |-> FALSE]
EntryOf(shown) == [expr |-> shown.expr, ls |-> shown.ls]
Outputs(place) == IF place \in OutputWires THEN 1 ELSE 0

Init ==
  /\ setup \in Setups
  /\ steps = 0
  /\ measure = [started |-> FALSE, ended |-> FALSE, begin_cycle |-> 0, end_cycle |-> 0]
  /\ database = [now |-> [w \in Wires |-> Unfilled], before |-> [w \in Wires |-> Unfilled]]
  /\ inputs_of_stabilized_gate = {}
  /\ verified_nodes = {} /\ verified_sets = {}
  /\ memory \in [Cells -> ConstNode]
  /\ leaking_cycles = 0 /\ leaks_per_cycles = {}
  /\ database_ho = << >> /\ crashed = FALSE /\ asked = {}
  /\ commits = 0 /\ began = 0 /\ expected = {}
  /\ past = [verified |-> FALSE, wires |-> [w \in Wires |-> Nothing], applied |-> {}]

-----------------------------------------------------------------------------
(* What each is_secure_* function submits for verification; the empty set  *)
(* is a trivial entry.                                                     *)

twog(now, before) ==
  IF before = NULL THEN {}
  ELSE IF now \in ConstNode THEN {before} \ ConstNode
  ELSE IF before \in ConstNode THEN {now}
  ELSE {Xor(now, before)} \ ConstNode

Submitted(kind, now, before) ==
  CASE kind = "vwog" -> {now.expr} \ ConstNode
    [] kind = "twog" -> twog(now.expr, before.expr)
    [] kind = "vwg"  -> now.ls
    [] kind = "twg"  -> now.ls \union (IF OVER_APPROX THEN before.ls ELSE Own(before.expr))

\* Transitions do not count outputs
Counted(kind, place) == IF kind \in {"vwog", "vwg"} THEN Outputs(place) ELSE 0

CacheOf(kind) == IF kind \in {"vwog", "twog"} THEN verified_nodes ELSE verified_sets

IsSecure(kind, set, outputs) ==
  \/ set = {}
  \/ << set, TRUE >> \in CacheOf(kind)
  \/ << set, FALSE >> \notin CacheOf(kind) /\ Secure(setup.property, set, outputs)

\* Mutant of Remembered: SNI is cached too
RememberedAlways(kinds, questions) ==
  {<< q.set, IsSecure(q.kind, q.set, q.outputs) >> :
     q \in {q \in questions : q.kind \in kinds /\ q.set # {}}}

\* No cache for SNI, whose verdict depends on the number of outputs
Remembered(kinds, questions) ==
  {<< q.set, IsSecure(q.kind, q.set, q.outputs) >> :
     q \in {q \in questions : q.kind \in kinds /\ q.set # {} /\ ~SNI}}

-----------------------------------------------------------------------------
(* verify()                                                                *)

\* The inputs of the gates that applied stability and, for a selector, those
\* of the branch its muxes do not select
GateInputs(wires, applied) ==
  UNION {Topology[g] \union (IF wires[g].curr THEN MuxBranches[g].a ELSE MuxBranches[g].b) :
           g \in applied}

\* Mutant of Elected: the inputs of the gates stabilised in the previous cycle
\* are forgotten
ElectedNow(wires, applied) ==
  RegsAndOutputs \union GateInputs(wires, applied) \union (IF FORCE_VERIFY_ALL THEN Wires ELSE {})

Elected(wires, applied) ==
  RegsAndOutputs \union inputs_of_stabilized_gate \union GateInputs(wires, applied)
    \union (IF FORCE_VERIFY_ALL THEN Wires ELSE {})

\* Values and transitions without glitches are verified on every wire, those
\* with glitches on the elected ones; a written cell is always verified.
Places(kind, elected, writes) ==
  DOMAIN writes \union
  (IF kind = "vwg" \/ (kind = "twg" /\ OVER_APPROX) THEN elected ELSE Wires)

Questions(elected, wires, before, writes) ==
  LET now(p) == IF p \in Cells THEN writes[p] ELSE wires[p]
      old(p) == IF p \in Cells THEN [expr |-> memory[p], ls |-> Own(memory[p])]
                ELSE before[p]
  IN UNION {{[kind |-> kind, place |-> p, outputs |-> Counted(kind, p),
              set |-> Submitted(kind, now(p), old(p))] :
               p \in Places(kind, elected, writes)} : kind \in Checks}

Leaks(questions) == {q \in questions : ~IsSecure(q.kind, q.set, q.outputs)}

\* leaks_per_cycles_[cycle] = number
Record(reported, cycle, number) ==
  {r \in reported : r[1] # cycle} \union {<< cycle, number >>}

\* ghost: what leaks, from the history of the circuit and without the cache
ReallyLeaking(wires, applied, writes) ==
  LET seen(x, default) == IF past.verified THEN x ELSE default
      elected == RegsAndOutputs \union GateInputs(wires, applied)
                   \union seen(GateInputs(past.wires, past.applied), {})
                   \union (IF FORCE_VERIFY_ALL THEN Wires ELSE {})
      before == [w \in Wires |-> IF past.verified THEN EntryOf(past.wires[w]) ELSE Unfilled]
  IN {q \in Questions(elected, wires, before, writes) :
        q.set # {} /\ ~Secure(setup.property, q.set, q.outputs)}

-----------------------------------------------------------------------------
(* step()                                                                  *)

\* The cycle is counted unless the step bails out or the simulation is over
\* (mutant: it never is)
CountNever(bails) == steps
CountCycle(bails) == IF bails \/ steps >= CYCLES_TO_VERIFY THEN steps ELSE steps + 1

\* commit(), clean() and the end of step()
Finish(wires, applied, writes, verified) ==
  /\ memory' = [c \in Cells |-> IF c \in DOMAIN writes THEN writes[c].expr ELSE memory[c]]
  /\ commits' = commits + 1
  /\ past' = [verified |-> verified, wires |-> wires, applied |-> applied]
  /\ \E converged \in Convergence, changed \in BOOLEAN :
       /\ changed => DOMAIN writes # {}
       /\ steps' = CountCycle(changed /\ ~converged)

Abandon == UNCHANGED << circuit, steps >>

StepUnmeasured(wires, applied, writes) ==
  /\ ~Measuring
  /\ Finish(wires, applied, writes, FALSE)
  /\ UNCHANGED << measure, database, inputs_of_stabilized_gate, cache, report, higher, began >>

\* verify() and verify_higher_order() return false for a skipped cycle
StepSkipped(wires, applied, writes) ==
  /\ Measuring /\ SKIP_VERIF_CYCLES > steps
  /\ leaking_cycles' = leaking_cycles + 1
  /\ IF EXIT_AT_FIRST_LEAKING_CYCLE THEN Abandon
     ELSE Finish(wires, applied, writes, FALSE)
  /\ UNCHANGED << measure, database, inputs_of_stabilized_gate, cache, leaks_per_cycles,
                  expected, higher, began >>

\* build_database: the entries of the last verified cycle become the previous ones
Advanced(wires) == [now |-> [w \in Wires |-> EntryOf(wires[w])], before |-> database.now]

\* A cycle with leaks is a leaking cycle (mutant: every leak is)
LeakingMore(leaks) == leaks
Leaking(leaks) == IF leaks > 0 THEN 1 ELSE 0

\* verify(): order one
StepVerified(wires, applied, writes) ==
  /\ Measuring /\ SKIP_VERIF_CYCLES <= steps /\ ORDER_VERIF = 1
  /\ database' = Advanced(wires)
  /\ inputs_of_stabilized_gate' = GateInputs(wires, applied)
  /\ LET questions == Questions(Elected(wires, applied), wires, Advanced(wires).before, writes)
         leaks == Cardinality(Leaks(questions))
     IN /\ verified_nodes' = verified_nodes \union Remembered({"vwog", "twog"}, questions)
        /\ verified_sets' = verified_sets \union Remembered({"vwg", "twg"}, questions)
        /\ leaks_per_cycles' = Record(leaks_per_cycles, MeasureCycle, leaks)
        /\ leaking_cycles' = leaking_cycles + Leaking(leaks)
        /\ IF leaks > 0 /\ EXIT_AT_FIRST_LEAKING_CYCLE THEN Abandon
           ELSE Finish(wires, applied, writes, TRUE)
  /\ expected' = Record(expected, commits - began,
                        Cardinality(ReallyLeaking(wires, applied, writes)))
  /\ UNCHANGED << measure, higher, began >>

-----------------------------------------------------------------------------
(* verify_higher_order()                                                   *)

Combinations(S, r) == {T \in SUBSET S : Cardinality(T) = r}

\* A point of a tuple is a wire and a position in database_ho_, the last one
\* being the current cycle.  In space: any ORDER_VERIF wires now.
SpatialTuples(now) == Combinations(Wires \X {now}, ORDER_VERIF)

\* In time: a wire now and in earlier measure cycles, cycle i being looked up
\* at position i (mutant: one cycle too few is combined)
FewerEarlier == IF ORDER_VERIF > MeasureCycle THEN MeasureCycle - 1 ELSE ORDER_VERIF - 1
Earlier == IF ORDER_VERIF > MeasureCycle THEN MeasureCycle ELSE ORDER_VERIF - 1
TemporalTuples(now) ==
  IF MeasureCycle = 0 THEN {}
  ELSE {{w} \X ({now} \union S) : w \in Wires, S \in Combinations(1 .. MeasureCycle, Earlier)}

Tuples(now) == IF HIGHER_ORDER_TYPE = "SPATIAL" THEN SpatialTuples(now) ELSE TemporalTuples(now)

\* The positions looked up exist
Available(tuples, now) == \A tuple \in tuples : \A point \in tuple : point[2] <= now

TupleQuestion(kind, tuple, ho) ==
  LET entries == {ho[point[2]].entries[point[1]] : point \in tuple}
  IN [kind |-> kind, place |-> tuple,
      outputs |-> IF HIGHER_ORDER_TYPE = "SPATIAL"
                  THEN Cardinality({point \in tuple : point[1] \in OutputWires}) ELSE 0,
      set |-> IF kind = "vwog" THEN {e.expr : e \in entries} \ ConstNode
              ELSE UNION {e.ls : e \in entries}]

TupleQuestions(tuples, ho) ==
  {TupleQuestion(kind, tuple, ho) : kind \in Checks, tuple \in tuples}

\* database_ho_.push_back
PushBack(wires) ==
  Append(database_ho, [cycle |-> commits - began, entries |-> Advanced(wires).now])
\* ghost: the cycles a tuple is about
Real(tuple, ho) == {<< point[1], ho[point[2]].cycle >> : point \in tuple}

StepHigherOrder(wires, applied, writes) ==
  /\ Measuring /\ SKIP_VERIF_CYCLES <= steps /\ ORDER_VERIF > 1
  /\ database' = Advanced(wires)
  /\ inputs_of_stabilized_gate' = GateInputs(wires, applied)
  /\ database_ho' = PushBack(wires)
  /\ LET ho == PushBack(wires)
         tuples == Tuples(Len(ho))
     IN IF ~Available(tuples, Len(ho))
        THEN crashed' = TRUE /\ Abandon /\ UNCHANGED << leaking_cycles, cache, asked >>
        ELSE LET questions == TupleQuestions(tuples, ho)
                 leaks == Cardinality(Leaks(questions))
             IN /\ verified_nodes' = verified_nodes \union Remembered({"vwog"}, questions)
                /\ verified_sets' = verified_sets \union Remembered({"vwg"}, questions)
                /\ leaking_cycles' = leaking_cycles + Leaking(leaks)
                /\ asked' = asked \union {Real(tuple, ho) : tuple \in tuples}
                /\ crashed' = FALSE
                /\ IF leaks > 0 /\ EXIT_AT_FIRST_LEAKING_CYCLE THEN Abandon
                   ELSE Finish(wires, applied, writes, TRUE)
  /\ UNCHANGED << measure, leaks_per_cycles, expected, began >>

Step ==
  /\ ~crashed /\ commits < MaxCommits /\ leaking_cycles < MaxLeaking
  /\ \E wires \in [Wires -> Shown], applied \in SUBSET Wires, written \in SUBSET Cells :
       \E writes \in [written -> Shown] :
         \/ StepUnmeasured(wires, applied, writes)
         \/ StepSkipped(wires, applied, writes)
         \/ StepVerified(wires, applied, writes)
         \/ StepHigherOrder(wires, applied, writes)
  /\ UNCHANGED setup

-----------------------------------------------------------------------------
(* The measure.  Calls out of order print a message and change nothing.    *)

\* begin_cycle_ (mutants: one too early, never recorded)
BeginEarly == steps - 1
BeginZero == 0
BeginCycle == steps

begin_measure ==
  /\ ~crashed /\ ~measure.started
  /\ measure' = [measure EXCEPT !.started = TRUE, !.begin_cycle = BeginCycle]
  /\ began' = commits
  /\ UNCHANGED << setup, steps, database, inputs_of_stabilized_gate, cache, report, higher,
                  circuit >>

end_measure ==
  /\ ~crashed /\ Measuring
  /\ measure' = [measure EXCEPT !.ended = TRUE, !.end_cycle = steps]
  /\ UNCHANGED << setup, steps, database, inputs_of_stabilized_gate, cache, report, higher,
                  circuit, began >>

Next == Step \/ begin_measure \/ end_measure

Spec == Init /\ [][Next]_vars

-----------------------------------------------------------------------------
Entries == [expr : Node \union {NULL}, ls : SUBSET (Node \ ConstNode)]
FilledEntries == [expr : Node, ls : SUBSET (Node \ ConstNode)]

TypeOK ==
  /\ setup \in Setups
  /\ steps \in Nat /\ commits \in Nat /\ began \in Nat /\ leaking_cycles \in Nat
  /\ measure \in [started : BOOLEAN, ended : BOOLEAN, begin_cycle : Nat, end_cycle : Nat]
  /\ database \in [now : [Wires -> Entries], before : [Wires -> Entries]]
  /\ inputs_of_stabilized_gate \subseteq Wires
  /\ verified_nodes \subseteq (SUBSET Node) \X BOOLEAN
  /\ verified_sets \subseteq (SUBSET Node) \X BOOLEAN
  /\ memory \in [Cells -> Node]
  /\ past \in [verified : BOOLEAN, wires : [Wires -> Shown \union {Nothing}],
               applied : SUBSET Wires]
  /\ database_ho \in Seq([cycle : Nat, entries : [Wires -> FilledEntries]])
  /\ crashed \in BOOLEAN

\* Every verdict in the cache is the one the verification would give wherever
\* the entry may be looked up again: on an output as on an internal wire, for
\* a value as for a transition, for a wire as for a tuple.
CacheSound ==
  \A v \in verified_nodes \union verified_sets :
    \A outputs \in OutputCounts(setup) : v[2] = Secure(setup.property, v[1], outputs)

\* The number of leaks reported for every measured cycle is that of the
\* circuit's own history: the cache, the two databases, the wires elected in
\* this cycle and the one before and the cycle numbers add no leak, lose none
\* and move none to another cycle.
ReportsExact == leaks_per_cycles = expected

\* The report of a cycle is final: no later step overwrites it.
ReportsKept == [][leaks_per_cycles \subseteq leaks_per_cycles']_vars

\* stat(): LeakingCycles counts the cycles in which a leak was found.
LeakingCyclesExact ==
  ORDER_VERIF = 1 => leaking_cycles = Cardinality({r \in leaks_per_cycles : r[2] > 0})

\* stat(), when no cycle is skipped: LeakingCycles counts the cycles in which
\* a leak was found, Cycles those that were verified.
StatExact ==
  SKIP_VERIF_CYCLES = 0 /\ ORDER_VERIF = 1 =>
    /\ LeakingCyclesExact
    /\ measure.ended =>
         measure.end_cycle - measure.begin_cycle = Cardinality(leaks_per_cycles)

\* Temporal combinations never look up a cycle database_ho_ does not hold.
CyclesAvailable == ~crashed

\* At higher orders no combination of at most ORDER_VERIF observations is
\* missed: of wires in one verified cycle, or of verified cycles of one wire
\* (once there are two of them).
EveryTupleAsked ==
  LET cycles == {database_ho[i].cycle : i \in DOMAIN database_ho}
      atmost(S) == {T \in SUBSET S : Cardinality(T) <= ORDER_VERIF}
  IN ORDER_VERIF > 1 =>
       IF HIGHER_ORDER_TYPE = "SPATIAL"
       THEN \A c \in cycles : \A T \in atmost(Wires \X {c}) : \E tuple \in asked : T \subseteq tuple
       ELSE Cardinality(cycles) > 1 =>
              \A w \in Wires : \A T \in atmost({w} \X cycles) : \E tuple \in asked : T \subseteq tuple
=============================================================================
