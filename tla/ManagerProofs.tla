---------------------------- MODULE ManagerProofs ----------------------------
(***************************************************************************)
(* For every circuit and configuration: the cache of the Manager never     *)
(* changes a verdict, and the reports are those of the circuit's history.  *)
(***************************************************************************)
EXTENDS Manager, FiniteSetTheorems, WellFoundedInduction, TLAPS

-----------------------------------------------------------------------------
(* What is submitted, and the verdicts                                     *)

\* A circuit and configuration are what the assumption says of them.
LEMMA SetupKnown ==
  ASSUME setup \in Setups
  PROVE  /\ Shown \subseteq [expr : Node, ls : SUBSET (Node \ ConstNode), curr : BOOLEAN]
         /\ Checks \subseteq Kinds /\ setup.property \in {"TPS", "NI", "SNI"}
         /\ IsFiniteSet(Wires) /\ ORDER_VERIF \in Nat \ {0}
         /\ RegsAndOutputs \subseteq Wires /\ OutputWires \subseteq Wires
         /\ Topology \in [Wires -> SUBSET Wires]
         /\ MuxBranches \in [Wires -> [a : SUBSET Wires, b : SUBSET Wires]]
         /\ MaxCommits \in Nat /\ CYCLES_TO_VERIFY \in Nat /\ SKIP_VERIF_CYCLES \in Nat
         /\ EXIT_AT_FIRST_LEAKING_CYCLE \in BOOLEAN
         /\ SNI \/ ORDER_VERIF > 1 => Checks \subseteq {"vwog", "vwg"}
  <1>1. SetupAssumption(setup)
    BY SetupsAssumption
  <1> QED
    BY <1>1 DEF SetupAssumption, Shown, Checks, Wires, ORDER_VERIF, RegsAndOutputs, OutputWires,
                Topology, MuxBranches, MaxCommits, CYCLES_TO_VERIFY, SKIP_VERIF_CYCLES,
                EXIT_AT_FIRST_LEAKING_CYCLE, SNI

\* A name is not both a wire and a cell.
LEMMA SetupDisjoint == ASSUME setup \in Setups PROVE Wires \intersect Cells = {}
  <1>1. SetupAssumption(setup)
    BY SetupsAssumption
  <1> QED
    BY <1>1 DEF SetupAssumption, Wires, Cells

\* Only expressions are submitted, whatever the entries hold.
LEMMA SubmittedType ==
  ASSUME NEW kind \in Kinds, NEW now, NEW before,
         now.expr \in Node, now.ls \in SUBSET (Node \ ConstNode),
         before.expr \in Node \union {NULL}, before.ls \in SUBSET (Node \ ConstNode)
  PROVE  Submitted(kind, now, before) \subseteq Node
  <1>1. CASE kind = "vwog"
    BY <1>1 DEF Submitted
  <1>2. CASE kind = "twog"
    <2>1. twog(now.expr, before.expr) \subseteq Node
      BY NodeAssumption DEF twog
    <2> QED BY <1>2, <2>1 DEF Submitted
  <1>3. CASE kind = "vwg"
    BY <1>3 DEF Submitted
  <1>4. CASE kind = "twg"
    <2>1. Submitted(kind, now, before)
            = now.ls \union (IF OVER_APPROX THEN before.ls ELSE Own(before.expr))
      BY <1>4 DEF Submitted
    <2>2. Own(before.expr) \subseteq Node
      BY DEF Own
    <2> QED BY <2>1, <2>2
  <1> QED BY <1>1, <1>2, <1>3, <1>4 DEF Kinds

\* A sound cache answers what the verification would.
LEMMA VerdictSound ==
  ASSUME setup \in Setups, CacheSound,
         NEW kind \in Kinds, NEW set \in SUBSET Node, NEW outputs \in OutputCounts(setup)
  PROVE  IsSecure(kind, set, outputs) <=> (set = {} \/ Secure(setup.property, set, outputs))
  <1>1. CacheOf(kind) \subseteq verified_nodes \union verified_sets
    BY DEF CacheOf
  <1>2. << set, TRUE >> \in CacheOf(kind) => Secure(setup.property, set, outputs)
    <2> SUFFICES ASSUME << set, TRUE >> \in CacheOf(kind)
                 PROVE  Secure(setup.property, set, outputs)
      OBVIOUS
    <2>1. << set, TRUE >>[2] = Secure(setup.property, << set, TRUE >>[1], outputs)
      BY <1>1 DEF CacheSound
    <2> QED BY <2>1
  <1>3. << set, FALSE >> \in CacheOf(kind) => ~Secure(setup.property, set, outputs)
    <2> SUFFICES ASSUME << set, FALSE >> \in CacheOf(kind)
                 PROVE  ~Secure(setup.property, set, outputs)
      OBVIOUS
    <2>1. << set, FALSE >>[2] = Secure(setup.property, << set, FALSE >>[1], outputs)
      BY <1>1 DEF CacheSound
    <2> QED BY <2>1
  <1> QED
    BY <1>2, <1>3 DEF IsSecure

\* Verdicts are the same whatever the outputs counted, unless the property is SNI.
LEMMA OutputsIrrelevant ==
  ASSUME setup \in Setups, ~SNI, NEW set \in SUBSET Node,
         NEW o1 \in OutputCounts(setup), NEW o2 \in OutputCounts(setup)
  PROVE  /\ Secure(setup.property, set, o1) = Secure(setup.property, set, o2)
         /\ Secure(setup.property, set, o1) \in BOOLEAN
  <1>1. setup.property \in {"TPS", "NI"}
    BY SetupKnown DEF SNI
  <1> QED
    BY <1>1, SecureAssumption

\* What a verdict adds to the cache is what every later verdict would be.
LEMMA RememberedSound ==
  ASSUME setup \in Setups, CacheSound, NEW kinds \in SUBSET Kinds, NEW questions,
         \A q \in questions : /\ q.kind \in Kinds /\ q.set \in SUBSET Node
                              /\ q.outputs \in OutputCounts(setup)
  PROVE  \A v \in Remembered(kinds, questions) :
           /\ v \in (SUBSET Node) \X BOOLEAN
           /\ \A outputs \in OutputCounts(setup) : v[2] = Secure(setup.property, v[1], outputs)
  <1> SUFFICES ASSUME NEW v \in Remembered(kinds, questions)
               PROVE  /\ v \in (SUBSET Node) \X BOOLEAN
                      /\ \A outputs \in OutputCounts(setup) :
                           v[2] = Secure(setup.property, v[1], outputs)
    OBVIOUS
  <1>1. PICK q \in questions : /\ v = << q.set, IsSecure(q.kind, q.set, q.outputs) >>
                               /\ q.set # {} /\ ~SNI
    BY DEF Remembered
  <1>2. q.kind \in Kinds /\ q.set \in SUBSET Node /\ q.outputs \in OutputCounts(setup)
    OBVIOUS
  <1>3. IsSecure(q.kind, q.set, q.outputs) <=> Secure(setup.property, q.set, q.outputs)
    BY <1>1, <1>2, VerdictSound
  <1>4. Secure(setup.property, q.set, q.outputs) \in BOOLEAN
    BY <1>1, <1>2, OutputsIrrelevant
  <1>5. IsSecure(q.kind, q.set, q.outputs) \in BOOLEAN
    BY DEF IsSecure
  <1>6. IsSecure(q.kind, q.set, q.outputs) = Secure(setup.property, q.set, q.outputs)
    BY <1>3, <1>4, <1>5
  <1>7. \A outputs \in OutputCounts(setup) :
          Secure(setup.property, q.set, q.outputs) = Secure(setup.property, q.set, outputs)
    BY <1>1, <1>2, OutputsIrrelevant
  <1> QED BY <1>1, <1>2, <1>5, <1>6, <1>7

\* The questions of an order-one verification are well formed.
LEMMA QuestionsType ==
  ASSUME setup \in Setups, NEW elected \in SUBSET Wires, NEW wires \in [Wires -> Shown],
         NEW written \in SUBSET Cells, NEW writes \in [written -> Shown],
         NEW before \in [Wires -> Entries], memory \in [Cells -> Node], ORDER_VERIF = 1
  PROVE  \A q \in Questions(elected, wires, before, writes) :
           /\ q.kind \in Kinds /\ q.set \in SUBSET Node /\ q.outputs \in OutputCounts(setup)
  <1> DEFINE now(p) == IF p \in Cells THEN writes[p] ELSE wires[p]
             old(p) == IF p \in Cells THEN [expr |-> memory[p], ls |-> Own(memory[p])] ELSE before[p]
             Q(kind, p) == [kind |-> kind, place |-> p, outputs |-> Counted(kind, p),
                            set |-> Submitted(kind, now(p), old(p))]
  <1>a. Questions(elected, wires, before, writes)
          = UNION {{Q(kind, p) : p \in Places(kind, elected, writes)} : kind \in Checks}
    BY DEF Questions
  <1>b. \A kind, p : /\ Q(kind, p).kind = kind /\ Q(kind, p).outputs = Counted(kind, p)
                     /\ Q(kind, p).set = Submitted(kind, now(p), old(p))
    OBVIOUS
  <1> HIDE DEF Q
  <1> SUFFICES ASSUME NEW kind \in Checks, NEW p \in Places(kind, elected, writes)
               PROVE  /\ kind \in Kinds /\ Submitted(kind, now(p), old(p)) \in SUBSET Node
                      /\ Counted(kind, p) \in OutputCounts(setup)
    <2> HIDE DEF now, old
    <2> QED BY <1>a, <1>b
  <1>1. kind \in Kinds
    BY SetupKnown
  <1>2. p \in Wires \/ p \in written
    BY DEF Places
  <1>3. now(p) \in Shown
    <2>1. CASE p \in Cells
      <3>1. p \in written
        BY <2>1, <1>2, SetupDisjoint
      <3> QED BY <2>1, <3>1
    <2>2. CASE p \notin Cells
      BY <2>2, <1>2
    <2> QED BY <2>1, <2>2
  <1>4. now(p).expr \in Node /\ now(p).ls \in SUBSET (Node \ ConstNode)
    <2>1. now(p) \in [expr : Node, ls : SUBSET (Node \ ConstNode), curr : BOOLEAN]
      BY <1>3, SetupKnown
    <2> HIDE DEF now
    <2> QED BY <2>1
  <1>5. old(p).expr \in Node \union {NULL} /\ old(p).ls \in SUBSET (Node \ ConstNode)
    <2>1. CASE p \in Cells
      <3>1. memory[p] \in Node
        BY <2>1
      <3> QED BY <2>1, <3>1 DEF Own
    <2>2. CASE p \notin Cells
      <3>1. before[p] \in Entries
        BY <2>2, <1>2
      <3> QED BY <2>2, <3>1 DEF Entries
    <2> QED BY <2>1, <2>2
  <1>6. Submitted(kind, now(p), old(p)) \subseteq Node
    <2> HIDE DEF now, old
    <2> QED BY <1>1, <1>4, <1>5, SubmittedType
  <1>7. Counted(kind, p) \in OutputCounts(setup)
    <2>1. Counted(kind, p) \in {0, 1}
      BY DEF Counted, Outputs
    <2> QED BY <2>1 DEF OutputCounts, ORDER_VERIF
  <1> HIDE DEF now, old
  <1> QED BY <1>1, <1>6, <1>7

HoEntries == [cycle : Nat, entries : [Wires -> FilledEntries]]

\* A point looked up in the history is an entry of a wire.
LEMMA PointsType ==
  ASSUME setup \in Setups, NEW now \in Nat \ {0}, steps \in Nat, measure.begin_cycle \in Nat,
         Available(Tuples(now), now), NEW tuple \in Tuples(now)
  PROVE  tuple \subseteq Wires \X (1 .. now)
  <1>1. CASE HIGHER_ORDER_TYPE = "SPATIAL"
    <2>1. tuple \subseteq Wires \X {now}
      BY <1>1 DEF Tuples, SpatialTuples, Combinations
    <2> QED BY <2>1
  <1>2. CASE HIGHER_ORDER_TYPE # "SPATIAL"
    <2>1. tuple \in TemporalTuples(now)
      BY <1>2 DEF Tuples
    <2>2. PICK w \in Wires, S \in Combinations(1 .. MeasureCycle, Earlier) :
            tuple = {w} \X ({now} \union S)
      BY <2>1 DEF TemporalTuples
    <2>3. S \subseteq 1 .. MeasureCycle /\ MeasureCycle \in Int
      BY <2>2 DEF Combinations, MeasureCycle
    <2>4. \A point \in tuple : point \in Wires \X (1 .. now)
      <3> SUFFICES ASSUME NEW point \in tuple PROVE point \in Wires \X (1 .. now)
        OBVIOUS
      <3> DEFINE c == point[2]
      <3>1. point \in {w} \X ({now} \union S)
        BY <2>2
      <3>2. point = << point[1], c >> /\ point[1] = w /\ c \in {now} \union S
        BY <3>1
      <3>3. c \in Nat /\ c >= 1 /\ c <= now
        BY <2>3, <3>2 DEF Available
      <3> HIDE DEF c
      <3> QED BY <3>2, <3>3
    <2> QED BY <2>4
  <1> QED BY <1>1, <1>2

\* No tuple has more outputs than the order.
LEMMA TupleOutputs ==
  ASSUME setup \in Setups, NEW now \in Nat, NEW tuple \in SpatialTuples(now)
  PROVE  Cardinality({point \in tuple : point[1] \in OutputWires}) \in OutputCounts(setup)
  <1> DEFINE O == {point \in tuple : point[1] \in OutputWires}
  <1>1. tuple \subseteq Wires \X {now} /\ Cardinality(tuple) = ORDER_VERIF
    BY DEF SpatialTuples, Combinations
  <1>2. IsFiniteSet(Wires \X {now})
    BY SetupKnown, FS_Singleton, FS_Product
  <1>3. IsFiniteSet(tuple)
    BY <1>1, <1>2, FS_Subset
  <1>4. IsFiniteSet(O) /\ Cardinality(O) <= Cardinality(tuple)
    BY <1>3, FS_Subset
  <1>5. Cardinality(O) \in Nat
    BY <1>4, FS_CardinalityType
  <1> QED
    BY <1>1, <1>4, <1>5, SetupKnown DEF OutputCounts, ORDER_VERIF

\* The questions of a higher-order verification are well formed.
LEMMA TupleQuestionsType ==
  ASSUME setup \in Setups, steps \in Nat, measure.begin_cycle \in Nat,
         NEW ho \in Seq(HoEntries), Len(ho) > 0, Available(Tuples(Len(ho)), Len(ho)),
         NEW kind \in Checks, ORDER_VERIF > 1, NEW tuple \in Tuples(Len(ho))
  PROVE  LET q == TupleQuestion(kind, tuple, ho)
         IN  q.kind \in Kinds /\ q.set \in SUBSET Node /\ q.outputs \in OutputCounts(setup)
  <1> DEFINE q == TupleQuestion(kind, tuple, ho)
             entries == {ho[point[2]].entries[point[1]] : point \in tuple}
  <1>1. tuple \subseteq Wires \X (1 .. Len(ho))
    BY PointsType
  <1>2. \A e \in entries : e.expr \in Node /\ e.ls \in SUBSET (Node \ ConstNode)
    <2> SUFFICES ASSUME NEW point \in tuple
                 PROVE  LET e == ho[point[2]].entries[point[1]]
                        IN  e.expr \in Node /\ e.ls \in SUBSET (Node \ ConstNode)
      OBVIOUS
    <2>1. point[1] \in Wires /\ point[2] \in 1 .. Len(ho)
      BY <1>1
    <2>2. ho[point[2]] \in HoEntries
      BY <2>1
    <2>3. ho[point[2]].entries \in [Wires -> FilledEntries]
      BY <2>2 DEF HoEntries
    <2>4. ho[point[2]].entries[point[1]] \in FilledEntries
      BY <2>1, <2>3
    <2> QED BY <2>4 DEF FilledEntries
  <1>3. q.kind = kind /\ q.set = IF kind = "vwog" THEN {e.expr : e \in entries} \ ConstNode
                                 ELSE UNION {e.ls : e \in entries}
    BY DEF TupleQuestion
  <1>4. q.set \in SUBSET Node
    <2> HIDE DEF q, entries
    <2> QED BY <1>2, <1>3
  <1>5. q.outputs \in OutputCounts(setup)
    <2>1. CASE HIGHER_ORDER_TYPE = "SPATIAL"
      <3>1. tuple \in SpatialTuples(Len(ho)) /\ Len(ho) \in Nat
        BY <2>1 DEF Tuples
      <3>2. q.outputs = Cardinality({point \in tuple : point[1] \in OutputWires})
        BY <2>1 DEF TupleQuestion
      <3> HIDE DEF q
      <3> QED BY <3>1, <3>2, TupleOutputs
    <2>2. CASE HIGHER_ORDER_TYPE # "SPATIAL"
      <3>1. q.outputs = 0
        BY <2>2 DEF TupleQuestion
      <3> HIDE DEF q
      <3> QED BY <3>1, SetupKnown DEF OutputCounts, ORDER_VERIF
    <2> QED BY <2>1, <2>2
  <1>6. q.kind \in Kinds
    BY <1>3, SetupKnown
  <1> QED BY <1>4, <1>5, <1>6

-----------------------------------------------------------------------------
(* The types, and the soundness of the cache                               *)

\* The measure began in a cycle the circuit has reached.
Began == began <= commits

\* The inductive invariant
CacheInv == TypeOK /\ CacheSound /\ Began

\* What no step of the circuit touches keeps its type; what commit() writes has one.
LEMMA FinishType ==
  ASSUME TypeOK, NEW wires \in [Wires -> Shown], NEW applied \in SUBSET Wires,
         NEW written \in SUBSET Cells, NEW writes \in [written -> Shown], NEW verified \in BOOLEAN,
         setup' = setup, Finish(wires, applied, writes, verified) \/ Abandon
  PROVE  /\ steps' \in Nat /\ commits' \in Nat /\ (memory \in [Cells -> Node])'
         /\ (past \in [verified : BOOLEAN, wires : [Wires -> Shown \union {Nothing}],
                       applied : SUBSET Wires])'
        /\ commits <= commits'
  <1>1. setup \in Setups /\ steps \in Nat /\ commits \in Nat /\ memory \in [Cells -> Node]
    BY DEF TypeOK
  <1>2. CASE Abandon
    BY <1>2 DEF Abandon, circuit, TypeOK, Wires, Cells, Shown
  <1>3. CASE Finish(wires, applied, writes, verified)
    <2>1. \A c \in written : writes[c].expr \in Node
      <3> SUFFICES ASSUME NEW c \in written PROVE writes[c].expr \in Node
        OBVIOUS
      <3>1. writes[c] \in [expr : Node, ls : SUBSET (Node \ ConstNode), curr : BOOLEAN]
        BY <1>1, SetupKnown
      <3> QED BY <3>1
    <2>2. memory' = [c \in Cells |-> IF c \in DOMAIN writes THEN writes[c].expr ELSE memory[c]]
      BY <1>3 DEF Finish
    <2>3. memory' \in [Cells -> Node]
      BY <1>1, <2>1, <2>2
    <2>4. past' = [verified |-> verified, wires |-> wires, applied |-> applied]
      BY <1>3 DEF Finish
    <2>5. past' \in [verified : BOOLEAN, wires : [Wires -> Shown \union {Nothing}],
                     applied : SUBSET Wires]
      BY <2>4
    <2>6. commits' \in Nat /\ commits <= commits'
      BY <1>1, <1>3 DEF Finish
    <2>7. steps' \in Nat
      BY <1>1, <1>3 DEF Finish, CountCycle
    <2> QED BY <2>3, <2>5, <2>6, <2>7 DEF Wires, Cells, Shown
  <1> QED BY <1>2, <1>3

\* A filled database is one, and its entries before are those of the last one.
LEMMA AdvancedType ==
  ASSUME TypeOK, NEW wires \in [Wires -> Shown]
  PROVE  /\ Advanced(wires) \in [now : [Wires -> Entries], before : [Wires -> Entries]]
         /\ Advanced(wires).now = [w \in Wires |-> EntryOf(wires[w])]
         /\ Advanced(wires).now \in [Wires -> FilledEntries]
         /\ Advanced(wires).before = database.now
         /\ database.now \in [Wires -> Entries]
  <1>1. database.now \in [Wires -> Entries] /\ setup \in Setups
    BY DEF TypeOK
  <1>2. \A w \in Wires : EntryOf(wires[w]) \in FilledEntries
    <2> SUFFICES ASSUME NEW w \in Wires PROVE EntryOf(wires[w]) \in FilledEntries
      OBVIOUS
    <2>1. wires[w] \in [expr : Node, ls : SUBSET (Node \ ConstNode), curr : BOOLEAN]
      BY <1>1, SetupKnown
    <2> QED BY <2>1 DEF EntryOf, FilledEntries
  <1>3. FilledEntries \subseteq Entries
    BY DEF FilledEntries, Entries
  <1> QED BY <1>1, <1>2, <1>3 DEF Advanced

\* The inputs a cycle elects are wires.
LEMMA ElectedType ==
  ASSUME setup \in Setups, NEW wires \in [Wires -> Shown \union {Nothing}],
         NEW applied \in SUBSET Wires
  PROVE  /\ GateInputs(wires, applied) \subseteq Wires
         /\ inputs_of_stabilized_gate \subseteq Wires => Elected(wires, applied) \subseteq Wires
  <1>1. \A g \in Wires : Topology[g] \subseteq Wires /\ MuxBranches[g].a \subseteq Wires
                         /\ MuxBranches[g].b \subseteq Wires
    <2> SUFFICES ASSUME NEW g \in Wires
                 PROVE  Topology[g] \subseteq Wires /\ MuxBranches[g].a \subseteq Wires
                        /\ MuxBranches[g].b \subseteq Wires
      OBVIOUS
    <2>1. MuxBranches[g] \in [a : SUBSET Wires, b : SUBSET Wires]
      BY SetupKnown
    <2> QED BY <2>1, SetupKnown
  <1>2. GateInputs(wires, applied) \subseteq Wires
    BY <1>1 DEF GateInputs
  <1> QED BY <1>2, SetupKnown DEF Elected

\* An order-one verification keeps the types and a sound cache.
LEMMA VerifiedCacheInv ==
  ASSUME CacheInv, NEW wires \in [Wires -> Shown], NEW applied \in SUBSET Wires,
         NEW written \in SUBSET Cells, NEW writes \in [written -> Shown],
         StepVerified(wires, applied, writes), setup' = setup
  PROVE  CacheInv'
  <1> USE DEF CacheInv
  <1> DEFINE questions == Questions(Elected(wires, applied), wires, Advanced(wires).before, writes)
             leaks == Cardinality(Leaks(questions))
  <1>1. /\ database' = Advanced(wires) /\ inputs_of_stabilized_gate' = GateInputs(wires, applied)
        /\ verified_nodes' = verified_nodes \union Remembered({"vwog", "twog"}, questions)
        /\ verified_sets' = verified_sets \union Remembered({"vwg", "twg"}, questions)
        /\ leaking_cycles' = leaking_cycles + Leaking(leaks)
        /\ ORDER_VERIF = 1
        /\ Finish(wires, applied, writes, TRUE) \/ Abandon
        /\ UNCHANGED << measure, higher, began >>
    BY DEF StepVerified
  <1>2. setup \in Setups /\ memory \in [Cells -> Node] /\ inputs_of_stabilized_gate \subseteq Wires
    BY DEF TypeOK
  <1>3. \A q \in questions : /\ q.kind \in Kinds /\ q.set \in SUBSET Node
                             /\ q.outputs \in OutputCounts(setup)
    <2>1. Elected(wires, applied) \in SUBSET Wires /\ Advanced(wires).before \in [Wires -> Entries]
      BY <1>2, ElectedType, AdvancedType
    <2> QED BY <1>1, <1>2, <2>1, QuestionsType
  <1> HIDE DEF questions, leaks
  <1>4. \A v \in verified_nodes' \union verified_sets' :
          /\ v \in (SUBSET Node) \X BOOLEAN
          /\ \A outputs \in OutputCounts(setup) : v[2] = Secure(setup.property, v[1], outputs)
    <2>1. {"vwog", "twog"} \in SUBSET Kinds /\ {"vwg", "twg"} \in SUBSET Kinds
      BY DEF Kinds
    <2>2. \A v \in Remembered({"vwog", "twog"}, questions) :
            /\ v \in (SUBSET Node) \X BOOLEAN
            /\ \A outputs \in OutputCounts(setup) : v[2] = Secure(setup.property, v[1], outputs)
      BY <1>2, <1>3, <2>1, RememberedSound
    <2>4. \A v \in Remembered({"vwg", "twg"}, questions) :
            /\ v \in (SUBSET Node) \X BOOLEAN
            /\ \A outputs \in OutputCounts(setup) : v[2] = Secure(setup.property, v[1], outputs)
      BY <1>2, <1>3, <2>1, RememberedSound
    <2>3. \A v \in verified_nodes \union verified_sets :
            /\ v \in (SUBSET Node) \X BOOLEAN
            /\ \A outputs \in OutputCounts(setup) : v[2] = Secure(setup.property, v[1], outputs)
      BY DEF TypeOK, CacheSound
    <2> QED BY <1>1, <2>2, <2>3, <2>4
  <1>5. CacheSound'
    BY <1>4 DEF CacheSound, OutputCounts
  <1>6. /\ steps' \in Nat /\ commits' \in Nat /\ (memory \in [Cells -> Node])'
        /\ (past \in [verified : BOOLEAN, wires : [Wires -> Shown \union {Nothing}],
                      applied : SUBSET Wires])'
        /\ commits <= commits'
    BY <1>1, FinishType
  <1>7. leaking_cycles' \in Nat
    BY <1>1 DEF TypeOK, Leaking
  <1>8. /\ (database \in [now : [Wires -> Entries], before : [Wires -> Entries]])'
        /\ (inputs_of_stabilized_gate \subseteq Wires)'
    <2>1. wires \in [Wires -> Shown \union {Nothing}]
      OBVIOUS
    <2> QED BY <1>1, <1>2, <2>1, AdvancedType, ElectedType DEF Wires
  <1>9. /\ (database_ho \in Seq([cycle : Nat, entries : [Wires -> FilledEntries]]))'
        /\ crashed' \in BOOLEAN /\ setup' \in Setups /\ began' \in Nat
        /\ measure' \in [started : BOOLEAN, ended : BOOLEAN, begin_cycle : Nat, end_cycle : Nat]
    BY <1>1 DEF TypeOK, higher, Wires
  <1>10. Began'
    BY <1>6, <1>1 DEF Began, TypeOK
  <1> QED
    BY <1>4, <1>5, <1>6, <1>7, <1>8, <1>9, <1>10 DEF TypeOK

\* A higher-order verification does too, whether or not it looks up a cycle the
\* history does not hold.
LEMMA HigherOrderCacheInv ==
  ASSUME CacheInv, NEW wires \in [Wires -> Shown], NEW applied \in SUBSET Wires,
         NEW written \in SUBSET Cells, NEW writes \in [written -> Shown],
         StepHigherOrder(wires, applied, writes), setup' = setup
  PROVE  CacheInv'
  <1> USE DEF CacheInv
  <1> DEFINE ho == PushBack(wires)
             tuples == Tuples(Len(ho))
             questions == TupleQuestions(tuples, ho)
             leaks == Cardinality(Leaks(questions))
  <1>1. /\ database' = Advanced(wires) /\ inputs_of_stabilized_gate' = GateInputs(wires, applied)
        /\ database_ho' = ho /\ ORDER_VERIF > 1
        /\ UNCHANGED << measure, began >>
    BY DEF StepHigherOrder
  <1>2. setup \in Setups /\ memory \in [Cells -> Node] /\ inputs_of_stabilized_gate \subseteq Wires
        /\ steps \in Nat /\ measure.begin_cycle \in Nat
    BY DEF TypeOK
  <1>3. ho \in Seq(HoEntries) /\ Len(ho) > 0
    <2>1. commits - began \in Nat
      BY DEF Began, TypeOK
    <2>2. [cycle |-> commits - began, entries |-> Advanced(wires).now] \in HoEntries
      BY <2>1, AdvancedType DEF HoEntries
    <2>3. database_ho \in Seq(HoEntries)
      BY DEF TypeOK, HoEntries
    <2>4. Append(database_ho, [cycle |-> commits - began, entries |-> Advanced(wires).now])
            \in Seq(HoEntries)
      BY <2>2, <2>3
    <2>5. Len(Append(database_ho, [cycle |-> commits - began, entries |-> Advanced(wires).now])) > 0
      BY <2>3
    <2> QED BY <2>4, <2>5 DEF PushBack
  <1> HIDE DEF ho
  <1>4. \/ /\ crashed' \in BOOLEAN /\ Abandon /\ UNCHANGED << leaking_cycles, cache >>
        \/ /\ Available(tuples, Len(ho))
           /\ verified_nodes' = verified_nodes \union Remembered({"vwog"}, questions)
           /\ verified_sets' = verified_sets \union Remembered({"vwg"}, questions)
           /\ leaking_cycles' = leaking_cycles + Leaking(leaks)
           /\ crashed' \in BOOLEAN
           /\ Finish(wires, applied, writes, TRUE) \/ Abandon
    <2>0. IF ~Available(tuples, Len(ho))
          THEN crashed' = TRUE /\ Abandon /\ UNCHANGED << leaking_cycles, cache, asked >>
          ELSE /\ verified_nodes' = verified_nodes \union Remembered({"vwog"}, questions)
               /\ verified_sets' = verified_sets \union Remembered({"vwg"}, questions)
               /\ leaking_cycles' = leaking_cycles + Leaking(leaks)
               /\ asked' = asked \union {Real(tuple, ho) : tuple \in tuples}
               /\ crashed' = FALSE
               /\ IF leaks > 0 /\ EXIT_AT_FIRST_LEAKING_CYCLE THEN Abandon
                  ELSE Finish(wires, applied, writes, TRUE)
      BY Zenon DEF StepHigherOrder, ho
    <2> HIDE DEF questions, leaks, tuples
    <2>1. CASE ~Available(tuples, Len(ho))
      <3>1. crashed' = TRUE /\ Abandon /\ UNCHANGED << leaking_cycles, cache, asked >>
        BY <2>0, <2>1, Zenon
      <3>2. UNCHANGED << leaking_cycles, cache >>
        BY <3>1
      <3>3. crashed' \in BOOLEAN
        BY <3>1
      <3> QED BY <3>1, <3>2, <3>3, Zenon
    <2>2. CASE Available(tuples, Len(ho))
      <3>1. /\ verified_nodes' = verified_nodes \union Remembered({"vwog"}, questions)
            /\ verified_sets' = verified_sets \union Remembered({"vwg"}, questions)
            /\ leaking_cycles' = leaking_cycles + Leaking(leaks)
            /\ crashed' = FALSE
            /\ IF leaks > 0 /\ EXIT_AT_FIRST_LEAKING_CYCLE THEN Abandon
               ELSE Finish(wires, applied, writes, TRUE)
        BY <2>0, <2>2, Zenon
      <3>2. Finish(wires, applied, writes, TRUE) \/ Abandon
        BY <3>1, Zenon
      <3>3. crashed' \in BOOLEAN
        BY <3>1
      <3> QED BY <2>2, <3>1, <3>2, <3>3, Zenon
    <2> QED BY <2>1, <2>2, Zenon
  <1> HIDE DEF leaks, questions, tuples
  <1>5. Finish(wires, applied, writes, TRUE) \/ Abandon
    BY <1>4, Zenon
  <1>6. leaking_cycles' \in Nat /\ crashed' \in BOOLEAN
    <2>1. Leaking(leaks) \in Nat
      BY DEF Leaking
    <2>2. leaking_cycles' = leaking_cycles \/ leaking_cycles' = leaking_cycles + Leaking(leaks)
      BY <1>4, Zenon
    <2>3. leaking_cycles \in Nat
      BY DEF TypeOK
    <2>4. crashed' \in BOOLEAN
      BY <1>4, Zenon
    <2> QED BY <2>1, <2>2, <2>3, <2>4
  <1>7. \A v \in verified_nodes' \union verified_sets' :
          /\ v \in (SUBSET Node) \X BOOLEAN
          /\ \A outputs \in OutputCounts(setup) : v[2] = Secure(setup.property, v[1], outputs)
    <2>1. \A v \in verified_nodes \union verified_sets :
            /\ v \in (SUBSET Node) \X BOOLEAN
            /\ \A outputs \in OutputCounts(setup) : v[2] = Secure(setup.property, v[1], outputs)
      BY DEF TypeOK, CacheSound
    <2>2. CASE UNCHANGED cache
      BY <2>1, <2>2 DEF cache
    <2>3. CASE /\ Available(tuples, Len(ho))
               /\ verified_nodes' = verified_nodes \union Remembered({"vwog"}, questions)
               /\ verified_sets' = verified_sets \union Remembered({"vwg"}, questions)
      <3>1. \A q \in questions : /\ q.kind \in Kinds /\ q.set \in SUBSET Node
                                 /\ q.outputs \in OutputCounts(setup)
        BY <1>1, <1>2, <1>3, <2>3, TupleQuestionsType DEF questions, tuples, TupleQuestions
      <3>2. {"vwog"} \in SUBSET Kinds /\ {"vwg"} \in SUBSET Kinds
        BY DEF Kinds
      <3> HIDE DEF questions
      <3>3. \A v \in Remembered({"vwog"}, questions) :
              /\ v \in (SUBSET Node) \X BOOLEAN
              /\ \A outputs \in OutputCounts(setup) : v[2] = Secure(setup.property, v[1], outputs)
        BY <1>2, <3>1, <3>2, RememberedSound
      <3>4. \A v \in Remembered({"vwg"}, questions) :
              /\ v \in (SUBSET Node) \X BOOLEAN
              /\ \A outputs \in OutputCounts(setup) : v[2] = Secure(setup.property, v[1], outputs)
        BY <1>2, <3>1, <3>2, RememberedSound
      <3> QED BY <2>1, <2>3, <3>3, <3>4
    <2>4. \/ UNCHANGED cache
          \/ /\ Available(tuples, Len(ho))
             /\ verified_nodes' = verified_nodes \union Remembered({"vwog"}, questions)
             /\ verified_sets' = verified_sets \union Remembered({"vwg"}, questions)
      BY <1>4
    <2> QED BY <2>2, <2>3, <2>4
  <1>8. CacheSound'
    BY <1>7 DEF CacheSound, OutputCounts
  <1>9. /\ steps' \in Nat /\ commits' \in Nat /\ (memory \in [Cells -> Node])'
        /\ (past \in [verified : BOOLEAN, wires : [Wires -> Shown \union {Nothing}],
                      applied : SUBSET Wires])'
        /\ commits <= commits'
    BY <1>5, FinishType
  <1>10. /\ (database \in [now : [Wires -> Entries], before : [Wires -> Entries]])'
         /\ (inputs_of_stabilized_gate \subseteq Wires)'
    <2>1. wires \in [Wires -> Shown \union {Nothing}]
      OBVIOUS
    <2> QED BY <1>1, <1>2, <2>1, AdvancedType, ElectedType DEF Wires
  <1>11. (database_ho \in Seq([cycle : Nat, entries : [Wires -> FilledEntries]]))'
    BY <1>1, <1>3 DEF HoEntries, Wires
  <1>12. /\ setup' \in Setups /\ began' \in Nat /\ Began'
         /\ measure' \in [started : BOOLEAN, ended : BOOLEAN, begin_cycle : Nat, end_cycle : Nat]
    BY <1>1, <1>9 DEF TypeOK, Began
  <1> QED
    BY <1>6, <1>7, <1>8, <1>9, <1>10, <1>11, <1>12 DEF TypeOK

\* A cycle that is not verified leaves the databases and the cache as they are.
LEMMA UnverifiedCacheInv ==
  ASSUME CacheInv, NEW wires \in [Wires -> Shown], NEW applied \in SUBSET Wires,
         NEW written \in SUBSET Cells, NEW writes \in [written -> Shown],
         StepUnmeasured(wires, applied, writes) \/ StepSkipped(wires, applied, writes),
         setup' = setup
  PROVE  CacheInv'
  <1> USE DEF CacheInv
  <1>1. /\ UNCHANGED << measure, database, inputs_of_stabilized_gate, cache, higher, began >>
        /\ leaking_cycles' \in Nat
        /\ Finish(wires, applied, writes, FALSE) \/ Abandon
    <2>1. leaking_cycles' \in Nat
      <3>1. leaking_cycles \in Nat
        BY DEF TypeOK
      <3>2. CASE StepUnmeasured(wires, applied, writes)
        BY <3>1, <3>2 DEF StepUnmeasured, report
      <3>3. CASE StepSkipped(wires, applied, writes)
        BY <3>1, <3>3 DEF StepSkipped
      <3> QED BY <3>2, <3>3
    <2>2. Finish(wires, applied, writes, FALSE) \/ Abandon
      BY Zenon DEF StepUnmeasured, StepSkipped
    <2>3. UNCHANGED << measure, database, inputs_of_stabilized_gate, cache, higher, began >>
      BY Zenon DEF StepUnmeasured, StepSkipped
    <2> QED BY <2>1, <2>2, <2>3
  <1>2. /\ steps' \in Nat /\ commits' \in Nat /\ (memory \in [Cells -> Node])'
        /\ (past \in [verified : BOOLEAN, wires : [Wires -> Shown \union {Nothing}],
                      applied : SUBSET Wires])'
        /\ commits <= commits'
    BY <1>1, FinishType
  <1>3. CacheSound'
    BY <1>1 DEF CacheSound, OutputCounts, cache
  <1>4. Began'
    BY <1>1, <1>2 DEF Began, TypeOK
  <1>5. /\ (database \in [now : [Wires -> Entries], before : [Wires -> Entries]])'
        /\ (inputs_of_stabilized_gate \subseteq Wires)'
        /\ (database_ho \in Seq([cycle : Nat, entries : [Wires -> FilledEntries]]))'
    BY <1>1 DEF TypeOK, higher, Wires
  <1>6. /\ verified_nodes' \subseteq (SUBSET Node) \X BOOLEAN
        /\ verified_sets' \subseteq (SUBSET Node) \X BOOLEAN
        /\ setup' \in Setups /\ began' \in Nat /\ crashed' \in BOOLEAN
        /\ measure' \in [started : BOOLEAN, ended : BOOLEAN, begin_cycle : Nat, end_cycle : Nat]
    BY <1>1 DEF TypeOK, cache, higher
  <1> QED
    BY <1>1, <1>2, <1>3, <1>4, <1>5, <1>6 DEF TypeOK

\* Beginning or ending the measure, or nothing, changes no verdict.
LEMMA MeasureCacheInv ==
  ASSUME CacheInv, begin_measure \/ end_measure \/ UNCHANGED vars
  PROVE  CacheInv'
  <1> USE DEF CacheInv
  <1>1. UNCHANGED << setup, steps, database, inputs_of_stabilized_gate, cache, report, higher,
                     circuit >>
    BY DEF begin_measure, end_measure, vars
  <1>2. /\ measure' \in [started : BOOLEAN, ended : BOOLEAN, begin_cycle : Nat, end_cycle : Nat]
        /\ began' \in Nat /\ Began'
    <2>1. CASE begin_measure
      <3>1. measure' = [measure EXCEPT !.started = TRUE, !.begin_cycle = steps] /\ began' = commits
            /\ commits' = commits
        BY <2>1, <1>1 DEF begin_measure, BeginCycle, circuit
      <3>2. /\ measure \in [started : BOOLEAN, ended : BOOLEAN, begin_cycle : Nat, end_cycle : Nat]
            /\ steps \in Nat /\ commits \in Nat
        BY DEF TypeOK
      <3>3. measure' \in [started : BOOLEAN, ended : BOOLEAN, begin_cycle : Nat, end_cycle : Nat]
        BY <3>1, <3>2
      <3>4. began' \in Nat /\ began' <= commits'
        BY <3>1, <3>2
      <3> QED BY <3>3, <3>4 DEF Began
    <2>2. CASE end_measure
      BY <2>2 DEF end_measure, TypeOK, Began, circuit
    <2>3. CASE UNCHANGED vars
      BY <2>3 DEF vars, TypeOK, Began, circuit
    <2> QED BY <2>1, <2>2, <2>3
  <1>3. CacheSound'
    BY <1>1 DEF CacheSound, OutputCounts, cache
  <1>4. TypeOK'
    <2>1. /\ setup' \in Setups /\ steps' \in Nat /\ commits' \in Nat /\ leaking_cycles' \in Nat
          /\ verified_nodes' \subseteq (SUBSET Node) \X BOOLEAN
          /\ verified_sets' \subseteq (SUBSET Node) \X BOOLEAN
          /\ crashed' \in BOOLEAN
      BY <1>1 DEF TypeOK, cache, report, higher, circuit
    <2>2. /\ (database \in [now : [Wires -> Entries], before : [Wires -> Entries]])'
          /\ (inputs_of_stabilized_gate \subseteq Wires)'
          /\ (database_ho \in Seq([cycle : Nat, entries : [Wires -> FilledEntries]]))'
      BY <1>1 DEF TypeOK, higher, Wires
    <2>3. /\ (memory \in [Cells -> Node])'
          /\ (past \in [verified : BOOLEAN, wires : [Wires -> Shown \union {Nothing}],
                        applied : SUBSET Wires])'
      BY <1>1 DEF TypeOK, circuit, Wires, Cells, Shown
    <2> QED BY <1>2, <2>1, <2>2, <2>3 DEF TypeOK
  <1> QED BY <1>2, <1>3, <1>4

\* The invariant holds at first and is kept by every step.
LEMMA CacheInductive == (Init => CacheInv) /\ (CacheInv /\ [Next]_vars => CacheInv')
  <1>1. ASSUME Init PROVE CacheInv
    <2>1. Unfilled \in Entries
      BY DEF Unfilled, Entries
    <2>2. /\ database \in [now : [Wires -> Entries], before : [Wires -> Entries]]
          /\ past \in [verified : BOOLEAN, wires : [Wires -> Shown \union {Nothing}],
                       applied : SUBSET Wires]
      BY <1>1, <2>1 DEF Init
    <2>3. memory \in [Cells -> Node]
      BY <1>1, NodeAssumption DEF Init
    <2>4. database_ho \in Seq([cycle : Nat, entries : [Wires -> FilledEntries]])
      BY <1>1 DEF Init
    <2>5. TypeOK
      BY <1>1, <2>2, <2>3, <2>4 DEF Init, TypeOK
    <2> QED BY <1>1, <2>5 DEF CacheInv, CacheSound, Began, Init
  <1>2. ASSUME CacheInv, [Next]_vars PROVE CacheInv'
    <2>1. CASE Step
      <3>1. setup' = setup
        BY <2>1 DEF Step
      <3>2. PICK wires \in [Wires -> Shown], applied \in SUBSET Wires, written \in SUBSET Cells :
              \E writes \in [written -> Shown] :
                \/ StepUnmeasured(wires, applied, writes) \/ StepSkipped(wires, applied, writes)
                \/ StepVerified(wires, applied, writes) \/ StepHigherOrder(wires, applied, writes)
        BY <2>1 DEF Step
      <3>3. PICK writes \in [written -> Shown] :
                \/ StepUnmeasured(wires, applied, writes) \/ StepSkipped(wires, applied, writes)
                \/ StepVerified(wires, applied, writes) \/ StepHigherOrder(wires, applied, writes)
        BY <3>2
      <3> QED BY <1>2, <3>1, <3>3, UnverifiedCacheInv, VerifiedCacheInv, HigherOrderCacheInv
    <2>2. CASE begin_measure \/ end_measure \/ UNCHANGED vars
      BY <1>2, <2>2, MeasureCacheInv
    <2> QED BY <1>2, <2>1, <2>2 DEF Next
  <1> QED BY <1>1, <1>2

\* The invariant holds forever.
LEMMA CacheInvariant == Spec => []CacheInv
  BY CacheInductive, PTL DEF Spec

\* Every step keeps the state well formed, for any circuit and configuration.
THEOREM TypeCorrect == Spec => []TypeOK
  <1>1. CacheInv => TypeOK
    BY DEF CacheInv
  <1> QED BY <1>1, CacheInvariant, PTL

\* Whatever is in the cache is the verdict the verification would give,
\* wherever the entry may be looked up again.
THEOREM CacheAlwaysSound == Spec => []CacheSound
  <1>1. CacheInv => CacheSound
    BY DEF CacheInv
  <1> QED BY <1>1, CacheInvariant, PTL

-----------------------------------------------------------------------------
(* The reports, of configurations that do not stop at a leak and circuits  *)
(* that always converge, for as long as cycles are to be verified          *)

Defaults ==
  \A s \in Setups : s.convergence = {TRUE} /\ ~s.exit /\ s.commits <= s.cycles

\* The databases hold the last verified cycle, and nothing before there is one.
Databases ==
  IF past.verified
  THEN /\ database.now = [w \in Wires |-> EntryOf(past.wires[w])]
       /\ inputs_of_stabilized_gate = GateInputs(past.wires, past.applied)
  ELSE database.now = [w \in Wires |-> Unfilled] /\ inputs_of_stabilized_gate = {}

\* Every cycle is counted; the measure knows when it began; once a cycle was
\* verified the next ones are; until the measure ends, the databases are right.
ReportInv ==
  /\ steps = commits
  /\ measure.started => measure.begin_cycle = began
  /\ ~measure.started => ~past.verified
  /\ past.verified /\ Measuring => SKIP_VERIF_CYCLES <= steps
  /\ ~crashed /\ (Measuring \/ ~measure.started) => Databases
  /\ ReportsExact

\* A cycle that is carried out is counted.
LEMMA FinishCounts ==
  ASSUME Defaults, TypeOK, steps = commits, commits < MaxCommits,
         NEW wires, NEW applied, NEW writes, NEW verified,
         Finish(wires, applied, writes, verified)
  PROVE  /\ steps' = commits' /\ steps' = steps + 1
         /\ past' = [verified |-> verified, wires |-> wires, applied |-> applied]
  <1>1. setup \in Setups /\ steps \in Nat
    BY DEF TypeOK
  <1>2. Convergence = {TRUE} /\ MaxCommits <= CYCLES_TO_VERIFY
    BY <1>1 DEF Defaults, Convergence, MaxCommits, CYCLES_TO_VERIFY
  <1>3. PICK converged \in Convergence, changed \in BOOLEAN :
          steps' = CountCycle(changed /\ ~converged)
    BY DEF Finish
  <1>4. ~(changed /\ ~converged)
    BY <1>2, <1>3
  <1>5. steps < CYCLES_TO_VERIFY
    BY <1>1, <1>2, SetupKnown
  <1>6. steps' = steps + 1
    BY <1>1, <1>3, <1>4, <1>5, SetupKnown DEF CountCycle
  <1>7. commits' = commits + 1
    BY DEF Finish
  <1>8. past' = [verified |-> verified, wires |-> wires, applied |-> applied]
    BY DEF Finish
  <1> QED BY <1>6, <1>7, <1>8

\* With the right databases and a sound cache, a verification finds what leaks.
LEMMA LeaksAreReal ==
  ASSUME TypeOK, CacheSound, Databases, ORDER_VERIF = 1,
         NEW wires \in [Wires -> Shown], NEW applied \in SUBSET Wires,
         NEW written \in SUBSET Cells, NEW writes \in [written -> Shown]
  PROVE  Leaks(Questions(Elected(wires, applied), wires, Advanced(wires).before, writes))
           = ReallyLeaking(wires, applied, writes)
  <1> DEFINE elected == RegsAndOutputs \union GateInputs(wires, applied)
                          \union (IF past.verified THEN GateInputs(past.wires, past.applied) ELSE {})
                          \union (IF FORCE_VERIFY_ALL THEN Wires ELSE {})
             before == [w \in Wires |-> IF past.verified THEN EntryOf(past.wires[w]) ELSE Unfilled]
  <1>1. elected = Elected(wires, applied)
    BY DEF Databases, Elected
  <1>2. before = Advanced(wires).before
    BY AdvancedType DEF Databases
  <1>3. ReallyLeaking(wires, applied, writes)
          = {q \in Questions(elected, wires, before, writes) :
               q.set # {} /\ ~Secure(setup.property, q.set, q.outputs)}
    BY Zenon DEF ReallyLeaking
  <1> HIDE DEF elected, before
  <1>4. setup \in Setups /\ memory \in [Cells -> Node] /\ inputs_of_stabilized_gate \subseteq Wires
    BY DEF TypeOK
  <1>5. elected \in SUBSET Wires /\ before \in [Wires -> Entries]
    BY <1>1, <1>2, <1>4, ElectedType, AdvancedType
  <1>6. \A q \in Questions(elected, wires, before, writes) :
          /\ q.kind \in Kinds /\ q.set \in SUBSET Node /\ q.outputs \in OutputCounts(setup)
    BY <1>4, <1>5, QuestionsType
  <1>7. \A q \in Questions(elected, wires, before, writes) :
          ~IsSecure(q.kind, q.set, q.outputs)
            <=> q.set # {} /\ ~Secure(setup.property, q.set, q.outputs)
    BY <1>4, <1>6, VerdictSound
  <1>8. Leaks(Questions(elected, wires, before, writes))
          = {q \in Questions(elected, wires, before, writes) :
               q.set # {} /\ ~Secure(setup.property, q.set, q.outputs)}
    BY <1>7 DEF Leaks
  <1> QED BY <1>1, <1>2, <1>3, <1>8

\* A verified cycle becomes the one the databases hold.
LEMMA DatabasesAdvance ==
  ASSUME NEW wires, NEW applied, TypeOK, setup' = setup, wires \in [Wires -> Shown],
         database' = Advanced(wires), inputs_of_stabilized_gate' = GateInputs(wires, applied),
         past' = [verified |-> TRUE, wires |-> wires, applied |-> applied]
  PROVE  Databases'
  <1>1. Wires' = Wires /\ (GateInputs(past.wires, past.applied))' = GateInputs(wires, applied)
    BY DEF Wires, GateInputs, Topology, MuxBranches
  <1>2. past'.verified = TRUE /\ past'.wires = wires
    OBVIOUS
  <1>3. database'.now = [w \in Wires |-> EntryOf(wires[w])]
    BY AdvancedType
  <1> QED BY <1>1, <1>2, <1>3 DEF Databases, EntryOf

\* A verification at order one keeps the reports exact.
LEMMA VerifiedReportInv ==
  ASSUME Defaults, CacheInv, ReportInv, ~crashed, commits < MaxCommits, setup' = setup,
         NEW wires \in [Wires -> Shown], NEW applied \in SUBSET Wires,
         NEW written \in SUBSET Cells, NEW writes \in [written -> Shown],
         StepVerified(wires, applied, writes)
  PROVE  ReportInv'
  <1> DEFINE leaks == Cardinality(Leaks(Questions(Elected(wires, applied), wires,
                                                  Advanced(wires).before, writes)))
             real == Cardinality(ReallyLeaking(wires, applied, writes))
  <1>1. TypeOK /\ CacheSound
    BY DEF CacheInv
  <1>2. Measuring /\ SKIP_VERIF_CYCLES <= steps /\ ORDER_VERIF = 1
        /\ database' = Advanced(wires) /\ inputs_of_stabilized_gate' = GateInputs(wires, applied)
        /\ leaks_per_cycles' = Record(leaks_per_cycles, MeasureCycle, leaks)
        /\ expected' = Record(expected, commits - began, real)
        /\ UNCHANGED << measure, higher, began >>
    BY DEF StepVerified
  <1>3. Finish(wires, applied, writes, TRUE)
    <2>1. ~EXIT_AT_FIRST_LEAKING_CYCLE
      BY <1>1 DEF Defaults, TypeOK, EXIT_AT_FIRST_LEAKING_CYCLE
    <2>2. IF leaks > 0 /\ EXIT_AT_FIRST_LEAKING_CYCLE THEN Abandon
          ELSE Finish(wires, applied, writes, TRUE)
      BY DEF StepVerified
    <2> HIDE DEF leaks
    <2> QED BY <2>1, <2>2, Zenon
  <1>4. /\ steps' = commits' /\ steps' = steps + 1
        /\ past' = [verified |-> TRUE, wires |-> wires, applied |-> applied]
    BY <1>1, <1>3, FinishCounts DEF ReportInv
  <1>5. leaks = real
    <2>1. Databases
      BY <1>2 DEF ReportInv
    <2> QED BY <1>1, <1>2, <2>1, LeaksAreReal
  <1>6. MeasureCycle = commits - began
    BY <1>2 DEF ReportInv, MeasureCycle, Measuring
  <1> HIDE DEF leaks, real
  <1>7. ReportsExact'
    BY <1>2, <1>5, <1>6 DEF ReportInv, ReportsExact, Record
  <1>8. Databases'
    BY <1>1, <1>2, <1>4, DatabasesAdvance
  <1>9. (past.verified /\ Measuring => SKIP_VERIF_CYCLES <= steps)'
    <2>1. steps \in Nat /\ SKIP_VERIF_CYCLES \in Nat
      BY <1>1, SetupKnown DEF TypeOK
    <2> QED BY <1>2, <1>4, <2>1 DEF SKIP_VERIF_CYCLES
  <1>10. measure'.started /\ (measure.started => measure.begin_cycle = began)'
    BY <1>2 DEF ReportInv, Measuring
  <1> QED BY <1>4, <1>7, <1>8, <1>9, <1>10 DEF ReportInv

\* So does one at a higher order, which reports nothing per cycle.
LEMMA HigherOrderReportInv ==
  ASSUME Defaults, CacheInv, ReportInv, ~crashed, commits < MaxCommits, setup' = setup,
         NEW wires \in [Wires -> Shown], NEW applied \in SUBSET Wires,
         NEW written \in SUBSET Cells, NEW writes \in [written -> Shown],
         StepHigherOrder(wires, applied, writes)
  PROVE  ReportInv'
  <1> DEFINE ho == PushBack(wires)
             leaks == Cardinality(Leaks(TupleQuestions(Tuples(Len(ho)), ho)))
  <1>1. TypeOK
    BY DEF CacheInv
  <1>2. Measuring /\ SKIP_VERIF_CYCLES <= steps
        /\ database' = Advanced(wires) /\ inputs_of_stabilized_gate' = GateInputs(wires, applied)
        /\ UNCHANGED << measure, leaks_per_cycles, expected, began >>
    BY DEF StepHigherOrder
  <1>3. \/ crashed' = TRUE /\ Abandon
        \/ IF leaks > 0 /\ EXIT_AT_FIRST_LEAKING_CYCLE THEN Abandon
           ELSE Finish(wires, applied, writes, TRUE)
    BY Zenon DEF StepHigherOrder
  <1> HIDE DEF leaks, ho
  <1>4. ~EXIT_AT_FIRST_LEAKING_CYCLE
    BY <1>1 DEF Defaults, TypeOK, EXIT_AT_FIRST_LEAKING_CYCLE
  <1>5. (crashed' = TRUE /\ Abandon) \/ Finish(wires, applied, writes, TRUE)
    BY <1>3, <1>4, Zenon
  <1>6. ReportsExact'
    BY <1>2 DEF ReportInv, ReportsExact
  <1>7. measure'.started /\ (measure.started => measure.begin_cycle = began)'
    BY <1>2 DEF ReportInv, Measuring
  <1>8. CASE crashed' = TRUE /\ Abandon
    <2>1. UNCHANGED << steps, commits, past >>
      BY <1>8 DEF Abandon, circuit
    <2>2. (past.verified /\ Measuring => SKIP_VERIF_CYCLES <= steps)'
      BY <1>2, <2>1 DEF ReportInv, Measuring, SKIP_VERIF_CYCLES
    <2> QED BY <1>6, <1>7, <1>8, <2>1, <2>2 DEF ReportInv
  <1>9. CASE Finish(wires, applied, writes, TRUE)
    <2>1. /\ steps' = commits' /\ steps' = steps + 1
          /\ past' = [verified |-> TRUE, wires |-> wires, applied |-> applied]
      BY <1>1, <1>9, FinishCounts DEF ReportInv
    <2>2. Databases'
      BY <1>1, <1>2, <2>1, DatabasesAdvance
    <2>3. (past.verified /\ Measuring => SKIP_VERIF_CYCLES <= steps)'
      <3>1. steps \in Nat /\ SKIP_VERIF_CYCLES \in Nat
        BY <1>1, SetupKnown DEF TypeOK
      <3> QED BY <1>2, <2>1, <3>1 DEF SKIP_VERIF_CYCLES
    <2> QED BY <1>6, <1>7, <2>1, <2>2, <2>3 DEF ReportInv
  <1> QED BY <1>5, <1>8, <1>9

\* The databases stay right in a cycle that is not verified.
LEMMA UnverifiedReportInv ==
  ASSUME Defaults, CacheInv, ReportInv, ~crashed, commits < MaxCommits, setup' = setup,
         NEW wires \in [Wires -> Shown], NEW applied \in SUBSET Wires,
         NEW written \in SUBSET Cells, NEW writes \in [written -> Shown],
         StepUnmeasured(wires, applied, writes) \/ StepSkipped(wires, applied, writes)
  PROVE  ReportInv'
  <1>1. TypeOK
    BY DEF CacheInv
  <1>2. ~EXIT_AT_FIRST_LEAKING_CYCLE
    BY <1>1 DEF Defaults, TypeOK, EXIT_AT_FIRST_LEAKING_CYCLE
  <1>3. Finish(wires, applied, writes, FALSE)
    BY <1>2, Zenon DEF StepUnmeasured, StepSkipped
  <1>4. UNCHANGED << measure, database, inputs_of_stabilized_gate, higher, began,
                     leaks_per_cycles, expected >>
    <2>1. CASE StepUnmeasured(wires, applied, writes)
      BY <2>1 DEF StepUnmeasured, report
    <2>2. CASE StepSkipped(wires, applied, writes)
      BY <2>2 DEF StepSkipped
    <2> QED BY <2>1, <2>2
  <1>5. /\ steps' = commits' /\ steps' = steps + 1
        /\ past' = [verified |-> FALSE, wires |-> wires, applied |-> applied]
    BY <1>1, <1>3, FinishCounts DEF ReportInv
  <1>6. Measuring => ~past.verified
    <2>1. Measuring => SKIP_VERIF_CYCLES > steps
      BY DEF StepUnmeasured, StepSkipped
    <2>2. steps \in Nat /\ SKIP_VERIF_CYCLES \in Nat
      BY <1>1, SetupKnown DEF TypeOK
    <2> QED BY <2>1, <2>2 DEF ReportInv
  <1>7. past'.verified = FALSE /\ crashed' = crashed /\ Wires' = Wires
    BY <1>4, <1>5 DEF higher, Wires
  <1>8. Measuring \/ ~measure.started => Databases'
    <2> SUFFICES ASSUME Measuring \/ ~measure.started PROVE Databases'
      OBVIOUS
    <2>1. ~past.verified /\ Databases
      BY <1>6 DEF ReportInv
    <2>2. database.now = [w \in Wires |-> Unfilled] /\ inputs_of_stabilized_gate = {}
      BY <2>1 DEF Databases
    <2> QED BY <1>4, <1>7, <2>2 DEF Databases, Unfilled
  <1>9. measure' = measure /\ began' = began /\ ReportsExact'
    BY <1>4 DEF ReportInv, ReportsExact
  <1>10. Measuring' <=> Measuring
    BY <1>9 DEF Measuring
  <1> QED BY <1>5, <1>7, <1>8, <1>9, <1>10 DEF ReportInv

\* The measure begins with empty databases; once it ended they no longer matter.
LEMMA MeasureReportInv ==
  ASSUME CacheInv, ReportInv, begin_measure \/ end_measure \/ UNCHANGED vars
  PROVE  ReportInv'
  <1>1. UNCHANGED << setup, steps, database, inputs_of_stabilized_gate, crashed,
                     leaks_per_cycles, expected, commits, past >>
    BY DEF begin_measure, end_measure, vars, report, higher, circuit
  <1>2. measure \in [started : BOOLEAN, ended : BOOLEAN, begin_cycle : Nat, end_cycle : Nat]
    BY DEF CacheInv, TypeOK
  <1>3. Databases' <=> Databases
    BY <1>1 DEF Databases, Wires, GateInputs, Topology, MuxBranches, EntryOf, Unfilled
  <1>4. steps' = commits' /\ ReportsExact'
    BY <1>1 DEF ReportInv, ReportsExact
  <1>5. CASE begin_measure
    <2>1. ~measure.started /\ began' = commits
          /\ measure' = [measure EXCEPT !.started = TRUE, !.begin_cycle = steps]
      BY <1>5 DEF begin_measure, BeginCycle
    <2>2. measure'.started = TRUE /\ measure'.begin_cycle = steps
      BY <1>2, <2>1
    <2>3. ~past'.verified
      BY <1>1, <2>1 DEF ReportInv
    <2>4. ~crashed' => Databases'
      BY <1>1, <1>3, <2>1 DEF ReportInv
    <2> QED BY <1>4, <2>1, <2>2, <2>3, <2>4 DEF ReportInv
  <1>6. CASE end_measure
    <2>1. measure.started /\ began' = began
          /\ measure' = [measure EXCEPT !.ended = TRUE, !.end_cycle = steps]
      BY <1>6 DEF end_measure, Measuring
    <2>2. measure'.started /\ measure'.begin_cycle = measure.begin_cycle /\ ~Measuring'
      BY <1>2, <2>1 DEF Measuring
    <2> QED BY <1>4, <2>1, <2>2 DEF ReportInv
  <1>7. CASE UNCHANGED vars
    <2>1. measure' = measure /\ began' = began
      BY <1>7 DEF vars
    <2> QED BY <1>1, <1>3, <1>4, <2>1 DEF ReportInv, Measuring, SKIP_VERIF_CYCLES
  <1> QED BY <1>5, <1>6, <1>7

\* Nothing is reported before the measure, nor about the current cycle.
KeptInv ==
  /\ ~measure.started => leaks_per_cycles = {}
  /\ \A r \in leaks_per_cycles : r[1] \in Int /\ r[1] < commits - began

\* A verification reports about a cycle that was not reported yet.
LEMMA KeptInductive ==
  ASSUME Defaults, CacheInv, ReportInv, KeptInv, [Next]_vars
  PROVE  KeptInv' /\ leaks_per_cycles \subseteq leaks_per_cycles'
  <1>1. commits \in Nat /\ began \in Nat /\ TypeOK
    BY DEF CacheInv, TypeOK
  <1>2. CASE begin_measure \/ end_measure \/ UNCHANGED vars
    <2>1. leaks_per_cycles' = leaks_per_cycles /\ commits' = commits
      BY <1>2 DEF begin_measure, end_measure, vars, report, circuit
    <2>2. CASE begin_measure
      <3>1. leaks_per_cycles = {}
        BY <2>2 DEF begin_measure, KeptInv
      <3> QED BY <2>1, <3>1 DEF KeptInv
    <2>3. CASE end_measure
      <3>1. began' = began /\ measure.started
        BY <2>3 DEF end_measure, Measuring
      <3>2. measure'.started
        <4>1. measure \in [started : BOOLEAN, ended : BOOLEAN, begin_cycle : Nat, end_cycle : Nat]
          BY <1>1 DEF TypeOK
        <4> QED BY <2>3, <3>1, <4>1 DEF end_measure
      <3> QED BY <2>1, <3>1, <3>2 DEF KeptInv
    <2>4. CASE UNCHANGED vars
      BY <2>1, <2>4 DEF KeptInv, vars
    <2> QED BY <1>2, <2>2, <2>3, <2>4
  <1>3. ASSUME NEW wires \in [Wires -> Shown], NEW applied \in SUBSET Wires,
               NEW written \in SUBSET Cells, NEW writes \in [written -> Shown], Step,
               \/ StepUnmeasured(wires, applied, writes) \/ StepSkipped(wires, applied, writes)
               \/ StepHigherOrder(wires, applied, writes)
        PROVE  KeptInv' /\ leaks_per_cycles \subseteq leaks_per_cycles'
    <2>1. leaks_per_cycles' = leaks_per_cycles /\ measure' = measure /\ began' = began
      <3>1. CASE StepUnmeasured(wires, applied, writes)
        BY <3>1 DEF StepUnmeasured, report
      <3>2. CASE StepSkipped(wires, applied, writes)
        BY <3>2 DEF StepSkipped
      <3>3. CASE StepHigherOrder(wires, applied, writes)
        BY <3>3 DEF StepHigherOrder
      <3> QED BY <1>3, <3>1, <3>2, <3>3
    <2>2. commits' \in Nat /\ commits <= commits'
      <3>1. setup' = setup
        BY <1>3 DEF Step
      <3>2. CacheInv' /\ (Finish(wires, applied, writes, TRUE) \/ Finish(wires, applied, writes, FALSE)
                          \/ Abandon)
        <4>1. CASE StepUnmeasured(wires, applied, writes) \/ StepSkipped(wires, applied, writes)
          <5>1. Finish(wires, applied, writes, FALSE) \/ Abandon
            BY <4>1, Zenon DEF StepUnmeasured, StepSkipped
          <5> QED BY <3>1, <4>1, <5>1, UnverifiedCacheInv
        <4>2. CASE StepHigherOrder(wires, applied, writes)
          <5>1. Finish(wires, applied, writes, TRUE) \/ Abandon
            BY <4>2, Zenon DEF StepHigherOrder
          <5> QED BY <3>1, <4>2, <5>1, HigherOrderCacheInv
        <4> QED BY <1>3, <4>1, <4>2
      <3> QED BY <1>1, <3>1, <3>2, FinishType
    <2> QED BY <1>1, <2>1, <2>2 DEF KeptInv
  <1>4. ASSUME NEW wires \in [Wires -> Shown], NEW applied \in SUBSET Wires,
               NEW written \in SUBSET Cells, NEW writes \in [written -> Shown], Step,
               StepVerified(wires, applied, writes)
        PROVE  KeptInv' /\ leaks_per_cycles \subseteq leaks_per_cycles'
    <2>1. setup' = setup /\ ~crashed /\ commits < MaxCommits
      BY <1>4 DEF Step
    <2>2. PICK n : leaks_per_cycles' = Record(leaks_per_cycles, MeasureCycle, n)
      BY <1>4 DEF StepVerified
    <2>3. MeasureCycle = commits - began /\ measure' = measure /\ began' = began /\ measure.started
      BY <1>4 DEF StepVerified, ReportInv, MeasureCycle, Measuring
    <2>4. commits' = commits + 1
      <3>1. ReportInv'
        BY <1>4, <2>1, VerifiedReportInv
      <3>2. steps' = steps + 1
        <4>1. ~EXIT_AT_FIRST_LEAKING_CYCLE
          BY <1>1 DEF Defaults, TypeOK, EXIT_AT_FIRST_LEAKING_CYCLE
        <4>2. Finish(wires, applied, writes, TRUE)
          BY <1>4, <4>1, Zenon DEF StepVerified
        <4> QED BY <1>1, <2>1, <4>2, FinishCounts DEF ReportInv
      <3> QED BY <3>1, <3>2 DEF ReportInv
    <2>5. leaks_per_cycles' = leaks_per_cycles \union {<< commits - began, n >>}
      <3>1. \A r \in leaks_per_cycles : r[1] # commits - began
        BY <1>1 DEF KeptInv
      <3> QED BY <2>2, <2>3, <3>1 DEF Record
    <2>6. \A r \in leaks_per_cycles' : r[1] \in Int /\ r[1] < commits' - began'
      <3> SUFFICES ASSUME NEW r \in leaks_per_cycles'
                   PROVE  r[1] \in Int /\ r[1] < commits' - began'
        OBVIOUS
      <3>1. CASE r \in leaks_per_cycles
        BY <1>1, <2>3, <2>4, <3>1 DEF KeptInv
      <3>2. CASE r = << commits - began, n >>
        BY <1>1, <2>3, <2>4, <3>2
      <3> QED BY <2>5, <3>1, <3>2
    <2> QED BY <2>3, <2>5, <2>6 DEF KeptInv
  <1>5. CASE Step
    <2>1. PICK wires \in [Wires -> Shown], applied \in SUBSET Wires, written \in SUBSET Cells :
            \E writes \in [written -> Shown] :
              \/ StepUnmeasured(wires, applied, writes) \/ StepSkipped(wires, applied, writes)
              \/ StepVerified(wires, applied, writes) \/ StepHigherOrder(wires, applied, writes)
      BY <1>5 DEF Step
    <2>2. PICK writes \in [written -> Shown] :
              \/ StepUnmeasured(wires, applied, writes) \/ StepSkipped(wires, applied, writes)
              \/ StepVerified(wires, applied, writes) \/ StepHigherOrder(wires, applied, writes)
      BY <2>1
    <2> QED BY <1>3, <1>4, <1>5, <2>2
  <1> QED BY <1>2, <1>5 DEF Next

\* All of it holds forever.
LEMMA ReportInvariant == ASSUME Defaults PROVE Spec => [](CacheInv /\ ReportInv)
  <1>1. Init => ReportInv
    <2> SUFFICES ASSUME Init PROVE ReportInv
      OBVIOUS
    <2>1. Databases
      BY DEF Init, Databases
    <2> QED BY <2>1 DEF Init, ReportInv, ReportsExact, Measuring
  <1>2. CacheInv /\ ReportInv /\ [Next]_vars => ReportInv'
    <2> SUFFICES ASSUME CacheInv, ReportInv, [Next]_vars PROVE ReportInv'
      OBVIOUS
    <2>1. CASE Step
      <3>1. setup' = setup /\ ~crashed /\ commits < MaxCommits
        BY <2>1 DEF Step
      <3>2. PICK wires \in [Wires -> Shown], applied \in SUBSET Wires, written \in SUBSET Cells :
              \E writes \in [written -> Shown] :
                \/ StepUnmeasured(wires, applied, writes) \/ StepSkipped(wires, applied, writes)
                \/ StepVerified(wires, applied, writes) \/ StepHigherOrder(wires, applied, writes)
        BY <2>1 DEF Step
      <3>3. PICK writes \in [written -> Shown] :
                \/ StepUnmeasured(wires, applied, writes) \/ StepSkipped(wires, applied, writes)
                \/ StepVerified(wires, applied, writes) \/ StepHigherOrder(wires, applied, writes)
        BY <3>2
      <3> QED BY <3>1, <3>3, UnverifiedReportInv, VerifiedReportInv, HigherOrderReportInv
    <2>2. CASE begin_measure \/ end_measure \/ UNCHANGED vars
      BY <2>2, MeasureReportInv
    <2> QED BY <2>1, <2>2 DEF Next
  <1> QED BY <1>1, <1>2, CacheInvariant, PTL DEF Spec

\* The number of leaks reported for every measured cycle is that of the
\* circuit's own history, when nothing stops the simulation before its end.
THEOREM ReportsAlwaysExact == ASSUME Defaults PROVE Spec => []ReportsExact
  <1>1. CacheInv /\ ReportInv => ReportsExact
    BY DEF ReportInv
  <1> QED BY <1>1, ReportInvariant, PTL

\* No report of a cycle is overwritten by a later one, under the same condition.
THEOREM ReportsAlwaysKept == ASSUME Defaults PROVE Spec => ReportsKept
  <1>1. Init => KeptInv
    BY DEF Init, KeptInv
  <1>2. CacheInv /\ ReportInv /\ KeptInv /\ [Next]_vars
          => KeptInv' /\ [leaks_per_cycles \subseteq leaks_per_cycles']_vars
    BY KeptInductive
  <1> QED BY <1>1, <1>2, ReportInvariant, PTL DEF Spec, ReportsKept

-----------------------------------------------------------------------------
(* The history of the higher orders is never read where it has nothing     *)

\* No cycle is skipped where cycles are combined.
NoneSkipped == \A s \in Setups : s.order > 1 /\ s.type = "TEMPORAL" => s.skip = 0

HistoryInv ==
  /\ ~crashed
  /\ ORDER_VERIF > 1 /\ HIGHER_ORDER_TYPE = "TEMPORAL" /\ Measuring => MeasureCycle <= Len(database_ho)

\* The tuples of a cycle are about the cycles database_ho_ has by then.
LEMMA TuplesAvailable ==
  ASSUME TypeOK, NEW now \in Nat \ {0}, HIGHER_ORDER_TYPE = "TEMPORAL" => MeasureCycle < now
  PROVE  Available(Tuples(now), now)
  <1> SUFFICES ASSUME NEW tuple \in Tuples(now), NEW point \in tuple PROVE point[2] <= now
    BY DEF Available
  <1>1. setup \in Setups /\ steps \in Nat /\ measure.begin_cycle \in Nat
    BY DEF TypeOK
  <1>2. HIGHER_ORDER_TYPE \in {"SPATIAL", "TEMPORAL"}
    BY <1>1, SetupsAssumption DEF SetupAssumption, HIGHER_ORDER_TYPE
  <1>3. CASE HIGHER_ORDER_TYPE = "SPATIAL"
    <2>1. point \in Wires \X {now}
      BY <1>3 DEF Tuples, SpatialTuples, Combinations
    <2> QED BY <2>1
  <1>4. CASE HIGHER_ORDER_TYPE = "TEMPORAL"
    <2>1. tuple \in TemporalTuples(now)
      BY <1>4 DEF Tuples
    <2>2. PICK w \in Wires, S \in Combinations(1 .. MeasureCycle, Earlier) : tuple = {w} \X ({now} \union S)
      BY <2>1 DEF TemporalTuples
    <2>3. point[2] \in {now} \union S /\ S \subseteq 1 .. MeasureCycle
      BY <2>2 DEF Combinations
    <2>4. MeasureCycle \in Int /\ MeasureCycle < now
      BY <1>1, <1>4 DEF MeasureCycle
    <2>5. ASSUME NEW c, NEW m \in Int, c \in {now} \union (1 .. m), m < now PROVE c <= now
      <3>1. CASE c = now
        BY <3>1
      <3>2. CASE c \in 1 .. m
        BY <2>5, <3>2
      <3> QED BY <2>5, <3>1, <3>2
    <2>6. point[2] \in {now} \union (1 .. MeasureCycle)
      BY <2>3
    <2> QED BY <2>4, <2>5, <2>6
  <1> QED BY <1>2, <1>3, <1>4

\* A cycle of the circuit counts at most one step.
LEMMA CountedOnce ==
  ASSUME TypeOK, NEW wires, NEW applied, NEW writes, NEW verified,
         Finish(wires, applied, writes, verified) \/ Abandon
  PROVE  steps' \in Nat /\ steps' <= steps + 1
  <1>1. steps \in Nat
    BY DEF TypeOK
  <1>2. CASE Abandon
    BY <1>1, <1>2 DEF Abandon
  <1>3. CASE Finish(wires, applied, writes, verified)
    BY <1>1, <1>3 DEF Finish, CountCycle
  <1> QED BY <1>2, <1>3

LEMMA HistoryHigherOrder ==
  ASSUME TypeOK, HistoryInv, setup' = setup,
         NEW wires, NEW applied, NEW writes, StepHigherOrder(wires, applied, writes)
  PROVE  HistoryInv'
  <1> DEFINE ho == PushBack(wires)
             leaks == Cardinality(Leaks(TupleQuestions(Tuples(Len(ho)), ho)))
  <1>1. Measuring /\ ORDER_VERIF > 1 /\ database_ho' = ho /\ UNCHANGED << measure >>
    BY DEF StepHigherOrder
  <1>2. Len(ho) = Len(database_ho) + 1 /\ Len(database_ho) \in Nat
    BY DEF PushBack, TypeOK
  <1>3. setup \in Setups /\ steps \in Nat /\ measure.begin_cycle \in Nat
    BY DEF TypeOK
  <1>4. MeasureCycle \in Int
    BY <1>3 DEF MeasureCycle
  <1>5. HIGHER_ORDER_TYPE = "TEMPORAL" => MeasureCycle < Len(ho)
    BY <1>1, <1>2, <1>4 DEF HistoryInv
  <1> HIDE DEF ho
  <1>6. Available(Tuples(Len(ho)), Len(ho))
    BY <1>2, <1>5, TuplesAvailable
  <1>7. crashed' = FALSE /\ (Abandon \/ Finish(wires, applied, writes, TRUE))
    <2>1. \/ ~Available(Tuples(Len(ho)), Len(ho))
          \/ /\ crashed' = FALSE
             /\ IF leaks > 0 /\ EXIT_AT_FIRST_LEAKING_CYCLE THEN Abandon
                ELSE Finish(wires, applied, writes, TRUE)
      BY Zenon DEF StepHigherOrder, ho
    <2> HIDE DEF leaks
    <2> QED BY <1>6, <2>1
  <1>8. steps' \in Nat /\ steps' <= steps + 1
    BY <1>7, CountedOnce
  <1>9. MeasureCycle' = steps' - measure.begin_cycle /\ MeasureCycle = steps - measure.begin_cycle
    BY <1>1 DEF MeasureCycle
  <1>10. HIGHER_ORDER_TYPE' = "TEMPORAL" => MeasureCycle' <= Len(database_ho')
    BY <1>1, <1>2, <1>3, <1>5, <1>8, <1>9 DEF HIGHER_ORDER_TYPE
  <1> QED BY <1>7, <1>10 DEF HistoryInv

LEMMA HistoryStep ==
  ASSUME NoneSkipped, CacheInv, HistoryInv, [Next]_vars
  PROVE  HistoryInv'
  <1>1. TypeOK /\ setup \in Setups /\ steps \in Nat
        /\ measure \in [started : BOOLEAN, ended : BOOLEAN, begin_cycle : Nat, end_cycle : Nat]
    BY DEF CacheInv, TypeOK
  <1>2. ORDER_VERIF > 1 /\ HIGHER_ORDER_TYPE = "TEMPORAL" => SKIP_VERIF_CYCLES = 0
    BY <1>1 DEF NoneSkipped, ORDER_VERIF, HIGHER_ORDER_TYPE, SKIP_VERIF_CYCLES
  <1>3. CASE Step
    <2>1. setup' = setup
      BY <1>3 DEF Step
    <2>2. PICK wires \in [Wires -> Shown], applied \in SUBSET Wires, written \in SUBSET Cells :
            \E writes \in [written -> Shown] :
              \/ StepUnmeasured(wires, applied, writes) \/ StepSkipped(wires, applied, writes)
              \/ StepVerified(wires, applied, writes) \/ StepHigherOrder(wires, applied, writes)
      BY <1>3 DEF Step
    <2>3. PICK writes \in [written -> Shown] :
              \/ StepUnmeasured(wires, applied, writes) \/ StepSkipped(wires, applied, writes)
              \/ StepVerified(wires, applied, writes) \/ StepHigherOrder(wires, applied, writes)
      BY <2>2
    <2>4. CASE StepUnmeasured(wires, applied, writes)
      <3>1. ~Measuring /\ UNCHANGED << measure, crashed >>
        BY <2>4 DEF StepUnmeasured, higher
      <3>2. ~Measuring'
        BY <3>1 DEF Measuring
      <3> QED BY <3>1, <3>2 DEF HistoryInv
    <2>5. CASE StepSkipped(wires, applied, writes)
      <3>1. SKIP_VERIF_CYCLES > steps /\ UNCHANGED << crashed >>
        BY <2>5 DEF StepSkipped, higher
      <3>2. ~(ORDER_VERIF > 1 /\ HIGHER_ORDER_TYPE = "TEMPORAL")
        BY <1>1, <1>2, <3>1
      <3> QED BY <2>1, <3>1, <3>2 DEF HistoryInv, ORDER_VERIF, HIGHER_ORDER_TYPE
    <2>6. CASE StepVerified(wires, applied, writes)
      <3>1. ORDER_VERIF = 1 /\ UNCHANGED << crashed >>
        BY <2>6 DEF StepVerified, higher
      <3> QED BY <2>1, <3>1 DEF HistoryInv, ORDER_VERIF
    <2>7. CASE StepHigherOrder(wires, applied, writes)
      BY <1>1, <2>1, <2>7, HistoryHigherOrder
    <2> QED BY <2>3, <2>4, <2>5, <2>6, <2>7
  <1>4. CASE begin_measure
    <2>1. measure' = [measure EXCEPT !.started = TRUE, !.begin_cycle = steps]
          /\ UNCHANGED << steps, crashed, database_ho >>
      BY <1>4 DEF begin_measure, BeginCycle, higher
    <2>2. MeasureCycle' = 0
      BY <1>1, <2>1 DEF MeasureCycle
    <2>3. Len(database_ho) \in Nat
      BY <1>1 DEF TypeOK
    <2> QED BY <2>1, <2>2, <2>3 DEF HistoryInv
  <1>5. CASE end_measure
    <2>1. measure' = [measure EXCEPT !.ended = TRUE, !.end_cycle = steps] /\ UNCHANGED << crashed >>
      BY <1>5 DEF end_measure, higher
    <2>2. ~Measuring'
      BY <1>1, <2>1 DEF Measuring
    <2> QED BY <2>1, <2>2 DEF HistoryInv
  <1>6. CASE UNCHANGED vars
    BY <1>6 DEF vars, higher, HistoryInv, ORDER_VERIF, HIGHER_ORDER_TYPE, Measuring, MeasureCycle
  <1> QED BY <1>3, <1>4, <1>5, <1>6 DEF Next

\* verify_higher_order never looks up a cycle database_ho_ does not hold, for
\* any circuit, converging or not, stopped by a leak or not, when no cycle is
\* skipped.
THEOREM HistoryAvailable == ASSUME NoneSkipped PROVE Spec => []CyclesAvailable
  <1>1. Init => HistoryInv
    <2> SUFFICES ASSUME Init PROVE HistoryInv
      OBVIOUS
    <2> QED BY DEF Init, HistoryInv, Measuring
  <1>2. CacheInv /\ HistoryInv /\ [Next]_vars => HistoryInv'
    BY HistoryStep
  <1>3. HistoryInv => CyclesAvailable
    BY DEF HistoryInv, CyclesAvailable
  <1> QED BY <1>1, <1>2, <1>3, CacheInvariant, PTL DEF Spec

-----------------------------------------------------------------------------
(* No combination is missed                                                *)

\* A non-empty set of numbers has a least one.
LEMMA LeastNumber ==
  ASSUME NEW T \in SUBSET Nat, T # {}
  PROVE  \E m \in T : \A k \in T : m <= k
  <1> DEFINE R == {ss \in Nat \X Nat : ss[1] < ss[2]}
  <1>1. IsWellFoundedOn(R, Nat)
    BY NatLessThanWellFounded DEF OpToRel
  <1>2. PICK m \in T : \A k \in T : << k, m >> \notin R
    <2> HIDE DEF R
    <2> QED BY <1>1, WFMin
  <1>3. ASSUME NEW k \in T PROVE m <= k
    <2>1. << k, m >> \notin R /\ k \in Nat /\ m \in Nat
      BY <1>2
    <2> QED BY <2>1
  <1> QED BY <1>3

\* A set of at most n elements grows, inside a set that has as many, to n elements.
LEMMA GrowsTo ==
  ASSUME NEW X, IsFiniteSet(X), NEW A \in SUBSET X, NEW n \in Nat,
         Cardinality(A) <= n, n <= Cardinality(X)
  PROVE  \E B \in Combinations(X, n) : A \subseteq B
  <1> DEFINE Large == {B \in SUBSET X : A \subseteq B /\ n <= Cardinality(B)}
             T == {Cardinality(B) : B \in Large}
  <1>1. ASSUME NEW B \in SUBSET X PROVE IsFiniteSet(B) /\ Cardinality(B) \in Nat
    BY FS_Subset, FS_CardinalityType
  <1>2. X \in Large /\ T \in SUBSET Nat /\ T # {}
    BY <1>1
  <1>3. PICK m \in T : \A k \in T : m <= k
    <2> HIDE DEF T
    <2> QED BY <1>2, LeastNumber
  <1>4. PICK B \in Large : m = Cardinality(B)
    OBVIOUS
  <1>5. Cardinality(B) = n
    <2>1. SUFFICES ASSUME Cardinality(B) # n PROVE FALSE
      OBVIOUS
    <2>2. Cardinality(B) \in Nat /\ n < Cardinality(B) /\ Cardinality(A) \in Nat
      BY <1>1, <2>1
    <2>3. PICK x \in B : x \notin A
      <3>1. A \subseteq B
        OBVIOUS
      <3>2. A # B
        BY <2>2
      <3> HIDE DEF Large
      <3> QED BY <3>1, <3>2
    <2>4. Cardinality(B \ {x}) = Cardinality(B) - 1
      BY <1>1, FS_RemoveElement
    <2>5. B \ {x} \in Large
      BY <2>2, <2>3, <2>4
    <2>6. m <= Cardinality(B) - 1
      BY <1>3, <2>4, <2>5
    <2> QED BY <1>4, <2>2, <2>6
  <1> QED BY <1>5 DEF Combinations

\* The cycles of a set of positions.
Before(S) == {c - 1 : c \in S}
\* How many earlier cycles join the one at position k.
Joined(k) == IF ORDER_VERIF > k - 1 THEN k - 1 ELSE ORDER_VERIF - 1

SpatialInv ==
  \A i \in DOMAIN database_ho : \A U \in Combinations(Wires, ORDER_VERIF) :
    U \X {database_ho[i].cycle} \in asked
TemporalInv ==
  /\ \A i \in DOMAIN database_ho : database_ho[i].cycle = i - 1
  /\ Measuring => Len(database_ho) = MeasureCycle
  /\ \A k \in 2 .. Len(database_ho), w \in Wires : \A S \in Combinations(1 .. k - 1, Joined(k)) :
       {w} \X Before({k} \union S) \in asked
AskedInv ==
  ORDER_VERIF > 1 =>
    /\ ~measure.started => database_ho = << >>
    /\ HIGHER_ORDER_TYPE = "SPATIAL" => SpatialInv
    /\ HIGHER_ORDER_TYPE = "TEMPORAL" => TemporalInv

\* What a verification at a higher order does to the history.
LEMMA HigherOrderAsks ==
  ASSUME Defaults, NoneSkipped, CacheInv, ReportInv, HistoryInv, ~crashed, commits < MaxCommits, setup' = setup,
         NEW wires, NEW applied, NEW writes, StepHigherOrder(wires, applied, writes)
  PROVE  /\ database_ho' = PushBack(wires) /\ UNCHANGED << measure, began >>
         /\ asked' = asked \union {Real(tuple, PushBack(wires)) : tuple \in Tuples(Len(PushBack(wires)))}
         /\ steps' = steps + 1 /\ MeasureCycle = commits - began
  <1> DEFINE ho == PushBack(wires)
             tuples == Tuples(Len(ho))
             leaks == Cardinality(Leaks(TupleQuestions(tuples, ho)))
  <1>1. Measuring /\ ORDER_VERIF > 1 /\ database_ho' = ho /\ UNCHANGED << measure, began >> /\ TypeOK
    BY DEF StepHigherOrder, CacheInv
  <1>2. Len(ho) = Len(database_ho) + 1 /\ Len(database_ho) \in Nat
    BY DEF PushBack, CacheInv, TypeOK
  <1>3. setup \in Setups /\ steps \in Nat /\ measure.begin_cycle \in Nat
    BY <1>1 DEF TypeOK
  <1>4. HIGHER_ORDER_TYPE = "TEMPORAL" => MeasureCycle < Len(ho)
    BY <1>1, <1>2, <1>3 DEF HistoryInv, MeasureCycle
  <1>5. ~EXIT_AT_FIRST_LEAKING_CYCLE
    BY <1>3 DEF Defaults, EXIT_AT_FIRST_LEAKING_CYCLE
  <1> HIDE DEF ho
  <1>6. Available(tuples, Len(ho))
    BY <1>1, <1>2, <1>4, TuplesAvailable
  <1>7. /\ asked' = asked \union {Real(tuple, ho) : tuple \in tuples}
        /\ Finish(wires, applied, writes, TRUE)
    <2>1. \/ ~Available(tuples, Len(ho))
          \/ /\ asked' = asked \union {Real(tuple, ho) : tuple \in tuples}
             /\ IF leaks > 0 /\ EXIT_AT_FIRST_LEAKING_CYCLE THEN Abandon
                ELSE Finish(wires, applied, writes, TRUE)
      BY Zenon DEF StepHigherOrder, ho
    <2> HIDE DEF leaks, tuples
    <2> QED BY <1>5, <1>6, <2>1, Zenon
  <1>8. steps' = steps + 1
    BY <1>1, <1>7, FinishCounts DEF ReportInv
  <1>9. MeasureCycle = commits - began
    BY <1>1 DEF ReportInv, MeasureCycle, Measuring
  <1> QED BY <1>1, <1>7, <1>8, <1>9 DEF ho

\* Every choice of as many wires is asked about in the cycle of the step.
LEMMA SpatialAsks ==
  ASSUME TypeOK, HIGHER_ORDER_TYPE = "SPATIAL", NEW ho, NEW now \in Nat, NEW U \in Combinations(Wires, ORDER_VERIF)
  PROVE  U \X {ho[now].cycle} \in {Real(tuple, ho) : tuple \in Tuples(now)}
  <1> DEFINE tuple == U \X {now}
  <1>1. setup \in Setups /\ U \subseteq Wires /\ Cardinality(U) = ORDER_VERIF
    BY DEF TypeOK, Combinations
  <1>2. IsFiniteSet(U) /\ Cardinality(U) \in Nat
    BY <1>1, SetupKnown, FS_Subset, FS_CardinalityType
  <1>3. Cardinality(tuple) = Cardinality(U)
    <2>1. Cardinality(tuple) = Cardinality(U) * Cardinality({now}) /\ Cardinality({now}) = 1
      BY <1>2, FS_Singleton, FS_Product
    <2> QED BY <1>2, <2>1
  <1>4. tuple \in Tuples(now)
    BY <1>1, <1>3 DEF Tuples, SpatialTuples, Combinations
  <1>5. Real(tuple, ho) = U \X {ho[now].cycle}
    <2>1. ASSUME NEW x \in Real(tuple, ho) PROVE x \in U \X {ho[now].cycle}
      BY DEF Real
    <2>2. ASSUME NEW u \in U PROVE << u, ho[now].cycle >> \in Real(tuple, ho)
      <3>1. << u, now >> \in tuple /\ << u, now >>[1] = u /\ << u, now >>[2] = now
        OBVIOUS
      <3> HIDE DEF tuple
      <3> QED BY <3>1 DEF Real
    <2> HIDE DEF tuple
    <2> QED BY <2>1, <2>2
  <1> QED BY <1>4, <1>5

\* Every choice of as many earlier cycles is asked about with the cycle of the step.
LEMMA TemporalAsks ==
  ASSUME TypeOK, HIGHER_ORDER_TYPE = "TEMPORAL", NEW ho, NEW now \in Nat, now > 1, MeasureCycle = now - 1,
         \A i \in 1 .. now : ho[i].cycle = i - 1,
         NEW w \in Wires, NEW S \in Combinations(1 .. now - 1, Joined(now))
  PROVE  {w} \X Before({now} \union S) \in {Real(tuple, ho) : tuple \in Tuples(now)}
  <1> DEFINE tuple == {w} \X ({now} \union S)
  <1>1. S \in Combinations(1 .. MeasureCycle, Earlier)
    BY DEF Joined, Earlier
  <1>2. tuple \in Tuples(now)
    <2>1. MeasureCycle # 0
      OBVIOUS
    <2> QED BY <1>1, <2>1 DEF Tuples, TemporalTuples
  <1>3. \A c \in {now} \union S : c \in 1 .. now /\ ho[c].cycle = c - 1
    BY DEF Combinations
  <1>4. Real(tuple, ho) = {w} \X Before({now} \union S)
    <2> DEFINE P == {now} \union S
    <2>1. ASSUME NEW x \in Real(tuple, ho) PROVE x \in {w} \X Before(P)
      <3>1. PICK point \in tuple : x = << point[1], ho[point[2]].cycle >>
        BY <2>1 DEF Real
      <3>2. point[1] = w /\ point[2] \in P
        OBVIOUS
      <3>3. ho[point[2]].cycle \in Before(P)
        BY <1>3, <3>2 DEF Before
      <3> QED BY <3>1, <3>2, <3>3
    <2>2. ASSUME NEW x \in {w} \X Before(P) PROVE x \in Real(tuple, ho)
      <3>1. PICK c \in P : x = << w, c - 1 >>
        BY <2>2 DEF Before
      <3>2. << w, c >> \in tuple /\ << w, c >>[1] = w /\ << w, c >>[2] = c /\ ho[c].cycle = c - 1
        BY <1>3
      <3> HIDE DEF tuple, P
      <3> QED BY <3>1, <3>2 DEF Real
    <2> HIDE DEF tuple, P
    <2> QED BY <2>1, <2>2 DEF P
  <1> QED BY <1>2, <1>4

\* What is asked stays asked, and grows by the tuples of the step.
LEMMA AskedHigherOrder ==
  ASSUME Defaults, NoneSkipped, CacheInv, ReportInv, HistoryInv, AskedInv, ~crashed,
         commits < MaxCommits, setup' = setup,
         NEW wires, NEW applied, NEW writes, StepHigherOrder(wires, applied, writes)
  PROVE  AskedInv'
  <1> DEFINE ho == PushBack(wires)
             now == Len(ho)
             fresh == {Real(tuple, ho) : tuple \in Tuples(now)}
  <1>1. /\ database_ho' = ho /\ UNCHANGED << measure, began >>
        /\ asked' = asked \union fresh
        /\ steps' = steps + 1 /\ MeasureCycle = commits - began
    BY HigherOrderAsks
  <1>2. Measuring /\ ORDER_VERIF > 1
    BY DEF StepHigherOrder
  <1>3. /\ TypeOK /\ setup \in Setups /\ Len(database_ho) \in Nat
        /\ steps \in Nat /\ measure.begin_cycle \in Nat /\ measure.started
    BY <1>2 DEF CacheInv, TypeOK, Measuring
  <1>4. /\ now = Len(database_ho) + 1 /\ now \in Nat
        /\ \A i \in DOMAIN database_ho : ho[i] = database_ho[i]
        /\ ho[now].cycle = commits - began
        /\ DOMAIN database_ho = 1 .. Len(database_ho) /\ DOMAIN ho = 1 .. now
    BY <1>3 DEF PushBack, TypeOK
  <1>5. /\ Wires' = Wires /\ ORDER_VERIF' = ORDER_VERIF /\ HIGHER_ORDER_TYPE' = HIGHER_ORDER_TYPE
        /\ \A k : Joined(k)' = Joined(k)
    BY DEF Wires, ORDER_VERIF, HIGHER_ORDER_TYPE, Joined
  <1> HIDE DEF ho, now, fresh
  <1>6. CASE HIGHER_ORDER_TYPE = "SPATIAL"
    <2>1. ASSUME NEW i \in DOMAIN ho, NEW U \in Combinations(Wires, ORDER_VERIF)
          PROVE  U \X {ho[i].cycle} \in asked'
      <3>1. CASE i \in DOMAIN database_ho
        BY <1>1, <1>2, <1>4, <1>6, <3>1 DEF AskedInv, SpatialInv
      <3>2. CASE i = now
        <4>1. U \X {ho[now].cycle} \in fresh
          BY <1>3, <1>4, <1>6, SpatialAsks DEF fresh
        <4> QED BY <1>1, <3>2, <4>1
      <3> QED BY <1>3, <1>4, <3>1, <3>2
    <2>2. \A i \in DOMAIN database_ho' : \A U \in Combinations(Wires', ORDER_VERIF') :
            U \X {database_ho'[i].cycle} \in asked'
      BY <1>1, <1>5, <2>1
    <2>3. SpatialInv'
      BY <2>2 DEF SpatialInv
    <2> QED BY <1>1, <1>3, <1>5, <1>6, <2>3 DEF AskedInv
  <1>7. CASE HIGHER_ORDER_TYPE = "TEMPORAL"
    <2>1. TemporalInv /\ Len(database_ho) = MeasureCycle
      BY <1>2, <1>7 DEF AskedInv, TemporalInv
    <2>2. \A i \in 1 .. now : ho[i].cycle = i - 1
      <3> SUFFICES ASSUME NEW i \in 1 .. now PROVE ho[i].cycle = i - 1
        OBVIOUS
      <3>1. CASE i \in DOMAIN database_ho
        BY <1>4, <2>1, <3>1 DEF TemporalInv
      <3>2. CASE i = now
        BY <1>1, <1>3, <1>4, <2>1, <3>2
      <3> QED BY <1>3, <1>4, <3>1, <3>2
    <2>3. MeasureCycle' = now
      <3>1. MeasureCycle' = steps' - measure.begin_cycle /\ MeasureCycle = steps - measure.begin_cycle
        BY <1>1 DEF MeasureCycle
      <3> QED BY <1>1, <1>3, <1>4, <2>1, <3>1
    <2>4. ASSUME NEW k \in 2 .. now, NEW w \in Wires, NEW S \in Combinations(1 .. k - 1, Joined(k))
          PROVE  {w} \X Before({k} \union S) \in asked'
      <3>1. CASE k \in 2 .. Len(database_ho)
        BY <1>1, <2>1, <3>1 DEF TemporalInv
      <3>2. CASE k = now
        <4>1. now > 1 /\ MeasureCycle = now - 1
          BY <1>3, <1>4, <2>1, <3>2
        <4>2. {w} \X Before({now} \union S) \in fresh
          BY <1>3, <1>4, <1>7, <2>2, <3>2, <4>1, TemporalAsks DEF fresh
        <4> QED BY <1>1, <3>2, <4>2
      <3> QED BY <1>3, <1>4, <3>1, <3>2
    <2>5. /\ \A i \in DOMAIN database_ho' : database_ho'[i].cycle = i - 1
          /\ Len(database_ho') = MeasureCycle'
      BY <1>1, <1>4, <2>2, <2>3 DEF now
    <2>6. \A k \in 2 .. Len(database_ho'), w \in Wires' : \A S \in Combinations(1 .. k - 1, Joined(k)') :
             {w} \X Before({k} \union S) \in asked'
      BY <1>1, <1>5, <2>4 DEF now
    <2>7. TemporalInv'
      BY <2>5, <2>6 DEF TemporalInv
    <2> QED BY <1>1, <1>3, <1>5, <1>7, <2>7 DEF AskedInv
  <1>8. HIGHER_ORDER_TYPE \in {"SPATIAL", "TEMPORAL"}
    BY <1>3, SetupsAssumption DEF SetupAssumption, HIGHER_ORDER_TYPE
  <1> QED BY <1>6, <1>7, <1>8

\* Where neither the history nor what was asked changes, only the measure matters.
LEMMA AskedOtherwise ==
  ASSUME AskedInv, UNCHANGED << setup, database_ho, asked >>,
         ~measure'.started => ~measure.started,
         ORDER_VERIF > 1 /\ HIGHER_ORDER_TYPE = "TEMPORAL" /\ Measuring'
           => Len(database_ho) = MeasureCycle'
  PROVE  AskedInv'
  <1>1. /\ Wires' = Wires /\ ORDER_VERIF' = ORDER_VERIF /\ HIGHER_ORDER_TYPE' = HIGHER_ORDER_TYPE
        /\ \A k : Joined(k)' = Joined(k)
    BY DEF Wires, ORDER_VERIF, HIGHER_ORDER_TYPE, Joined
  <1>2. SpatialInv => SpatialInv'
    BY <1>1 DEF SpatialInv
  <1>3. ORDER_VERIF > 1 /\ HIGHER_ORDER_TYPE = "TEMPORAL" /\ TemporalInv => TemporalInv'
    BY <1>1 DEF TemporalInv
  <1> QED BY <1>1, <1>2, <1>3 DEF AskedInv

LEMMA AskedStep ==
  ASSUME Defaults, NoneSkipped, CacheInv, ReportInv, HistoryInv, AskedInv, [Next]_vars
  PROVE  AskedInv'
  <1>1. TypeOK /\ setup \in Setups /\ steps \in Nat
        /\ measure \in [started : BOOLEAN, ended : BOOLEAN, begin_cycle : Nat, end_cycle : Nat]
    BY DEF CacheInv, TypeOK
  <1>2. ORDER_VERIF > 1 /\ HIGHER_ORDER_TYPE = "TEMPORAL" => SKIP_VERIF_CYCLES = 0
    BY <1>1 DEF NoneSkipped, ORDER_VERIF, HIGHER_ORDER_TYPE, SKIP_VERIF_CYCLES
  <1>3. ORDER_VERIF > 1 /\ HIGHER_ORDER_TYPE = "TEMPORAL" /\ Measuring
          => Len(database_ho) = MeasureCycle
    BY DEF AskedInv, TemporalInv
  <1>4. CASE Step
    <2>1. setup' = setup /\ ~crashed /\ commits < MaxCommits
      BY <1>4 DEF Step
    <2>2. PICK wires \in [Wires -> Shown], applied \in SUBSET Wires, written \in SUBSET Cells :
            \E writes \in [written -> Shown] :
              \/ StepUnmeasured(wires, applied, writes) \/ StepSkipped(wires, applied, writes)
              \/ StepVerified(wires, applied, writes) \/ StepHigherOrder(wires, applied, writes)
      BY <1>4 DEF Step
    <2>3. PICK writes \in [written -> Shown] :
              \/ StepUnmeasured(wires, applied, writes) \/ StepSkipped(wires, applied, writes)
              \/ StepVerified(wires, applied, writes) \/ StepHigherOrder(wires, applied, writes)
      BY <2>2
    <2>4. CASE StepUnmeasured(wires, applied, writes)
      <3>1. ~Measuring /\ UNCHANGED << measure, database_ho, asked >>
        BY <2>4 DEF StepUnmeasured, higher
      <3>2. ~Measuring'
        BY <3>1 DEF Measuring
      <3> QED BY <2>1, <3>1, <3>2, AskedOtherwise
    <2>5. CASE StepSkipped(wires, applied, writes)
      <3>1. SKIP_VERIF_CYCLES > steps /\ UNCHANGED << measure, database_ho, asked >>
        BY <2>5 DEF StepSkipped, higher
      <3>2. ~(ORDER_VERIF > 1 /\ HIGHER_ORDER_TYPE = "TEMPORAL")
        BY <1>1, <1>2, <3>1
      <3> QED BY <2>1, <3>1, <3>2, AskedOtherwise
    <2>6. CASE StepVerified(wires, applied, writes)
      <3>1. ORDER_VERIF = 1 /\ UNCHANGED << measure, database_ho, asked >>
        BY <2>6 DEF StepVerified, higher
      <3> QED BY <2>1, <3>1, AskedOtherwise
    <2>7. CASE StepHigherOrder(wires, applied, writes)
      BY <2>1, <2>7, AskedHigherOrder
    <2> QED BY <2>3, <2>4, <2>5, <2>6, <2>7
  <1>5. CASE begin_measure
    <2>1. /\ measure' = [measure EXCEPT !.started = TRUE, !.begin_cycle = steps] /\ ~measure.started
          /\ UNCHANGED << setup, steps, database_ho, asked >>
      BY <1>5 DEF begin_measure, BeginCycle, higher
    <2>2. MeasureCycle' = 0
      BY <1>1, <2>1 DEF MeasureCycle
    <2>3. ORDER_VERIF > 1 => Len(database_ho) = 0
      BY <2>1 DEF AskedInv
    <2> QED BY <2>1, <2>2, <2>3, AskedOtherwise
  <1>6. CASE end_measure
    <2>1. /\ measure' = [measure EXCEPT !.ended = TRUE, !.end_cycle = steps] /\ Measuring
          /\ UNCHANGED << setup, database_ho, asked >>
      BY <1>6 DEF end_measure, higher
    <2>2. ~Measuring' /\ measure'.started
      BY <1>1, <2>1 DEF Measuring
    <2> QED BY <2>1, <2>2, AskedOtherwise
  <1>7. CASE UNCHANGED vars
    <2>1. UNCHANGED << setup, steps, measure, database_ho, asked >>
      BY <1>7 DEF vars, higher
    <2>2. Measuring' = Measuring /\ MeasureCycle' = MeasureCycle
      BY <2>1 DEF Measuring, MeasureCycle
    <2> QED BY <1>3, <2>1, <2>2, AskedOtherwise
  <1> QED BY <1>4, <1>5, <1>6, <1>7 DEF Next

\* A non-empty set of positions has a last one.
LEMMA LastPosition ==
  ASSUME NEW n \in Nat, NEW P \in SUBSET (1 .. n), P # {}
  PROVE  \E m \in P : \A i \in P : i <= m
  <1> DEFINE T == {n - i : i \in P}
  <1>1. T \in SUBSET Nat /\ T # {}
    <2>1. \A i \in P : n - i \in Nat
      OBVIOUS
    <2> QED BY <2>1
  <1>2. PICK d \in T : \A e \in T : d <= e
    <2> HIDE DEF T
    <2> QED BY <1>1, LeastNumber
  <1>3. PICK m \in P : d = n - m
    OBVIOUS
  <1>4. ASSUME NEW i \in P PROVE i <= m
    <2>1. n - m <= n - i
      BY <1>2, <1>3
    <2>2. i \in 1 .. n /\ m \in 1 .. n
      OBVIOUS
    <2> QED BY <2>1, <2>2
  <1> QED BY <1>4

\* At one cycle there are no more wires than observations of them.
LEMMA WiresObserved ==
  ASSUME NEW W, IsFiniteSet(W), NEW c, NEW T \in SUBSET (W \X {c}),
         NEW U, U = {w \in W : << w, c >> \in T}
  PROVE  Cardinality(U) <= Cardinality(T)
  <1> DEFINE f == [w \in U |-> << w, c >>]
  <1>1. IsFiniteSet(T)
    BY FS_Singleton, FS_Product, FS_Subset
  <1>2. f \in Injection(U, T)
    BY DEF Injection, IsInjective
  <1> HIDE DEF f
  <1> QED BY <1>1, <1>2, FS_Injection

\* Every choice of wires in one cycle is within one that was asked about.
LEMMA SpatialCovered ==
  ASSUME TypeOK, AskedInv, ORDER_VERIF > 1, HIGHER_ORDER_TYPE = "SPATIAL",
         NEW i \in DOMAIN database_ho,
         NEW T \in SUBSET (Wires \X {database_ho[i].cycle}), Cardinality(T) <= ORDER_VERIF
  PROVE  \E tuple \in asked : T \subseteq tuple
  <1> DEFINE c == database_ho[i].cycle
             U == {w \in Wires : << w, c >> \in T}
  <1>1. IsFiniteSet(Wires) /\ ORDER_VERIF \in Nat /\ ORDER_VERIF <= Cardinality(Wires)
    BY SetupsAssumption DEF TypeOK, SetupAssumption, Wires, ORDER_VERIF, HIGHER_ORDER_TYPE
  <1>2. Cardinality(U) <= Cardinality(T)
    BY <1>1, WiresObserved
  <1>3. Cardinality(U) \in Nat /\ Cardinality(T) \in Nat /\ U \in SUBSET Wires
    <2>1. IsFiniteSet(U) /\ IsFiniteSet(T)
      BY <1>1, FS_Singleton, FS_Product, FS_Subset
    <2> QED BY <2>1, FS_CardinalityType
  <1>4. \A t \in T : t[1] \in U /\ t[2] = c /\ t = << t[1], t[2] >>
    OBVIOUS
  <1> HIDE DEF U
  <1>5. Cardinality(U) <= ORDER_VERIF
    BY <1>1, <1>2, <1>3
  <1>6. PICK B \in Combinations(Wires, ORDER_VERIF) : U \subseteq B
    BY <1>1, <1>3, <1>5, GrowsTo
  <1>7. B \X {c} \in asked
    BY <1>6 DEF AskedInv, SpatialInv
  <1>8. T \subseteq B \X {c}
    BY <1>4, <1>6
  <1> QED BY <1>7, <1>8

\* Of any positions, the last (at least the second) has room for the others
\* among the earlier cycles it is joined with.
LEMMA RoomForEarlier ==
  ASSUME TypeOK, ORDER_VERIF > 1, NEW n \in Nat, n > 1,
         NEW P \in SUBSET (1 .. n), Cardinality(P) <= ORDER_VERIF
  PROVE  \E k \in 2 .. n : \E S \in Combinations(1 .. k - 1, Joined(k)) : P \subseteq {k} \union S
  <1>1. ORDER_VERIF \in Nat
    BY SetupsAssumption DEF TypeOK, SetupAssumption, ORDER_VERIF
  <1>2. IsFiniteSet(P) /\ Cardinality(P) \in Nat
    <2>1. IsFiniteSet(1 .. n)
      BY FS_Interval
    <2> QED BY <2>1, FS_Subset, FS_CardinalityType
  <1>3. PICK k \in 2 .. n : P \ {k} \subseteq 1 .. k - 1 /\ (k \in P \/ k = 2)
    <2>1. CASE \A i \in P : i = 1
      BY <2>1
    <2>2. CASE \E i \in P : i # 1
      <3>1. PICK m \in P : \A i \in P : i <= m
        BY <2>2, LastPosition
      <3>2. m \in 2 .. n
        BY <2>2, <3>1
      <3>3. P \ {m} \subseteq 1 .. m - 1
        BY <3>1
      <3> QED BY <3>1, <3>2, <3>3
    <2> QED BY <2>1, <2>2
  <1> DEFINE A == P \ {k}
  <1>4. IsFiniteSet(1 .. k - 1) /\ Cardinality(1 .. k - 1) = k - 1
    BY <1>3, FS_Interval
  <1>5. Cardinality(A) \in Nat /\ Cardinality(A) <= k - 1 /\ A \in SUBSET (1 .. k - 1)
    BY ZenonT(40), <1>3, <1>4, FS_Subset, FS_CardinalityType
  <1>6. k \in P => Cardinality(A) = Cardinality(P) - 1
    BY <1>2, FS_RemoveElement
  <1> HIDE DEF A
  <1>7. Joined(k) \in Nat /\ Cardinality(A) <= Joined(k) /\ Joined(k) <= k - 1
    <2>1. CASE ORDER_VERIF > k - 1
      BY <1>1, <1>5, <2>1 DEF Joined
    <2>2. CASE ~(ORDER_VERIF > k - 1)
      <3>1. k # 2
        BY <2>2
      <3>2. Cardinality(A) = Cardinality(P) - 1
        BY <1>3, <1>6, <3>1
      <3> QED BY <1>1, <1>2, <2>2, <3>2 DEF Joined
    <2> QED BY <2>1, <2>2
  <1>8. PICK S \in Combinations(1 .. k - 1, Joined(k)) : A \subseteq S
    <2>1. Joined(k) <= Cardinality(1 .. k - 1)
      BY <1>4, <1>7
    <2> QED BY <1>4, <1>5, <1>7, <2>1, GrowsTo
  <1> QED BY <1>8 DEF A

\* Every choice of cycles of one wire is within one that was asked about.
LEMMA TemporalCovered ==
  ASSUME TypeOK, AskedInv, ORDER_VERIF > 1, HIGHER_ORDER_TYPE = "TEMPORAL",
         NEW cycles, cycles = {database_ho[i].cycle : i \in DOMAIN database_ho},
         Cardinality(cycles) > 1, NEW w \in Wires,
         NEW T \in SUBSET ({w} \X cycles), Cardinality(T) <= ORDER_VERIF
  PROVE  \E tuple \in asked : T \subseteq tuple
  <1> DEFINE n == Len(database_ho)
             P == {i \in 1 .. n : << w, i - 1 >> \in T}
             f == [i \in P |-> << w, i - 1 >>]
  <1>1. /\ n \in Nat /\ DOMAIN database_ho = 1 .. n
        /\ \A i \in 1 .. n : database_ho[i].cycle = i - 1
    BY DEF TypeOK, AskedInv, TemporalInv
  <1>2. cycles = {i - 1 : i \in 1 .. n}
    BY <1>1
  <1>3. cycles = 0 .. n - 1
    <2>1. ASSUME NEW m \in Nat PROVE {i - 1 : i \in 1 .. m} = 0 .. m - 1
      <3>1. ASSUME NEW j \in 0 .. m - 1 PROVE j \in {i - 1 : i \in 1 .. m}
        <4>1. j + 1 \in 1 .. m /\ (j + 1) - 1 = j
          OBVIOUS
        <4> QED BY <4>1
      <3>2. ASSUME NEW i \in 1 .. m PROVE i - 1 \in 0 .. m - 1
        OBVIOUS
      <3> QED BY <3>1, <3>2
    <2> HIDE DEF n
    <2> QED BY <1>1, <1>2, <2>1
  <1> HIDE DEF n
  <1>4. IsFiniteSet(cycles) /\ Cardinality(cycles) = n
    <2>1. ASSUME NEW m \in Nat PROVE IsFiniteSet(0 .. m - 1) /\ Cardinality(0 .. m - 1) = m
      BY FS_Interval
    <2> QED BY <1>1, <1>3, <2>1
  <1>5. IsFiniteSet(T) /\ Cardinality(T) \in Nat
    BY <1>4, FS_Singleton, FS_Product, FS_Subset, FS_CardinalityType
  <1>6. Cardinality(P) <= Cardinality(T) /\ Cardinality(P) \in Nat /\ ORDER_VERIF \in Nat
    <2>1. f \in [P -> T] /\ \A i, j \in P : f[i] = f[j] => i = j
      BY <1>1
    <2>2. f \in Injection(P, T)
      <3> HIDE DEF f, P
      <3> QED BY <2>1 DEF Injection, IsInjective
    <2>3. IsFiniteSet(P)
      <3>1. IsFiniteSet(1 .. n)
        BY <1>1, FS_Interval
      <3>2. P \in SUBSET (1 .. n)
        OBVIOUS
      <3> HIDE DEF P
      <3> QED BY <3>1, <3>2, FS_Subset
    <2> HIDE DEF f, P
    <2>4. Cardinality(P) <= Cardinality(T) /\ Cardinality(P) \in Nat
      BY <1>5, <2>2, <2>3, FS_Injection, FS_CardinalityType
    <2> QED BY <2>4, SetupsAssumption DEF TypeOK, SetupAssumption, ORDER_VERIF
  <1>7. ASSUME NEW t \in T PROVE \E i \in P : t = << w, i - 1 >>
    <2>1. t = << w, t[2] >> /\ t[2] \in 0 .. n - 1
      BY <1>3
    <2>2. t[2] + 1 \in 1 .. n /\ (t[2] + 1) - 1 = t[2]
      BY <1>1, <2>1
    <2> QED BY <2>1, <2>2
  <1>8. P \in SUBSET (1 .. n)
    OBVIOUS
  <1> HIDE DEF P, f
  <1>9. n > 1 /\ Cardinality(P) <= ORDER_VERIF
    BY <1>4, <1>5, <1>6
  <1>10. PICK k \in 2 .. n : \E S \in Combinations(1 .. k - 1, Joined(k)) : P \subseteq {k} \union S
    BY <1>1, <1>8, <1>9, RoomForEarlier
  <1>11. PICK S \in Combinations(1 .. k - 1, Joined(k)) : P \subseteq {k} \union S
    BY <1>10
  <1>12. {w} \X Before({k} \union S) \in asked
    BY <1>11 DEF AskedInv, TemporalInv, n
  <1>13. T \subseteq {w} \X Before({k} \union S)
    BY <1>7, <1>11 DEF Before
  <1> QED BY <1>12, <1>13

\* At higher orders no combination of at most ORDER_VERIF observations is
\* missed, for any circuit and any order, when no cycle is skipped and nothing
\* stops the simulation before its end.
THEOREM EveryTupleAlwaysAsked == ASSUME Defaults, NoneSkipped PROVE Spec => []EveryTupleAsked
  <1>1. Init => HistoryInv /\ AskedInv
    <2> SUFFICES ASSUME Init PROVE HistoryInv /\ AskedInv
      OBVIOUS
    <2> QED BY DEF Init, HistoryInv, AskedInv, SpatialInv, TemporalInv, Measuring
  <1>2. CacheInv /\ ReportInv /\ HistoryInv /\ AskedInv /\ [Next]_vars => HistoryInv' /\ AskedInv'
    BY HistoryStep, AskedStep
  <1>3. CacheInv /\ AskedInv => EveryTupleAsked
    <2> SUFFICES ASSUME TypeOK, AskedInv, ORDER_VERIF > 1 PROVE EveryTupleAsked
      BY DEF CacheInv, EveryTupleAsked
    <2>1. HIGHER_ORDER_TYPE \in {"SPATIAL", "TEMPORAL"}
      BY SetupsAssumption DEF TypeOK, SetupAssumption, HIGHER_ORDER_TYPE
    <2>2. CASE HIGHER_ORDER_TYPE = "SPATIAL"
      BY <2>2, SpatialCovered DEF EveryTupleAsked
    <2>3. CASE HIGHER_ORDER_TYPE = "TEMPORAL"
      BY <2>3, TemporalCovered DEF EveryTupleAsked
    <2> QED BY <2>1, <2>2, <2>3
  <1> QED BY <1>1, <1>2, <1>3, ReportInvariant, PTL DEF Spec

=============================================================================
