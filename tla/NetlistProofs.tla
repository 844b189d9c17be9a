---------------------------- MODULE NetlistProofs ----------------------------
(***************************************************************************)
(* For any netlist whose table names wires: the database never grows after *)
(* init_database and track_parents never asks for a name it lacks; and     *)
(* tracking reports exactly the roots, in whatever order it meets them.    *)
(* Where the table is well built the election is enough: an observer of an *)
(* elected wire learns all an observer of any wire learns, in a cycle and  *)
(* over the clock edge before it.                                          *)
(***************************************************************************)
EXTENDS Netlist, TLAPS, WellFoundedInduction

\* The sets a map holds are all within S.
Into(f, S) == \A k \in DOMAIN f : f[k] \subseteq S

LEMMA AddedInto ==
  ASSUME NEW S, NEW f, Into(f, S), NEW k, NEW x, x \subseteq S
  PROVE  Into(AddedAt(f, k, x), S)
  BY DEF Into, AddedAt

LEMMA SetInto ==
  ASSUME NEW S, NEW f, Into(f, S), NEW k, NEW x, x \subseteq S
  PROVE  Into(SetAt(f, k, x), S)
  BY DEF Into, SetAt

LEMMA LookupInto ==
  ASSUME NEW S, NEW f, Into(f, S), NEW k
  PROVE  Lookup(f, k) \subseteq S
  BY DEF Into, Lookup

LEMMA NothingInto == ASSUME NEW S PROVE Into(Nothing, S)
  BY DEF Into, Nothing

\* A stack of frames as the set of its frames.
LEMMA PushedSet ==
  ASSUME NEW S, NEW q \in Seq(S), NEW x \in S
  PROVE  << x >> \o q \in Seq(S) /\ ToSet(<< x >> \o q) = {x} \union ToSet(q)
  <1> DEFINE r == << x >> \o q
  <1>1. /\ r \in Seq(S) /\ Len(r) = Len(q) + 1 /\ Len(q) \in Nat
        /\ DOMAIN r = 1 .. Len(q) + 1 /\ DOMAIN q = 1 .. Len(q)
        /\ r[1] = x /\ \A k \in 1 .. Len(q) : r[k + 1] = q[k]
    OBVIOUS
  <1>2. \A k \in 1 .. Len(q) + 1 : k = 1 \/ (k - 1 \in 1 .. Len(q) /\ (k - 1) + 1 = k)
    BY <1>1
  <1>3. \A k \in 1 .. Len(q) : k + 1 \in 1 .. Len(q) + 1
    BY <1>1
  <1>4. 1 \in 1 .. Len(q) + 1
    BY <1>1
  <1> HIDE DEF r
  <1>5. ASSUME NEW k \in 1 .. Len(q) + 1 PROVE r[k] \in {x} \union ToSet(q)
    <2>1. CASE k = 1
      BY <1>1, <2>1
    <2>2. CASE k - 1 \in 1 .. Len(q) /\ (k - 1) + 1 = k
      <3>1. r[(k - 1) + 1] = q[k - 1]
        BY <1>1, <2>2
      <3> QED BY <1>1, <2>2, <3>1 DEF ToSet
    <2> QED BY <1>2, <2>1, <2>2
  <1>6. {x} \union ToSet(q) \subseteq ToSet(r)
    BY <1>1, <1>3, <1>4 DEF ToSet
  <1> QED BY ZenonT(40), <1>1, <1>5, <1>6 DEF r, ToSet

LEMMA PoppedSet ==
  ASSUME NEW S, NEW q \in Seq(S), q # << >>
  PROVE  /\ q[1] \in S /\ Tail(q) \in Seq(S)
         /\ ToSet(q) = {q[1]} \union ToSet(Tail(q))
  <1>1. /\ q[1] \in S /\ Tail(q) \in Seq(S) /\ Len(q) \in Nat /\ Len(q) >= 1
        /\ DOMAIN q = 1 .. Len(q) /\ DOMAIN Tail(q) = 1 .. Len(q) - 1
        /\ \A k \in 1 .. Len(q) - 1 : Tail(q)[k] = q[k + 1]
    OBVIOUS
  <1>2. \A k \in 1 .. Len(q) : k = 1 \/ (k - 1 \in 1 .. Len(q) - 1 /\ (k - 1) + 1 = k)
    BY <1>1
  <1>3. \A k \in 1 .. Len(q) - 1 : k + 1 \in 1 .. Len(q)
    BY <1>1
  <1>4. 1 \in 1 .. Len(q)
    BY <1>1
  <1> DEFINE t == Tail(q)
  <1> HIDE DEF t
  <1>5. ASSUME NEW k \in 1 .. Len(q) PROVE q[k] \in {q[1]} \union ToSet(t)
    <2>1. CASE k = 1
      BY <1>1, <2>1
    <2>2. CASE k - 1 \in 1 .. Len(q) - 1 /\ (k - 1) + 1 = k
      <3>1. t[k - 1] = q[(k - 1) + 1]
        BY <1>1, <2>2 DEF t
      <3> QED BY <1>1, <2>2, <3>1 DEF ToSet, t
    <2> QED BY <1>2, <2>1, <2>2
  <1>6. {q[1]} \union ToSet(t) \subseteq ToSet(q)
    BY <1>1, <1>3, <1>4 DEF ToSet, t
  <1> QED BY <1>1, <1>5, <1>6 DEF t, ToSet

LEMMA EmptySet == ToSet(<< >>) = {}
  BY DEF ToSet

-----------------------------------------------------------------------------
(* The structure of the database *)

WireNames == UNION {WiresOf(Gates[g]) : g \in DOMAIN Gates}

LEMMA WiresKnown == ASSUME setup \in Setups PROVE WireNames \subseteq Known
  <1> SUFFICES ASSUME NEW g \in DOMAIN Gates, NEW n \in WiresOf(Gates[g]) PROVE n \in Known
    BY DEF WireNames
  <1>1. /\ n \in Names
        /\ \A part \in ToSet(Items[n]) : part.type # "memory"
        /\ Len(Items[n]) > 1 \/ \E part \in ToSet(Items[n]) : part.type # "alias"
    BY WiresAssumption DEF Gates, Items, Names
  <1>2. ~Memory(n)
    BY <1>1 DEF Memory, Parts
  <1>3. Fused(n) \/ Parts(n) # {}
    BY <1>1 DEF Fused, Parts
  <1> QED BY <1>1, <1>2, <1>3 DEF Known

LEMMA LineWires ==
  ASSUME NEW l \in Lines
  PROVE  l.wires \subseteq WireNames /\ l.sliced \subseteq WireNames
  <1>1. PICK g \in DOMAIN Gates :
          \/ l = Line(g, "Y", "out", Gates[g].out)
          \/ \E port \in DOMAIN Gates[g].ports : l = Line(g, port, "in", Gates[g].ports[port])
    BY DEF Lines
  <1>2. \A port, dir, s : /\ Line(g, port, dir, s).wires = NamesIn(s)
                          /\ Line(g, port, dir, s).sliced \subseteq NamesIn(s)
    BY DEF Line, Sliced
  <1>3. NamesIn(Gates[g].out) \subseteq WireNames
    BY DEF NamesIn, WireNames, WiresOf
  <1>4. ASSUME NEW port \in DOMAIN Gates[g].ports
        PROVE  NamesIn(Gates[g].ports[port]) \subseteq WireNames
    <2>1. ToSet(Gates[g].ports[port]) \subseteq Reading(Gates[g])
      BY DEF Reading
    <2>2. NamesIn(Gates[g].ports[port]) \subseteq WiresOf(Gates[g])
      BY <2>1 DEF NamesIn, WiresOf
    <2> QED BY <2>2 DEF WireNames
  <1> QED BY <1>1, <1>2, <1>3, <1>4

\* Everything built from the table is made of known names.
ParserInv ==
  /\ unread \subseteq Lines
  /\ Into(inputs, Known) /\ Into(muxAInputs, Known) /\ Into(muxBInputs, Known)
  /\ split_wires \subseteq Known
  /\ Into(topology, Known)
  /\ \A s \in DOMAIN mux_structures :
       mux_structures[s][1] \subseteq Known /\ mux_structures[s][2] \subseteq Known

LayoutInv ==
  /\ registers_and_outputs \subseteq Known
  /\ inputs_of_stabilized_gate \subseteq Known
  /\ phase \notin {"parse", "init"} => database = Known

Frames == [needle : Names, todo : SUBSET Known, leaking : BOOLEAN]

StructInv ==
  /\ setup \in Setups
  /\ phase \in {"parse", "init", "eval", "verify", "track", "verified"}
  /\ ParserInv /\ LayoutInv
  /\ stack \in Seq(Frames)
  /\ leaky \subseteq Names /\ needles \subseteq Names

\* The names of the circuit do not depend on what the program did.
LEMMA SetupFixed ==
  ASSUME setup' = setup
  PROVE  Lines' = Lines /\ Known' = Known /\ Names' = Names /\ Memories' = Memories
  BY DEF Lines, Line, Sliced, BitsOf, Width, Fused, Known, Memory, Memories, Parts, Names, Items,
         Gates, NamesIn

LEMMA KnownNames == Known \subseteq Names /\ Memories \subseteq Names
  BY DEF Known, Memories

LEMMA StructInit == ASSUME Init PROVE StructInv
  <1>1. ParserInv
    BY NothingInto DEF Init, ParserInv, Nothing
  <1>2. LayoutInv
    BY DEF Init, LayoutInv
  <1> QED BY <1>1, <1>2 DEF Init, StructInv

LEMMA StructParseLine ==
  ASSUME StructInv, ParseLine
  PROVE  StructInv'
  <1> DEFINE row == CHOOSE l \in unread : TRUE
  <1>1. row \in Lines
    BY DEF ParseLine, StructInv, ParserInv
  <1>2. row.wires \subseteq Known /\ row.sliced \subseteq Known
    BY <1>1, LineWires, WiresKnown DEF StructInv
  <1>3. /\ unread' \subseteq unread
        /\ split_wires' = split_wires \union row.sliced
        /\ muxAInputs' = muxAInputs \/ muxAInputs' = SetAt(muxAInputs, row.gate, row.wires)
        /\ muxBInputs' = muxBInputs \/ muxBInputs' = SetAt(muxBInputs, row.gate, row.wires)
        /\ inputs' = inputs \/ inputs' = AddedAt(inputs, row.gate, row.wires)
    BY DEF ParseLine
  <1> HIDE DEF row
  <1>4. UNCHANGED << setup, phase, topology, mux_structures, layout, election, leaky, needles, stack >>
    BY DEF ParseLine, tracking
  <1>5. Lines' = Lines /\ Known' = Known /\ Names' = Names
    BY <1>4, SetupFixed
  <1>6. Into(inputs', Known) /\ Into(muxAInputs', Known) /\ Into(muxBInputs', Known)
    BY <1>2, <1>3, AddedInto, SetInto DEF StructInv, ParserInv
  <1>7. ParserInv'
    BY <1>2, <1>3, <1>4, <1>5, <1>6 DEF StructInv, ParserInv, Into
  <1>8. LayoutInv'
    BY <1>4, <1>5 DEF StructInv, LayoutInv, layout, election
  <1> QED BY <1>4, <1>5, <1>7, <1>8 DEF StructInv, Frames

\* No memory is fused: what the constructor adds to the split wires is in the
\* database.
LEMMA PartsKnown == ASSUME setup \in Setups, NEW known PROVE InParts(known) \subseteq Known
  <1> SUFFICES ASSUME NEW n \in InParts(known) PROVE n \in Known
    OBVIOUS
  <1>1. n \in Names /\ Fused(n)
    BY DEF InParts
  <1>2. ~Memory(n)
    BY <1>1, PartsAssumption DEF Memory, Parts, Fused, Names, Items
  <1> QED BY <1>1, <1>2 DEF Known

LEMMA StructMerge ==
  ASSUME StructInv, Merge
  PROVE  StructInv'
  <1>1. /\ topology' = Topology /\ mux_structures' = Muxes /\ phase' = "init"
        /\ split_wires' = split_wires \union InParts(DOMAIN Topology)
        /\ UNCHANGED << setup, unread, inputs, outputs, muxGate, muxAInputs, muxBInputs, layout,
                        election, leaky, needles, stack >>
    BY DEF Merge, tracking
  <1>2. Known' = Known /\ Lines' = Lines /\ Names' = Names
    BY <1>1, SetupFixed
  <1>3. Into(Topology, Known)
    <2> SUFFICES ASSUME NEW w \in DOMAIN Topology PROVE Topology[w] \subseteq Known
      BY DEF Into
    <2>1. \E g : Topology[w] = Lookup(inputs, g)
      BY DEF Topology
    <2> QED BY <2>1, LookupInto DEF StructInv, ParserInv
  <1>4. \A s : Branches(muxAInputs, s) \subseteq Known /\ Branches(muxBInputs, s) \subseteq Known
    BY LookupInto DEF Branches, StructInv, ParserInv
  <1>5. \A s \in DOMAIN Muxes : Muxes[s][1] \subseteq Known /\ Muxes[s][2] \subseteq Known
    BY <1>4 DEF Muxes
  <1>6. InParts(DOMAIN Topology) \subseteq Known
    BY PartsKnown DEF StructInv
  <1>7. ParserInv'
    BY <1>1, <1>2, <1>3, <1>5, <1>6 DEF StructInv, ParserInv, Into
  <1>8. LayoutInv'
    BY <1>1, <1>2 DEF StructInv, LayoutInv, layout, election
  <1> QED BY <1>1, <1>2, <1>7, <1>8 DEF StructInv, Frames

LEMMA StructInitDatabase ==
  ASSUME StructInv, init_database
  PROVE  StructInv'
  <1>1. /\ database' = Known /\ registers_and_outputs' \subseteq Known /\ phase' = "eval"
        /\ UNCHANGED << setup, parser, topology, mux_structures, election, leaky, needles, stack >>
    BY DEF init_database, tracking
  <1>2. Known' = Known /\ Lines' = Lines /\ Names' = Names
    BY <1>1, SetupFixed
  <1>3. ParserInv'
    BY <1>1, <1>2 DEF StructInv, ParserInv, Into, parser
  <1>4. LayoutInv'
    BY <1>1, <1>2 DEF StructInv, LayoutInv, election
  <1> QED BY <1>1, <1>2, <1>3, <1>4 DEF StructInv, Frames

\* What verify elects is in the database: so it never extends it.
LEMMA ElectedKnown ==
  ASSUME StructInv, phase \notin {"parse", "init"}
  PROVE  Elected \subseteq Known /\ InputsOfStabilized \subseteq Known
  <1>1. ASSUME NEW n \in Stabilized PROVE Lookup(topology, n) \union DeadBranch(n) \subseteq Known
    <2>1. Lookup(topology, n) \subseteq Known
      BY LookupInto DEF StructInv, ParserInv
    <2>2. DeadBranch(n) \subseteq Known
      BY DEF DeadBranch, StructInv, ParserInv
    <2> QED BY <2>1, <2>2
  <1>2. InputsOfStabilized \subseteq Known
    BY <1>1 DEF InputsOfStabilized
  <1> QED BY <1>2 DEF Elected, StructInv, LayoutInv, ParserInv

LEMMA StructVerify ==
  ASSUME StructInv, Verify
  PROVE  StructInv'
  <1>1. /\ phase = "verify" /\ phase' \in {"verified", "track"} /\ stack' = << >>
        /\ inputs_of_stabilized_gate' = InputsOfStabilized /\ elected' = Elected
        /\ topology' = [n \in DOMAIN topology \union Stabilized |-> Lookup(topology, n)]
        /\ database' = database \union elected'
        /\ leaky' \subseteq Known \union Memories /\ needles' \subseteq leaky'
        /\ UNCHANGED << setup, parser, mux_structures, registers_and_outputs >>
    BY DEF Verify
  <1>2. Known' = Known /\ Lines' = Lines /\ Names' = Names
    BY <1>1, SetupFixed
  <1>3. Into(topology', Known)
    BY <1>1, LookupInto DEF StructInv, ParserInv, Into
  <1>4. ParserInv'
    BY <1>1, <1>2, <1>3 DEF StructInv, ParserInv, Into, parser
  <1>5. Elected \subseteq Known /\ InputsOfStabilized \subseteq Known /\ database = Known
    BY <1>1, ElectedKnown DEF StructInv, LayoutInv
  <1>6. LayoutInv'
    BY <1>1, <1>2, <1>5 DEF StructInv, LayoutInv
  <1>7. stack' \in Seq(Frames)
    BY <1>1
  <1> QED BY <1>1, <1>2, <1>4, <1>6, <1>7, KnownNames DEF StructInv, Frames

\* A call of track_parents pushes the parents of a known wire.
LEMMA CallFrames ==
  ASSUME StructInv, NEW n \in Names, NEW frames \in Seq(Frames), Call(n, frames)
  PROVE  stack' \in Seq(Frames)
  <1>1. CASE n \in cached \/ n \notin DOMAIN topology
    BY <1>1 DEF Call
  <1>2. CASE ~(n \in cached \/ n \notin DOMAIN topology)
    <2> DEFINE top == [needle |-> n, todo |-> topology[n], leaking |-> FALSE]
    <2>1. top \in Frames
      BY <1>2 DEF Frames, StructInv, ParserInv, Into
    <2>2. stack' = << top >> \o frames
      BY <1>2 DEF Call
    <2> QED BY <2>1, <2>2, PushedSet
  <1> QED BY <1>1, <1>2

\* A step of tracking leaves the structure alone, and never aborts.
LEMMA StructTracking ==
  ASSUME StructInv, Tracking
  PROVE  StructInv'
  <1> DEFINE Fixed == UNCHANGED << setup, parser, topology, mux_structures, layout, election, leaky >>
  <1>1. phase = "track"
    BY DEF Tracking, Track, Parent, Return, Tracked
  <1>2. ASSUME Fixed, phase' \in {"track", "verified"}, stack' \in Seq(Frames), needles' \subseteq Names
        PROVE  StructInv'
    <2>1. Known' = Known /\ Lines' = Lines /\ Names' = Names
      BY <1>2, SetupFixed
    <2>2. ParserInv'
      BY <1>2, <2>1 DEF StructInv, ParserInv, Into, parser
    <2>3. LayoutInv'
      BY <1>1, <1>2, <2>1 DEF StructInv, LayoutInv, layout, election
    <2> QED BY <1>2, <2>1, <2>2, <2>3 DEF StructInv, Frames
  <1>3. CASE Track
    <2>1. PICK n \in needles : Call(n, << >>) /\ needles' = needles \ {n}
      BY <1>3 DEF Track
    <2>2. n \in Names /\ << >> \in Seq(Frames)
      BY DEF StructInv
    <2>3. stack' \in Seq(Frames)
      BY <2>1, <2>2, CallFrames
    <2> QED BY <1>1, <1>2, <1>3, <2>1, <2>3 DEF Track, StructInv
  <1>4. CASE Parent
    <2>1. stack # << >> /\ stack \in Seq(Frames)
      BY <1>4 DEF Parent, StructInv
    <2>2. Top \in Frames /\ Tail(stack) \in Seq(Frames)
      BY <2>1, PoppedSet DEF Top
    <2>3. PICK w \in Top.todo :
            IF w \notin database THEN phase' = "aborted" /\ UNCHANGED << stack, cached, roots >>
            ELSE /\ phase' = phase
                 /\ IF Synchronous(w) \/ ~Leaks(w)
                    THEN stack' = << Done(w) >> \o Tail(stack) /\ UNCHANGED << cached, roots >>
                    ELSE Call(w, << [Done(w) EXCEPT !.leaking = TRUE] >> \o Tail(stack))
      BY <1>4 DEF Parent
    <2>4. w \in Known /\ database = Known /\ w \in Names
      BY <1>1, <2>2, KnownNames DEF Frames, StructInv, LayoutInv
    <2>5. Done(w) \in Frames /\ [Done(w) EXCEPT !.leaking = TRUE] \in Frames
      BY <2>2 DEF Done, Frames
    <2>6. stack' \in Seq(Frames)
      <3>1. CASE Synchronous(w) \/ ~Leaks(w)
        BY <2>2, <2>3, <2>4, <2>5, <3>1, PushedSet
      <3>2. CASE ~(Synchronous(w) \/ ~Leaks(w))
        <4>1. << [Done(w) EXCEPT !.leaking = TRUE] >> \o Tail(stack) \in Seq(Frames)
          BY <2>2, <2>5, PushedSet
        <4> QED BY <2>3, <2>4, <3>2, <4>1, CallFrames
      <3> QED BY <3>1, <3>2
    <2> QED BY <1>1, <1>2, <1>4, <2>3, <2>4, <2>6 DEF Parent, StructInv
  <1>5. CASE Return
    <2>1. Tail(stack) \in Seq(Frames)
      BY <1>5, PoppedSet DEF Return, StructInv
    <2> QED BY <1>1, <1>2, <1>5, <2>1 DEF Return, StructInv
  <1>6. CASE Tracked
    BY <1>1, <1>2, <1>6 DEF Tracked, StructInv, tracking
  <1> QED BY <1>3, <1>4, <1>5, <1>6 DEF Tracking

LEMMA StructQuiet ==
  ASSUME StructInv, Eval \/ NextCycle \/ UNCHANGED vars
  PROVE  StructInv'
  <1>1. /\ \/ phase = "eval" /\ phase' = "verify"
           \/ phase = "verified" /\ phase' = "eval"
           \/ phase' = phase
        /\ UNCHANGED << setup, parser, topology, mux_structures, layout, election, leaky, needles, stack >>
    <2>1. CASE Eval
      BY <2>1 DEF Eval, tracking
    <2>2. CASE NextCycle
      BY <2>2 DEF NextCycle, tracking
    <2>3. CASE UNCHANGED vars
      BY <2>3 DEF vars, tracking
    <2> QED BY <2>1, <2>2, <2>3
  <1>2. Known' = Known /\ Lines' = Lines /\ Names' = Names
    BY <1>1, SetupFixed
  <1>3. ParserInv'
    BY <1>1, <1>2 DEF StructInv, ParserInv, Into, parser
  <1>4. LayoutInv'
    BY <1>1, <1>2 DEF StructInv, LayoutInv, layout, election
  <1> QED BY <1>1, <1>2, <1>3, <1>4 DEF StructInv, Frames

LEMMA StructStep == ASSUME StructInv, [Next]_vars PROVE StructInv'
  BY StructParseLine, StructMerge, StructInitDatabase, StructVerify, StructTracking, StructQuiet
     DEF Next

LEMMA StructInvariant == Spec => []StructInv
  BY StructInit, StructStep, PTL DEF Spec

\* "Note that the structure of database is fixed" (manager.cpp): for every
\* circuit whose table names wires, verify and track_parents only ask for the
\* names init_database entered, and the abort of track_parents is dead code.
THEOREM DatabaseFixed == Spec => []StructureFixed
  <1>1. StructInv => StructureFixed
    BY DEF StructInv, LayoutInv, StructureFixed
  <1> QED BY <1>1, StructInvariant, PTL

-----------------------------------------------------------------------------
(* The roots of the leakage *)

\* What tracking knows, between two of its steps: c are the wires it entered,
\* r the roots so far, F the frames of the calls that run, pending the wires
\* it is about to enter.
Explored(c, r, F, pending) ==
  /\ c \subseteq Reached /\ c \subseteq leaky
  /\ \A f \in F : /\ f.needle \in c /\ f.needle \in DOMAIN topology
                  /\ f.todo \subseteq topology[f.needle]
                  /\ Above(f.needle) \subseteq c \union f.todo \union pending
                  /\ f.leaking <=> ~(Above(f.needle) \subseteq f.todo)
  /\ \A n \in c : \/ \E f \in F : f.needle = n
                  \/ /\ Above(n) \subseteq c
                     /\ Above(n) = {} => n \in r
  /\ r \subseteq c /\ \A n \in r : Above(n) = {}

TrackInv ==
  phase \in {"track", "verified"} =>
    /\ found \subseteq leaky /\ needles \subseteq found /\ found \subseteq cached \union needles
    /\ Explored(cached, roots, ToSet(stack), {})
    /\ phase = "verified" => stack = << >> /\ needles = {}

\* The wires tracking may reach contain the given ones and the leaking
\* combinational parents of each.
LEMMA ReachedClosed ==
  ASSUME leaky \subseteq Names, found \subseteq leaky
  PROVE  /\ found \subseteq Reached
         /\ \A n \in Reached : Above(n) \subseteq Reached
  <1>1. \A n : Above(n) \subseteq Names
    BY DEF Above
  <1> QED BY <1>1 DEF Reached, Closed

\* A call of track_parents, whose wire leaks and is reached.
LEMMA CallExplores ==
  ASSUME NEW n \in Reached, n \in leaky, NEW frames \in Seq(Frames), NEW F, F = ToSet(frames),
         Explored(cached, roots, F, {n}), Call(n, frames), StructInv
  PROVE  Explored(cached', roots', ToSet(stack'), {}) /\ cached' = cached \union {n}
  <1>1. cached' = cached \union {n}
    BY DEF Call
  <1>2. CASE n \in cached
    <2>1. cached' = cached /\ roots' = roots /\ stack' = frames
      BY <1>2 DEF Call
    <2> QED BY <1>1, <1>2, <2>1 DEF Explored
  <1>3. CASE n \notin cached /\ n \notin DOMAIN topology
    <2>1. roots' = roots \union {n} /\ stack' = frames
      BY <1>3 DEF Call
    <2>2. Above(n) = {}
      BY <1>3 DEF Above, Lookup
    <2> QED BY <1>1, <1>3, <2>1, <2>2 DEF Explored
  <1>4. CASE n \notin cached /\ n \in DOMAIN topology
    <2> DEFINE top == [needle |-> n, todo |-> topology[n], leaking |-> FALSE]
    <2>1. roots' = roots /\ stack' = << top >> \o frames
      BY <1>4 DEF Call
    <2>2. top \in Frames
      BY <1>4, KnownNames DEF Frames, StructInv, ParserInv, Into
    <2>3. ToSet(stack') = {top} \union F
      BY <2>1, <2>2, PushedSet
    <2>4. Above(n) \subseteq topology[n]
      BY <1>4 DEF Above, Lookup
    <2>5. top.needle = n /\ top.todo = topology[n] /\ top.leaking = FALSE
      OBVIOUS
    <2> HIDE DEF top
    <2> QED BY <1>1, <1>4, <2>1, <2>3, <2>4, <2>5 DEF Explored
  <1> QED BY <1>2, <1>3, <1>4

\* Once no call runs and every given wire was entered, all that is reached was.
LEMMA AllExplored ==
  ASSUME leaky \subseteq Names, Explored(cached, roots, {}, {}), found \subseteq cached
  PROVE  roots = {n \in Reached : Above(n) = {}}
  <1>1. cached \subseteq Names /\ Closed(cached)
    BY DEF Explored, Closed
  <1>2. cached = Reached
    BY <1>1 DEF Reached, Explored
  <1> QED BY <1>2 DEF Explored

\* What tracking is defined by does not change while it runs.
LEMMA TrackingFixed ==
  ASSUME UNCHANGED << setup, topology, leaky, found >>
  PROVE  /\ \A n : Above(n)' = Above(n)
         /\ Reached' = Reached
  <1>1. Names' = Names /\ \A w : Synchronous(w)' = Synchronous(w)
    BY DEF Names, Items, Synchronous, Parts
  <1>2. \A n : Above(n)' = Above(n)
    BY <1>1 DEF Above, Lookup
  <1>3. \A C : Closed(C)' = Closed(C)
    BY <1>2 DEF Closed
  <1> QED BY <1>1, <1>2, <1>3 DEF Reached

LEMMA TrackVerify ==
  ASSUME StructInv, Verify
  PROVE  TrackInv'
  <1>1. /\ phase' = IF needles' = {} THEN "verified" ELSE "track"
        /\ stack' = << >> /\ cached' = {} /\ roots' = {}
        /\ found' = needles' /\ needles' \subseteq leaky'
    BY DEF Verify
  <1>2. ToSet(stack') = {}
    BY <1>1, EmptySet
  <1> QED BY <1>1, <1>2 DEF TrackInv, Explored

\* A step of tracking that leaves its wires well explored.
LEMMA TrackFrame ==
  ASSUME TrackInv, phase = "track", phase' \in {"track", "verified"},
         UNCHANGED << setup, topology, leaky, found >>,
         needles' \subseteq needles, found \subseteq cached' \union needles',
         phase' = "verified" => stack' = << >> /\ needles' = {},
         Explored(cached', roots', ToSet(stack'), {})
  PROVE  TrackInv'
  BY TrackingFixed DEF TrackInv, Explored

LEMMA TrackParent ==
  ASSUME StructInv, TrackInv, Parent
  PROVE  TrackInv'
  <1>1. /\ phase = "track" /\ stack # << >> /\ stack \in Seq(Frames) /\ database = Known
        /\ Explored(cached, roots, ToSet(stack), {})
        /\ UNCHANGED << setup, topology, leaky, found, needles >>
    BY DEF Parent, StructInv, LayoutInv, TrackInv
  <1> DEFINE rest == Tail(stack)
             F == ToSet(rest)
  <1>2. Top \in Frames /\ rest \in Seq(Frames) /\ ToSet(stack) = {Top} \union F
    BY <1>1, PoppedSet DEF Top
  <1> HIDE DEF F, rest
  <1>3. PICK w \in Top.todo :
          IF w \notin database THEN phase' = "aborted" /\ UNCHANGED << stack, cached, roots >>
          ELSE /\ phase' = phase
               /\ IF Synchronous(w) \/ ~Leaks(w)
                  THEN stack' = << Done(w) >> \o rest /\ UNCHANGED << cached, roots >>
                  ELSE Call(w, << [Done(w) EXCEPT !.leaking = TRUE] >> \o rest)
    BY DEF Parent, rest
  <1>4. w \in database /\ w \in Names /\ phase' = phase
    BY <1>1, <1>2, <1>3, KnownNames DEF Frames
  <1>5. /\ Top.needle \in cached /\ Top.needle \in DOMAIN topology
        /\ Top.todo \subseteq topology[Top.needle]
        /\ Above(Top.needle) \subseteq cached \union Top.todo
        /\ Top.leaking <=> ~(Above(Top.needle) \subseteq Top.todo)
        /\ cached \subseteq leaky
    BY <1>1, <1>2 DEF Explored
  <1>6. CASE Synchronous(w) \/ ~Leaks(w)
    <2> DEFINE top == Done(w)
    <2>1. stack' = << top >> \o rest /\ UNCHANGED << cached, roots >>
      BY <1>3, <1>4, <1>6
    <2>2. /\ top \in Frames /\ top.needle = Top.needle
          /\ top.todo = Top.todo \ {w} /\ top.leaking = Top.leaking
      BY <1>2 DEF Done, Frames
    <2>3. ToSet(stack') = {top} \union F
      BY <1>2, <2>1, <2>2, PushedSet DEF F
    <2>4. w \notin Above(Top.needle)
      BY <1>6 DEF Leaks, Above
    <2> HIDE DEF top
    <2>5. Explored(cached', roots', ToSet(stack'), {})
      BY <1>1, <1>2, <1>5, <2>1, <2>2, <2>3, <2>4 DEF Explored
    <2> QED BY <1>1, <1>4, <2>1, <2>5, TrackFrame DEF TrackInv
  <1>7. CASE ~(Synchronous(w) \/ ~Leaks(w))
    <2> DEFINE top == [Done(w) EXCEPT !.leaking = TRUE]
    <2>1. Call(w, << top >> \o rest)
      BY <1>3, <1>4, <1>7
    <2>2. /\ top \in Frames /\ top.needle = Top.needle
          /\ top.todo = Top.todo \ {w} /\ top.leaking = TRUE
      BY <1>2 DEF Done, Frames
    <2>3. << top >> \o rest \in Seq(Frames) /\ ToSet(<< top >> \o rest) = {top} \union F
      BY <1>2, <2>2, PushedSet DEF F
    <2>4. w \in leaky
      BY <1>5, <1>7 DEF Leaks
    <2>5. w \in Above(Top.needle)
      <3>1. Top.todo \subseteq topology[Top.needle]
        BY <1>5
      <3> QED BY <1>3, <1>5, <1>7, <2>4, <3>1 DEF Above, Lookup
    <2>6. w \in Reached
      BY <1>1, <1>5, <2>5, ReachedClosed DEF Explored, StructInv, TrackInv
    <2> HIDE DEF top
    <2>7. Explored(cached, roots, {top} \union F, {w})
      BY <1>1, <1>2, <1>5, <2>2, <2>5 DEF Explored
    <2>8. Explored(cached', roots', ToSet(stack'), {}) /\ cached' = cached \union {w}
      BY <2>1, <2>3, <2>4, <2>6, <2>7, CallExplores
    <2> QED BY <1>1, <1>4, <2>8, TrackFrame DEF TrackInv
  <1> QED BY <1>6, <1>7

LEMMA TrackStep ==
  ASSUME StructInv, TrackInv, [Next]_vars
  PROVE  TrackInv'
  <1>1. CASE Track
    <2>1. PICK n \in needles : Call(n, << >>) /\ needles' = needles \ {n}
      BY <1>1 DEF Track
    <2>2. /\ phase = "track" /\ phase' = "track" /\ stack = << >>
          /\ UNCHANGED << setup, topology, leaky, found >>
      BY <1>1 DEF Track
    <2>3. /\ Explored(cached, roots, {}, {}) /\ found \subseteq leaky /\ n \in found
          /\ found \subseteq cached \union needles
      BY <2>2, EmptySet DEF TrackInv
    <2>4. n \in Reached
      BY <2>3, ReachedClosed DEF StructInv
    <2>5. Explored(cached, roots, {}, {n})
      BY <2>3 DEF Explored
    <2>6. << >> \in Seq(Frames) /\ ToSet(<< >>) = {}
      BY EmptySet
    <2>7. Explored(cached', roots', ToSet(stack'), {}) /\ cached' = cached \union {n}
      BY <2>1, <2>3, <2>4, <2>5, <2>6, CallExplores
    <2> QED BY <2>1, <2>2, <2>3, <2>7, TrackFrame
  <1>2. CASE Parent
    BY <1>2, TrackParent
  <1>3. CASE Return
    <2>1. /\ phase = "track" /\ phase' = "track" /\ stack # << >> /\ Top.todo = {}
          /\ roots' = IF Top.leaking THEN roots ELSE roots \union {Top.needle}
          /\ stack' = Tail(stack) /\ stack \in Seq(Frames)
          /\ UNCHANGED << setup, topology, leaky, found, needles, cached >>
      BY <1>3 DEF Return, StructInv
    <2>2. Top \in Frames /\ ToSet(stack) = {Top} \union ToSet(stack')
      BY <2>1, PoppedSet DEF Top
    <2>3. Explored(cached, roots, ToSet(stack), {}) /\ found \subseteq cached \union needles
      BY <2>1 DEF TrackInv
    <2>4. /\ Top.needle \in cached /\ Above(Top.needle) \subseteq cached
          /\ Top.leaking <=> Above(Top.needle) # {}
      BY <2>1, <2>2, <2>3 DEF Explored
    <2>5. Explored(cached', roots', ToSet(stack'), {})
      BY <2>1, <2>2, <2>3, <2>4 DEF Explored
    <2> QED BY <2>1, <2>3, <2>5, TrackFrame
  <1>4. CASE Tracked
    <2>1. /\ phase = "track" /\ phase' = "verified" /\ stack = << >> /\ needles = {}
          /\ UNCHANGED << setup, topology, leaky, found, needles, cached, roots, stack >>
      BY <1>4 DEF Tracked, tracking
    <2> QED BY <2>1, TrackFrame DEF TrackInv
  <1>5. CASE Verify
    BY <1>5, TrackVerify
  <1>6. CASE ParseLine \/ Merge \/ init_database \/ Eval \/ NextCycle
    <2>1. phase' \notin {"track", "verified"}
      BY <1>6 DEF ParseLine, Merge, init_database, Eval, NextCycle
    <2> QED BY <2>1 DEF TrackInv
  <1>7. CASE UNCHANGED vars
    <2>1. UNCHANGED << setup, phase, topology, leaky, found, needles, stack, cached, roots >>
      BY <1>7 DEF vars, tracking
    <2> QED BY <2>1, TrackingFixed DEF TrackInv, Explored
  <1> QED BY <1>1, <1>2, <1>3, <1>4, <1>5, <1>6, <1>7 DEF Next, Tracking

\* Tracking reports exactly the leaking wires above those verify found that no
\* leaking combinational parent explains: for any netlist, also one whose
\* fused wires are their own parents, any set of leaking wires and any order.
THEOREM RootsAlwaysExact == Spec => []RootsExact
  <1>1. Init => TrackInv
    BY DEF Init, TrackInv
  <1>2. StructInv /\ TrackInv /\ [Next]_vars => TrackInv'
    BY TrackStep
  <1>3. StructInv /\ TrackInv => RootsExact
    <2> SUFFICES ASSUME StructInv, TrackInv, phase = "verified"
                 PROVE  roots = {n \in Reached : Above(n) = {}}
      BY DEF RootsExact
    <2> QED BY AllExplored, EmptySet DEF TrackInv, StructInv
  <1> QED BY <1>1, <1>2, <1>3, StructInvariant, PTL DEF Spec

-----------------------------------------------------------------------------
(* The election *)

C == setup.circuit

-----------------------------------------------------------------------------
(* What the parser knows *)

\* The table has one line for a port of a gate.
LEMMA LineOf ==
  ASSUME NEW l \in Lines
  PROVE  /\ l.gate \in DOMAIN Gates /\ l.type = Gates[l.gate].type
         /\ l.dir = "in" => /\ l.port \in DOMAIN Gates[l.gate].ports
                            /\ l = Line(l.gate, l.port, "in", Gates[l.gate].ports[l.port])
                            /\ l.wires = NamesIn(Gates[l.gate].ports[l.port])
         /\ l.dir # "in" => l.dir = "out" /\ l.wires = NamesIn(Gates[l.gate].out)
  <1>1. PICK g \in DOMAIN Gates :
          \/ l = Line(g, "Y", "out", Gates[g].out)
          \/ \E port \in DOMAIN Gates[g].ports : l = Line(g, port, "in", Gates[g].ports[port])
    BY DEF Lines
  <1>2. CASE l = Line(g, "Y", "out", Gates[g].out)
    BY <1>2 DEF Line
  <1>3. ASSUME NEW port \in DOMAIN Gates[g].ports, l = Line(g, port, "in", Gates[g].ports[port])
        PROVE  /\ l.gate = g /\ l.type = Gates[g].type /\ l.dir = "in" /\ l.port = port
               /\ l.wires = NamesIn(Gates[g].ports[port])
    BY <1>3 DEF Line
  <1> QED BY <1>1, <1>2, <1>3

LEMMA InLine ==
  ASSUME NEW g \in DOMAIN Gates, NEW port \in DOMAIN Gates[g].ports
  PROVE  \E l \in Lines : /\ l.gate = g /\ l.type = Gates[g].type /\ l.dir = "in" /\ l.port = port
                          /\ l.wires = NamesIn(Gates[g].ports[port])
                          /\ l.sliced = Sliced(Gates[g].ports[port])
  <1> DEFINE l == Line(g, port, "in", Gates[g].ports[port])
  <1>1. l \in Lines
    BY DEF Lines
  <1>2. /\ l.gate = g /\ l.type = Gates[g].type /\ l.dir = "in" /\ l.port = port
        /\ l.wires = NamesIn(Gates[g].ports[port])
        /\ l.sliced = Sliced(Gates[g].ports[port])
    BY DEF Line
  <1> QED BY <1>1, <1>2

LEMMA OutLine ==
  ASSUME NEW g \in DOMAIN Gates
  PROVE  \E l \in Lines : l.gate = g /\ l.dir = "out" /\ l.wires = NamesIn(Gates[g].out)
  <1> DEFINE l == Line(g, "Y", "out", Gates[g].out)
  <1>1. l \in Lines
    BY DEF Lines
  <1>2. l.gate = g /\ l.dir = "out" /\ l.wires = NamesIn(Gates[g].out)
    BY DEF Line
  <1> QED BY <1>1, <1>2

\* The line has been read and what it says is kept.
Selects(l, port) == l.type = "$mux" /\ l.dir = "in" /\ l.port = port
Kept(l) ==
  /\ l.sliced \subseteq split_wires
  /\ l.dir = "in" /\ l.type # "$mem_v2" => l.wires \subseteq Lookup(inputs, l.gate)
  /\ l.dir = "out" => l.gate \in DOMAIN outputs /\ l.wires \subseteq outputs[l.gate]
  /\ Selects(l, "S") => l.gate \in DOMAIN muxGate /\ muxGate[l.gate] = l.wires
  /\ Selects(l, "A") => l.wires \subseteq Lookup(muxAInputs, l.gate)
  /\ Selects(l, "B") => l.wires \subseteq Lookup(muxBInputs, l.gate)

TableInv ==
  /\ \A l \in Lines \ unread : Kept(l)
  /\ \A g \in DOMAIN outputs : g \in DOMAIN Gates /\ outputs[g] \subseteq NamesIn(Gates[g].out)

\* The maps of the parser after a line.
LEMMA AddedHas ==
  ASSUME NEW f, NEW k, NEW x
  PROVE  /\ x \subseteq Lookup(AddedAt(f, k, x), k) /\ k \in DOMAIN AddedAt(f, k, x)
         /\ \A j : Lookup(f, j) \subseteq Lookup(AddedAt(f, k, x), j)
         /\ \A j \in DOMAIN f : j \in DOMAIN AddedAt(f, k, x)
         /\ \A j \in DOMAIN AddedAt(f, k, x) :
              AddedAt(f, k, x)[j] = IF j = k THEN Lookup(f, k) \union x ELSE f[j]
         /\ DOMAIN AddedAt(f, k, x) = DOMAIN f \union {k}
  BY DEF AddedAt, Lookup

LEMMA TableInit == ASSUME Init PROVE TableInv
  BY DEF Init, TableInv, Nothing

\* A line, once read, is kept, and the lines read before stay kept.
LEMMA TableParseLine ==
  ASSUME StructInv, TableInv, ParseLine
  PROVE  TableInv'
  <1> DEFINE row == CHOOSE l \in unread : TRUE
  <1>1. /\ row \in unread /\ unread' = unread \ {row} /\ setup' = setup /\ row \in Lines
        /\ split_wires' = split_wires \union row.sliced
    BY DEF ParseLine, StructInv, ParserInv
  <1>2. /\ muxGate' = IF Selects(row, "S") THEN SetAt(muxGate, row.gate, row.wires) ELSE muxGate
        /\ muxAInputs' = IF Selects(row, "A") THEN SetAt(muxAInputs, row.gate, row.wires) ELSE muxAInputs
        /\ muxBInputs' = IF Selects(row, "B") THEN SetAt(muxBInputs, row.gate, row.wires) ELSE muxBInputs
        /\ inputs' = IF row.dir = "in" /\ row.type # "$mem_v2"
                     THEN AddedAt(inputs, row.gate, row.wires) ELSE inputs
        /\ outputs' = IF row.dir = "out" THEN AddedAt(outputs, row.gate, row.wires) ELSE outputs
    BY DEF ParseLine, Selects
  <1> HIDE DEF row
  <1>3. Lines' = Lines /\ Gates' = Gates
    BY <1>1, SetupFixed DEF Gates
  <1>4. /\ \A j : Lookup(inputs, j) \subseteq Lookup(inputs', j)
        /\ row.dir = "in" /\ row.type # "$mem_v2" => row.wires \subseteq Lookup(inputs', row.gate)
    BY <1>2, AddedHas
  <1>5. /\ \A j \in DOMAIN outputs : j \in DOMAIN outputs' /\ outputs[j] \subseteq outputs'[j]
        /\ row.dir = "out" => row.gate \in DOMAIN outputs' /\ row.wires \subseteq outputs'[row.gate]
        /\ \A j \in DOMAIN outputs' : \/ j \in DOMAIN outputs /\ outputs'[j] = outputs[j]
                                      \/ /\ row.dir = "out" /\ j = row.gate
                                         /\ outputs'[j] = Lookup(outputs, j) \union row.wires
    <2>1. CASE row.dir = "out"
      <3>1. outputs' = AddedAt(outputs, row.gate, row.wires)
        BY <1>2, <2>1
      <3> QED BY <2>1, <3>1 DEF AddedAt, Lookup
    <2>2. CASE row.dir # "out"
      BY <1>2, <2>2
    <2> QED BY <2>1, <2>2
  <1>6. /\ \A j : Lookup(muxAInputs', j) = IF Selects(row, "A") /\ j = row.gate THEN row.wires
                                            ELSE Lookup(muxAInputs, j)
        /\ \A j : Lookup(muxBInputs', j) = IF Selects(row, "B") /\ j = row.gate THEN row.wires
                                            ELSE Lookup(muxBInputs, j)
    <2>1. ASSUME NEW f, NEW q, NEW port,
                 q = IF Selects(row, port) THEN SetAt(f, row.gate, row.wires) ELSE f, NEW j
          PROVE  Lookup(q, j) = IF Selects(row, port) /\ j = row.gate THEN row.wires ELSE Lookup(f, j)
      <3>1. CASE Selects(row, port)
        <4>1. q = SetAt(f, row.gate, row.wires)
          BY <2>1, <3>1
        <4>2. CASE j = row.gate
          BY <3>1, <4>1, <4>2 DEF SetAt, Lookup
        <4>3. CASE j # row.gate
          BY <3>1, <4>1, <4>3 DEF SetAt, Lookup
        <4> QED BY <4>2, <4>3
      <3>2. CASE ~Selects(row, port)
        BY <2>1, <3>2
      <3> QED BY <3>1, <3>2
    <2> QED BY <1>2, <2>1
  <1>7. /\ \A j \in DOMAIN muxGate : ~(Selects(row, "S") /\ j = row.gate) =>
             j \in DOMAIN muxGate' /\ muxGate'[j] = muxGate[j]
        /\ Selects(row, "S") => row.gate \in DOMAIN muxGate' /\ muxGate'[row.gate] = row.wires
    <2>1. CASE Selects(row, "S")
      <3>1. muxGate' = SetAt(muxGate, row.gate, row.wires)
        BY <1>2, <2>1
      <3> QED BY <2>1, <3>1 DEF SetAt
    <2>2. CASE ~Selects(row, "S")
      BY <1>2, <2>2
    <2> QED BY <2>1, <2>2
  <1>8. ASSUME NEW l \in Lines \ unread' PROVE Kept(l)'
    <2>1. l = row \/ Kept(l)
      BY <1>1 DEF TableInv
    <2>2. l.sliced \subseteq split_wires'
      BY <1>1, <2>1 DEF Kept
    <2>3. l.dir = "in" /\ l.type # "$mem_v2" => l.wires \subseteq Lookup(inputs', l.gate)
      BY <1>4, <2>1 DEF Kept
    <2>4. l.dir = "out" => l.gate \in DOMAIN outputs' /\ l.wires \subseteq outputs'[l.gate]
      BY <1>5, <2>1 DEF Kept
    <2>5. ASSUME NEW port, Selects(l, port), Selects(row, port), l.gate = row.gate
          PROVE  l.wires = row.wires
      BY <1>1, <2>5, LineOf DEF Selects
    <2>6. Selects(l, "S") => l.gate \in DOMAIN muxGate' /\ muxGate'[l.gate] = l.wires
      BY <1>7, <2>1, <2>5 DEF Kept
    <2>7. Selects(l, "A") => l.wires \subseteq Lookup(muxAInputs', l.gate)
      BY <1>6, <2>1, <2>5 DEF Kept
    <2>8. Selects(l, "B") => l.wires \subseteq Lookup(muxBInputs', l.gate)
      BY <1>6, <2>1, <2>5 DEF Kept
    <2> QED BY <2>2, <2>3, <2>4, <2>6, <2>7, <2>8 DEF Kept, Selects, Lookup
  <1>9. ASSUME NEW g \in DOMAIN outputs'
        PROVE  g \in DOMAIN Gates /\ outputs'[g] \subseteq NamesIn(Gates[g].out)
    <2>1. row.dir = "out" => row.gate \in DOMAIN Gates /\ row.wires = NamesIn(Gates[row.gate].out)
      BY <1>1, LineOf
    <2>2. Lookup(outputs, g) \subseteq NamesIn(Gates[g].out)
      BY DEF TableInv, Lookup
    <2> QED BY <1>5, <2>1, <2>2 DEF TableInv
  <1>10. \A g : NamesIn(Gates[g].out)' = NamesIn(Gates[g].out)
    BY <1>3 DEF NamesIn
  <1> QED BY <1>1, <1>3, <1>8, <1>9, <1>10 DEF TableInv

\* What the structures parse_circuit leaves say of every gate.
GateKnown(g) ==
  /\ g.type # "$mem_v2" => \A n \in NamesIn(g.out), p \in DOMAIN g.ports :
       NamesIn(g.ports[p]) \subseteq Lookup(topology, n)
  /\ g.type = "$mux" => \A n \in NamesIn(g.ports["S"]) :
       /\ n \in DOMAIN mux_structures
       /\ NamesIn(g.ports["A"]) \subseteq mux_structures[n][1]
       /\ NamesIn(g.ports["B"]) \subseteq mux_structures[n][2]
  /\ \A p \in DOMAIN g.ports : Sliced(g.ports[p]) \subseteq split_wires

GatesKnown == \A i \in DOMAIN Gates : GateKnown(Gates[i])

\* The only gate of a wire is the one whose inputs the topology keeps.
LEMMA OnlyDriver ==
  ASSUME StructInv, Driven1(C), TableInv, NEW i \in DOMAIN Gates, NEW w \in NamesIn(Gates[i].out),
         i \in DOMAIN outputs, w \in outputs[i]
  PROVE  w \in DOMAIN Topology /\ Topology[w] = Lookup(inputs, i)
  <1> DEFINE D == {g \in DOMAIN outputs : w \in outputs[g]}
  <1>1. D = {i}
    <2>1. ASSUME NEW g \in D PROVE g = i
      <3>1. g \in DOMAIN Gates /\ w \in NamesIn(Gates[g].out)
        BY DEF TableInv
      <3> QED BY <3>1 DEF Driven1, C, Gates
    <2>2. i \in D
      OBVIOUS
    <2> QED BY <2>1, <2>2
  <1>2. i \in Nat
    BY NetlistAssumption DEF StructInv, Gates
  <1>3. Max(D) = i
    BY <1>1, <1>2 DEF Max
  <1>4. w \in DOMAIN Topology /\ Topology[w] = Lookup(inputs, Max(D))
    BY DEF Topology, Range
  <1> QED BY <1>3, <1>4

LEMMA MergeKnows ==
  ASSUME StructInv, WellBuilt(C), TableInv, Merge
  PROVE  GatesKnown'
  <1>1. /\ unread = {} /\ topology' = Topology /\ mux_structures' = Muxes
        /\ split_wires \subseteq split_wires' /\ setup' = setup
    BY DEF Merge
  <1>2. Gates' = Gates /\ \A s : Sliced(s)' = Sliced(s)
    BY <1>1 DEF Gates, Sliced, Fused, BitsOf, Width, Items
  <1>3. \A l \in Lines : Kept(l)
    BY <1>1 DEF TableInv
  <1> SUFFICES ASSUME NEW i \in DOMAIN Gates PROVE GateKnown(Gates[i])'
    BY <1>2 DEF GatesKnown
  <1> DEFINE g == Gates[i]
  <1>4. g \in Range(C.gates)
    BY DEF C, Gates, Range
  <1>5. ASSUME NEW p \in DOMAIN g.ports
        PROVE  /\ Sliced(g.ports[p]) \subseteq split_wires
               /\ g.type # "$mem_v2" => NamesIn(g.ports[p]) \subseteq Lookup(inputs, i)
               /\ g.type = "$mux" =>
                    /\ p = "S" => i \in DOMAIN muxGate /\ muxGate[i] = NamesIn(g.ports[p])
                    /\ p = "A" => NamesIn(g.ports[p]) \subseteq Lookup(muxAInputs, i)
                    /\ p = "B" => NamesIn(g.ports[p]) \subseteq Lookup(muxBInputs, i)
    <2>1. PICK l \in Lines : /\ l.gate = i /\ l.type = g.type /\ l.dir = "in" /\ l.port = p
                             /\ l.wires = NamesIn(g.ports[p]) /\ l.sliced = Sliced(g.ports[p])
      BY <1>5, InLine
    <2> QED BY <1>3, <2>1 DEF Kept, Selects
  <1>6. i \in DOMAIN outputs /\ NamesIn(g.out) \subseteq outputs[i]
    <2>1. PICK l \in Lines : l.gate = i /\ l.dir = "out" /\ l.wires = NamesIn(g.out)
      BY OutLine
    <2> QED BY <1>3, <2>1 DEF Kept
  <1>7. ASSUME NEW n \in NamesIn(g.out) PROVE Lookup(Topology, n) = Lookup(inputs, i)
    BY <1>6, <1>7, OnlyDriver DEF Lookup, WellBuilt
  <1>8. ASSUME g.type = "$mux", NEW n \in NamesIn(g.ports["S"])
        PROVE  /\ n \in DOMAIN Muxes
               /\ NamesIn(g.ports["A"]) \subseteq Muxes[n][1]
               /\ NamesIn(g.ports["B"]) \subseteq Muxes[n][2]
    <2>1. DOMAIN g.ports = {"A", "B", "S"} /\ DOMAIN g.ports["S"] = {1}
      BY <1>4, <1>8 DEF WellBuilt, Kinds
    <2>2. NamesIn(g.ports["S"]) = {n}
      BY <1>8, <2>1 DEF NamesIn, ToSet
    <2>3. i \in DOMAIN muxGate /\ muxGate[i] = {n}
      BY <1>5, <1>8, <2>1, <2>2
    <2>4. /\ NamesIn(g.ports["A"]) \subseteq Lookup(muxAInputs, i)
          /\ NamesIn(g.ports["B"]) \subseteq Lookup(muxBInputs, i)
      BY <1>5, <1>8, <2>1
    <2>5. n \in DOMAIN Muxes
      BY <2>3 DEF Muxes, Range
    <2>6. /\ Lookup(muxAInputs, i) \subseteq Branches(muxAInputs, n)
          /\ Lookup(muxBInputs, i) \subseteq Branches(muxBInputs, n)
      BY <2>3 DEF Branches
    <2> QED BY <2>4, <2>5, <2>6 DEF Muxes
  <1> HIDE DEF g
  <1>9. /\ \A s : NamesIn(s)' = NamesIn(s) 
        /\ \A f, k : Lookup(f, k)' = Lookup(f, k)
    BY DEF NamesIn, Lookup
  <1> QED BY <1>1, <1>2, <1>5, <1>7, <1>8, <1>9 DEF GateKnown, g

\* The structures only change when they are built: verify makes entries in the
\* topology, empty ones.
LEMMA GatesKnownKept ==
  ASSUME GatesKnown, UNCHANGED << setup, mux_structures, split_wires >>,
         \A n : Lookup(topology', n) = Lookup(topology, n)
  PROVE  GatesKnown'
  <1>1. Gates' = Gates /\ \A s : Sliced(s)' = Sliced(s)
    BY DEF Gates, Sliced, Fused, BitsOf, Width, Items, NamesIn
  <1>2. \A s : NamesIn(s)' = NamesIn(s)
    BY DEF NamesIn
  <1>3. \A n : Lookup(topology, n)' = Lookup(topology, n)
    BY DEF Lookup
  <1> QED BY <1>1, <1>2, <1>3 DEF GatesKnown, GateKnown

-----------------------------------------------------------------------------
(* What the bits show *)

\* A bit of a gate is a bit of the circuit.
LEMMA BitKnown ==
  ASSUME setup \in Setups, WellBuilt(C), NEW i \in DOMAIN Gates,
         NEW b \in ToSet(Gates[i].out) \union Reading(Gates[i])
  PROVE  b \in BitsOf(b[1]) /\ b[1] \in Known /\ b \in AllBits /\ b = << b[1], b[2] >>
  <1>1. Gates[i] \in Range(C.gates)
    BY DEF C, Gates, Range
  <1>2. Len(C.items[b[1]]) = 1 /\ b \in {b[1]} \X (1 .. C.items[b[1]][1].width)
    BY <1>1 DEF WellBuilt, Plain
  <1>3. b \in BitsOf(b[1]) /\ b = << b[1], b[2] >>
    BY <1>2 DEF BitsOf, Width, Items, C
  <1>4. b[1] \in Known
    <2>1. b[1] \in WiresOf(Gates[i])
      BY DEF WiresOf
    <2> QED BY <2>1, WiresKnown DEF WireNames
  <1>5. ~Fused(b[1])
    BY <1>2 DEF Fused, Items, C
  <1>6. b[1] \in Names /\ Parts(b[1]) # {} /\ ~Memory(b[1])
    BY <1>4, <1>5 DEF Known
  <1> QED BY <1>3, <1>4, <1>6 DEF AllBits

\* The gate that drives a bit is the one it is an output of.
LEMMA DriverIs ==
  ASSUME setup \in Setups, WellBuilt(C), NEW i \in DOMAIN Gates, NEW y \in ToSet(Gates[i].out)
  PROVE  Driven(y) /\ Driver(y) = Gates[i]
  <1>1. ASSUME NEW j \in DOMAIN Gates, y \in ToSet(Gates[j].out) PROVE j = i
    <2>1. y[1] \in NamesIn(Gates[j].out) /\ y[1] \in NamesIn(Gates[i].out)
      BY <1>1 DEF NamesIn
    <2>2. i \in DOMAIN C.gates /\ j \in DOMAIN C.gates /\ Gates = C.gates
      BY DEF C, Gates
    <2>3. Driven1(C)
      BY DEF WellBuilt
    <2> HIDE DEF C
    <2> QED BY <2>1, <2>2, <2>3 DEF Driven1
  <1> DEFINE k == CHOOSE g \in DOMAIN Gates : y \in ToSet(Gates[g].out)
  <1>2. k \in DOMAIN Gates /\ y \in ToSet(Gates[k].out)
    OBVIOUS
  <1>3. k = i
    BY <1>1, <1>2
  <1>4. Driver(y) = Gates[k]
    BY DEF Driver
  <1> QED BY <1>3, <1>4 DEF Driven

LEMMA FeedsRead ==
  ASSUME WellBuilt(C), NEW i \in DOMAIN Gates, NEW y \in ToSet(Gates[i].out),
         NEW p \in DOMAIN Gates[i].ports
  PROVE  /\ Feeds(Gates[i], p, y) \subseteq ToSet(Gates[i].ports[p])
         /\ Feeds(Gates[i], p, y) \subseteq Reading(Gates[i])
         /\ Position(Gates[i], y) \in DOMAIN Gates[i].out
         /\ Gates[i].out[Position(Gates[i], y)] = y
  <1> DEFINE g == Gates[i]
  <1>1. g \in Range(C.gates)
    BY DEF C, Gates, Range
  <1>2. Position(g, y) \in DOMAIN g.out /\ g.out[Position(g, y)] = y
    <2>1. \E k \in DOMAIN g.out : g.out[k] = y
      BY DEF ToSet
    <2> HIDE DEF g
    <2> QED BY <2>1 DEF Position
  <1>3. g.bitwise => DOMAIN g.ports[p] = DOMAIN g.out
    BY <1>1 DEF WellBuilt, Driven1
  <1>4. Feeds(g, p, y) \subseteq ToSet(g.ports[p])
    BY <1>2, <1>3 DEF Feeds, ToSet
  <1> QED BY <1>2, <1>4 DEF Reading

\* A mux has its three ports.
LEMMA MuxPorts ==
  ASSUME WellBuilt(C), NEW i \in DOMAIN Gates, Gates[i].type = "$mux"
  PROVE  DOMAIN Gates[i].ports = {"A", "B", "S"}
  <1>1. Gates[i] \in Range(C.gates)
    BY DEF C, Gates, Range
  <1> QED BY <1>1 DEF WellBuilt, Kinds

\* What a bit shows depends on what the bits it is computed from show.
LEMMA ShownLocal ==
  ASSUME WellBuilt(C), NEW y, NEW f, NEW h, NEW stable, NEW ones,
         Combinational(y) => \A p \in DOMAIN Driver(y).ports : \A c \in Feeds(Driver(y), p, y) : f[c] = h[c]
  PROVE  Shown(f, y, stable, ones) = Shown(h, y, stable, ones)
  <1> DEFINE g == Driver(y)
  <1>1. CASE ~Combinational(y) \/ y \in setup.circuit.quiet \/ y \in stable
    BY <1>1 DEF Shown
  <1>2. CASE Combinational(y) /\ y \notin setup.circuit.quiet /\ y \notin stable
    <2>1. ASSUME NEW p \in DOMAIN g.ports PROVE From(f, g, p, y) = From(h, g, p, y)
      <3>1. \A c \in Feeds(g, p, y) : f[c] = h[c]
        BY <1>2
      <3> HIDE DEF g
      <3> QED BY <3>1 DEF From
    <2>2. CASE g.type = "$mux"
      <3>1. \E i \in DOMAIN Gates : g = Gates[i]
        BY <1>2 DEF Combinational, Driven, Driver
      <3>2. \A p \in {"A", "B", "S"} : From(f, g, p, y) = From(h, g, p, y)
        <4>1. DOMAIN g.ports = {"A", "B", "S"}
          BY <2>2, <3>1, MuxPorts
        <4> QED BY <2>1, <4>1
      <3>3. ShownMux(f, g, y, stable, ones) = ShownMux(h, g, y, stable, ones)
        BY <3>2 DEF ShownMux
      <3> QED BY <1>2, <2>2, <3>3 DEF Shown
    <2>3. CASE g.type # "$mux"
      <3>1. Shown(f, y, stable, ones) = UNION {From(f, g, port, y) : port \in DOMAIN g.ports}
        BY <1>2, <2>3 DEF Shown
      <3>2. Shown(h, y, stable, ones) = UNION {From(h, g, port, y) : port \in DOMAIN g.ports}
        BY <1>2, <2>3 DEF Shown
      <3> HIDE DEF g
      <3> QED BY <2>1, <3>1, <3>2
    <2> QED BY <2>2, <2>3
  <1> QED BY <1>1, <1>2
-----------------------------------------------------------------------------
(* The circuit has an evaluation: a bit is computed after those it depends on *)

\* A non-empty set of numbers has a least one.
LEMMA LeastNumber ==
  ASSUME NEW T \in SUBSET Nat, T # {}
  PROVE  \E m \in T : \A k \in T : m <= k
  <1> DEFINE R == {ss \in Nat \X Nat : ss[1] < ss[2]}
  <1>1. IsWellFoundedOn(R, Nat)
    BY NatLessThanWellFounded DEF OpToRel
  <1>2. PICK m \in T : \A k \in T : << k, m >> \notin R
    <2> HIDE DEF R
    <2> QED BY <1>1, WFMin
  <1>3. ASSUME NEW k \in T PROVE m <= k
    <2>1. << k, m >> \notin R /\ k \in Nat /\ m \in Nat
      BY <1>2
    <2> QED BY <2>1
  <1> QED BY <1>3

\* A bit of a computing gate, and what it depends on.
LEMMA Dependence ==
  ASSUME setup \in Setups, WellBuilt(C), NEW y, Combinational(y)
  PROVE  \E i \in DOMAIN Gates :
           /\ Driver(y) = Gates[i] /\ y \in ToSet(Gates[i].out)
           /\ Computes(Gates[i]) /\ Gates[i] \in Range(C.gates) /\ y \in AllBits
           /\ \A p \in DOMAIN Gates[i].ports : \A c \in Feeds(Gates[i], p, y) : c \in AllBits
  <1>1. PICK i \in DOMAIN Gates : y \in ToSet(Gates[i].out)
    BY DEF Combinational, Driven
  <1>2. Driver(y) = Gates[i]
    BY <1>1, DriverIs
  <1>3. Computes(Gates[i])
    BY <1>2 DEF Combinational, Computes
  <1>4. Gates[i] \in Range(C.gates)
    BY DEF C, Gates, Range
  <1>5. y \in AllBits
    BY <1>1, BitKnown
  <1>6. ASSUME NEW p \in DOMAIN Gates[i].ports, NEW c \in Feeds(Gates[i], p, y) PROVE c \in AllBits
    <2>1. c \in Reading(Gates[i])
      BY <1>1, FeedsRead
    <2> QED BY <2>1, BitKnown
  <1> QED BY <1>1, <1>2, <1>3, <1>4, <1>5, <1>6

\* The bits up to a level show what they must.
Solved(f, k, depth, stable, ones) ==
  /\ f = [y \in AllBits |-> f[y]]
  /\ \A y \in AllBits : Combinational(y) => (depth[y] < k => f[y] = Shown(f, y, stable, ones))
  /\ \A y \in AllBits : ~Combinational(y) => f[y] = Shown(f, y, stable, ones)

LEMMA SolvedBase ==
  ASSUME setup \in Setups, WellBuilt(C), NEW depth, NEW levels \in Nat, Layered(C, depth, levels),
         NEW stable, NEW ones
  PROVE  \E f : Solved(f, 0, depth, stable, ones)
  <1> DEFINE h == [y \in AllBits |-> {}]
             f == [y \in AllBits |-> Shown(h, y, stable, ones)]
  <1>1. ASSUME NEW y \in AllBits, ~Combinational(y) PROVE f[y] = Shown(f, y, stable, ones)
    <2>1. Shown(h, y, stable, ones) = Shown(f, y, stable, ones)
      <3> HIDE DEF h, f
      <3> QED BY <1>1, ShownLocal
    <2> QED BY <2>1
  <1>2. ASSUME NEW y \in AllBits, Combinational(y) PROVE ~(depth[y] < 0)
    <2>1. depth[y] \in 0 .. levels
      BY <1>2, Dependence DEF Layered
    <2> QED BY <2>1
  <1>3. f = [y \in AllBits |-> f[y]]
    OBVIOUS
  <1> HIDE DEF f
  <1> QED BY <1>1, <1>2, <1>3 DEF Solved

LEMMA SolvedStep ==
  ASSUME setup \in Setups, WellBuilt(C), NEW depth, NEW levels \in Nat, Layered(C, depth, levels),
         NEW stable, NEW ones, NEW k \in Nat, NEW f, Solved(f, k, depth, stable, ones)
  PROVE  \E h : Solved(h, k + 1, depth, stable, ones)
  <1> DEFINE h == [y \in AllBits |-> Shown(f, y, stable, ones)]
  <1>1. ASSUME NEW y \in AllBits, ~Combinational(y) PROVE h[y] = Shown(h, y, stable, ones)
    <2>1. Shown(h, y, stable, ones) = Shown(f, y, stable, ones)
      <3> HIDE DEF h
      <3> QED BY <1>1, ShownLocal
    <2> QED BY <2>1
  <1>2. ASSUME NEW y \in AllBits, Combinational(y), depth[y] < k + 1
        PROVE  h[y] = Shown(h, y, stable, ones)
    <2>1. PICK i \in DOMAIN Gates :
            /\ Driver(y) = Gates[i] /\ y \in ToSet(Gates[i].out)
            /\ Computes(Gates[i]) /\ Gates[i] \in Range(C.gates)
            /\ \A p \in DOMAIN Gates[i].ports : \A c \in Feeds(Gates[i], p, y) : c \in AllBits
      BY <1>2, Dependence
    <2>2. ASSUME NEW p \in DOMAIN Gates[i].ports, NEW c \in Feeds(Gates[i], p, y)
          PROVE  f[c] = h[c]
      <3>1. /\ depth[c] \in 0 .. levels /\ depth[y] \in 0 .. levels /\ depth[c] < depth[y]
            /\ c \in AllBits
        BY <2>1, <2>2 DEF Layered
      <3>2. depth[c] < k
        BY <1>2, <3>1
      <3>3. f[c] = Shown(f, c, stable, ones)
        BY <3>1, <3>2 DEF Solved
      <3> QED BY <3>1, <3>3
    <2>3. Shown(f, y, stable, ones) = Shown(h, y, stable, ones)
      <3> HIDE DEF h
      <3> QED BY <2>1, <2>2, ShownLocal
    <2> QED BY <2>3
  <1>3. h = [y \in AllBits |-> h[y]]
    OBVIOUS
  <1> HIDE DEF h
  <1> QED BY <1>1, <1>2, <1>3 DEF Solved

LEMMA SolvedAll ==
  ASSUME setup \in Setups, WellBuilt(C), NEW depth, NEW levels \in Nat, Layered(C, depth, levels),
         NEW stable, NEW ones, NEW k \in Nat
  PROVE  \E f : Solved(f, k, depth, stable, ones)
  <1> DEFINE Un == {n \in Nat : ~ \E f : Solved(f, n, depth, stable, ones)}
  <1> SUFFICES ASSUME Un # {} PROVE FALSE
    OBVIOUS
  <1>1. PICK m \in Un : \A n \in Un : m <= n
    <2>1. Un \in SUBSET Nat
      OBVIOUS
    <2> HIDE DEF Un
    <2> QED BY <2>1, LeastNumber
  <1>2. m # 0
    BY SolvedBase
  <1>3. m - 1 \in Nat /\ m - 1 \notin Un /\ (m - 1) + 1 = m
    BY <1>1, <1>2
  <1>4. PICK f : Solved(f, m - 1, depth, stable, ones)
    BY <1>3
  <1>5. \E h : Solved(h, (m - 1) + 1, depth, stable, ones)
    BY <1>3, <1>4, SolvedStep
  <1> QED BY <1>3, <1>5

\* What the bits show solves the equations of the circuit.
Solves(sh, stable, ones) ==
  DOMAIN sh = AllBits /\ \A b \in AllBits : sh[b] = Shown(sh, b, stable, ones)

LEMMA ShowsSolves ==
  ASSUME setup \in Setups, WellBuilt(C), NEW depth, NEW levels \in Nat, Layered(C, depth, levels),
         NEW stable, NEW ones
  PROVE  Solves(Shows(stable, ones), stable, ones)
  <1> DEFINE sh == Shows(stable, ones)
  <1>1. PICK f : Solved(f, levels + 1, depth, stable, ones)
    <2>1. levels + 1 \in Nat
      OBVIOUS
    <2> QED BY <2>1, SolvedAll
  <1>2. ASSUME NEW y \in AllBits PROVE f[y] = Shown(f, y, stable, ones)
    <2>1. CASE Combinational(y)
      <3>1. depth[y] \in 0 .. levels
        BY <2>1, Dependence DEF Layered
      <3>2. depth[y] < levels + 1
        BY <3>1
      <3> QED BY <1>1, <2>1, <3>2 DEF Solved
    <2> QED BY <1>1, <2>1 DEF Solved
  <1>3. f = [y \in AllBits |-> f[y]]
    BY <1>1 DEF Solved
  <1>4. f = [y \in AllBits |-> Shown(f, y, stable, ones)]
    BY <1>2, <1>3
  <1>5. sh = CHOOSE g : g = [y \in AllBits |-> Shown(g, y, stable, ones)]
    BY DEF Shows
  <1> HIDE DEF sh
  <1>6. sh = [y \in AllBits |-> Shown(sh, y, stable, ones)]
    BY <1>4, <1>5
  <1>7. DOMAIN sh = AllBits
    BY <1>6
  <1> QED BY <1>6, <1>7 DEF Solves, sh
-----------------------------------------------------------------------------
(* What a gate shows *)

\* What the bits outside ins show, the gates that read them show.
Flow(sh, ins) ==
  \A i \in DOMAIN Gates : Computes(Gates[i]) =>
    \A y \in ToSet(Gates[i].out), p \in DOMAIN Gates[i].ports : \A b \in Feeds(Gates[i], p, y) :
      b[1] \notin ins => Lookup(sh, b) \subseteq Lookup(sh, y)

\* A bit no register drives is held as it is.
LEMMA NotNext == ASSUME NEW b, ~IsRegister(b) PROVE Next0(b) = b
  BY DEF Next0

LEMMA StabilizedBit ==
  ASSUME NEW b, b \in stab, b[1] \in Known, b \in BitsOf(b[1]), ~IsRegister(b)
  PROVE  b[1] \in Stabilized
  <1>1. Next0(b) \in stab
    BY NotNext
  <1> QED BY <1>1 DEF Stabilized, AppliedStability

\* A stable bit hides what its gate reads, and the wires the gate reads are elected.
LEMMA FlowStable ==
  ASSUME setup \in Setups, WellBuilt(C), GatesKnown, NEW i \in DOMAIN Gates, Computes(Gates[i]),
         NEW y \in ToSet(Gates[i].out), y \in stab, NEW p \in DOMAIN Gates[i].ports,
         NEW b \in Feeds(Gates[i], p, y)
  PROVE  b[1] \in InputsOfStabilized
  <1>1. ~IsRegister(y) /\ Gates[i].type # "$mem_v2"
    BY DriverIs DEF IsRegister, Computes
  <1>2. y[1] \in Stabilized
    BY <1>1, BitKnown, StabilizedBit
  <1>3. b[1] \in NamesIn(Gates[i].ports[p])
    BY FeedsRead DEF NamesIn
  <1>4. y[1] \in NamesIn(Gates[i].out)
    BY DEF NamesIn
  <1>5. b[1] \in Lookup(topology, y[1])
    BY <1>1, <1>3, <1>4 DEF GatesKnown, GateKnown
  <1> QED BY <1>2, <1>5 DEF InputsOfStabilized

\* A mux whose selector is stable hides a branch, and the wires of that branch
\* are elected.
LEMMA FlowBranch ==
  ASSUME setup \in Setups, WellBuilt(C), GatesKnown, NEW i \in DOMAIN Gates, Gates[i].type = "$mux",
         Selector(Gates[i]) \in stab,
         NEW p, p = IF Selector(Gates[i]) \in bit THEN "A" ELSE "B", NEW n \in NamesIn(Gates[i].ports[p])
  PROVE  n \in InputsOfStabilized
  <1> DEFINE g == Gates[i]
             s == Selector(g)
  <1>1. g \in Range(C.gates)
    BY DEF C, Gates, Range
  <1>2. /\ DOMAIN g.ports = {"A", "B", "S"} /\ DOMAIN g.ports["S"] = {1} /\ s[2] = 1
        /\ \A h \in Range(C.gates) : h.type = "$dff" => s \notin ToSet(h.out)
    BY <1>1 DEF WellBuilt, Kinds
  <1>3. s \in ToSet(g.ports["S"]) /\ s \in Reading(g) /\ s[1] \in NamesIn(g.ports["S"])
    BY <1>2 DEF Selector, ToSet, Reading, NamesIn
  <1>4. ~IsRegister(s)
    <2>1. ASSUME NEW j \in DOMAIN Gates, s \in ToSet(Gates[j].out) PROVE Driver(s).type # "$dff"
      <3>1. Driver(s) = Gates[j] /\ Gates[j] \in Range(C.gates)
        BY <2>1, DriverIs DEF C, Gates, Range
      <3> QED BY <1>2, <2>1, <3>1
    <2> QED BY <2>1 DEF IsRegister, Driven
  <1>5. s \in BitsOf(s[1]) /\ s[1] \in Known /\ s = << s[1], 1 >>
    BY <1>2, <1>3, BitKnown
  <1>6. s[1] \in Stabilized
    BY <1>4, <1>5, StabilizedBit
  <1>7. ~Fused(s[1])
    <2>1. Len(C.items[s[1]]) = 1
      BY <1>1, <1>3 DEF WellBuilt, Plain
    <2> QED BY <2>1 DEF Fused, Items, C
  <1>8. /\ s[1] \in DOMAIN mux_structures
        /\ NamesIn(g.ports["A"]) \subseteq mux_structures[s[1]][1]
        /\ NamesIn(g.ports["B"]) \subseteq mux_structures[s[1]][2]
    BY <1>3 DEF GatesKnown, GateKnown
  <1>9. n \in DeadBranch(s[1])
    BY <1>5, <1>7, <1>8 DEF DeadBranch
  <1> QED BY <1>6, <1>9 DEF InputsOfStabilized

\* What stability hides in a cycle is elected in that cycle.
LEMMA FlowElected ==
  ASSUME setup \in Setups, WellBuilt(C), GatesKnown, NEW sh, Solves(sh, stab, bit)
  PROVE  Flow(sh, InputsOfStabilized)
  <1> SUFFICES ASSUME NEW i \in DOMAIN Gates, Computes(Gates[i]), NEW y \in ToSet(Gates[i].out),
                      NEW p \in DOMAIN Gates[i].ports, NEW b \in Feeds(Gates[i], p, y),
                      b[1] \notin InputsOfStabilized
               PROVE  Lookup(sh, b) \subseteq Lookup(sh, y)
    BY DEF Flow
  <1> DEFINE g == Gates[i]
             quiet == setup.circuit.quiet
  <1>1. b \in Reading(g) /\ b \in ToSet(g.ports[p]) /\ b[1] \in NamesIn(g.ports[p])
    BY FeedsRead DEF NamesIn
  <1>2. Driver(y) = g /\ Driven(y) /\ y \in AllBits /\ b \in AllBits /\ g \in Range(C.gates)
    BY <1>1, DriverIs, BitKnown DEF C, Gates, Range
  <1>3. Combinational(y)
    BY <1>2 DEF Combinational, Computes
  <1>4. /\ Lookup(sh, b) = sh[b] /\ sh[b] = Shown(sh, b, stab, bit)
        /\ Lookup(sh, y) = sh[y] /\ sh[y] = Shown(sh, y, stab, bit)
    BY <1>2 DEF Solves, Lookup
  <1>5. b \in quiet => Lookup(sh, b) = {}
    BY <1>4 DEF Shown
  <1>6. CASE y \in quiet
    <2>1. b \in quiet
      BY <1>1, <1>2, <1>6 DEF WellBuilt, Kinds, C
    <2> QED BY <1>5, <2>1
  <1>7. CASE y \in stab
    BY <1>7, FlowStable
  <1>8. CASE y \notin quiet /\ y \notin stab
    <2>1. sh[b] \subseteq From(sh, g, p, y)
      <3> HIDE DEF g
      <3> QED BY DEF From, g
    <2>2. CASE g.type # "$mux"
      <3>1. sh[y] = UNION {From(sh, g, port, y) : port \in DOMAIN g.ports}
        BY <1>2, <1>3, <1>4, <1>8, <2>2 DEF Shown
      <3> HIDE DEF g
      <3> QED BY <1>4, <2>1, <3>1 DEF g
    <2>3. CASE g.type = "$mux"
      <3>1. sh[y] = ShownMux(sh, g, y, stab, bit)
        BY <1>2, <1>3, <1>4, <1>8, <2>3 DEF Shown
      <3>2. p \in {"A", "B", "S"}
        BY <2>3, MuxPorts
      <3>3. CASE p = "S"
        <4>1. b = Selector(g) /\ Selector(g) \in quiet
          <5>1. DOMAIN g.ports["S"] = {1} /\ Selector(g) \in quiet
            BY <1>2, <2>3 DEF WellBuilt, Kinds, C
          <5>2. b \in ToSet(g.ports["S"])
            BY <1>1, <3>3
          <5> QED BY <5>1, <5>2 DEF ToSet, Selector
        <4> QED BY <1>5, <4>1
      <3>4. CASE Selector(g) \notin stab
        BY <1>4, <2>1, <3>1, <3>2, <3>4 DEF ShownMux
      <3>5. CASE Selector(g) \in stab /\ p = IF Selector(g) \in bit THEN "A" ELSE "B"
        BY <1>1, <2>3, <3>5, FlowBranch
      <3>6. CASE Selector(g) \in stab /\ p = IF Selector(g) \in bit THEN "B" ELSE "A"
        BY <1>4, <2>1, <3>1, <3>6 DEF ShownMux
      <3> QED BY <3>2, <3>3, <3>4, <3>5, <3>6
    <2> QED BY <2>2, <2>3
  <1> QED BY <1>6, <1>7, <1>8
-----------------------------------------------------------------------------
(* Climbing from a wire to an elected one *)

Built(circuit) ==
  WellBuilt(circuit) /\ \E levels \in Nat : \E depth : Layered(circuit, depth, levels)

\* What the bit c holds shows all that b shows, in this cycle and in the one before.
Tells(c, b) ==
  shows[b] \subseteq shows[Next0(c)] /\ Lookup(showed, b) \subseteq Lookup(showed, Next0(c))
BitTold(b) == \E n \in Filled : \E c \in BitsOf(n) : Tells(c, b)
WordTold(n) == \E e \in Filled : \A b \in BitsOf(n) : \E c \in BitsOf(e) : Tells(c, b)
AllTold == IF setup.BIT_VERIF THEN \A b \in ToCover : BitTold(b)
           ELSE \A b \in ToCover : WordTold(b[1])

\* This is what both properties ask for.
LEMMA ToldCovers ==
  ASSUME phase = "verified" => AllTold
  PROVE  Covered /\ TransitionsCovered
  <1> SUFFICES ASSUME phase = "verified" PROVE Covered /\ TransitionsCovered
    BY DEF Covered, TransitionsCovered
  <1>1. CASE setup.BIT_VERIF
    BY <1>1 DEF Covered, TransitionsCovered, AllTold, BitTold, Tells
  <1>2. CASE ~setup.BIT_VERIF
    <2>1. ASSUME NEW n \in {b[1] : b \in ToCover}
          PROVE  \E e \in Filled :
                   /\ UNION {shows[b] : b \in BitsOf(n)} \subseteq Held(e)
                   /\ UNION {Lookup(showed, b) \union shows[b] : b \in BitsOf(n)} \subseteq HeldBefore(e) \union Held(e)
      <3>1. PICK e \in Filled : \A b \in BitsOf(n) : \E c \in BitsOf(e) : Tells(c, b)
        BY <1>2, <2>1 DEF AllTold, WordTold
      <3>2. ASSUME NEW b \in BitsOf(n)
            PROVE  shows[b] \subseteq Held(e) /\ Lookup(showed, b) \subseteq HeldBefore(e)
        <4>1. PICK c \in BitsOf(e) : Tells(c, b)
          BY <3>1
        <4>2. shows[Next0(c)] \subseteq Held(e) /\ Lookup(showed, Next0(c)) \subseteq HeldBefore(e)
          BY DEF Held, HeldBefore
        <4> QED BY <4>1, <4>2 DEF Tells
      <3> QED BY <3>2
    <2> QED BY <1>2, <2>1 DEF Covered, TransitionsCovered
  <1> QED BY <1>1, <1>2

\* A bit to cover belongs to a wire the database has.
LEMMA CoverKnown ==
  ASSUME NEW b \in AllBits
  PROVE  b[1] \in Known /\ b \in BitsOf(b[1])
  <1>1. PICK n \in Names : Parts(n) # {} /\ ~Memory(n) /\ b \in BitsOf(n)
    BY DEF AllBits
  <1>2. b[1] = n
    BY <1>1 DEF BitsOf
  <1> QED BY <1>1, <1>2 DEF Known

\* A wire to cover has no register among its bits.
LEMMA NoRegister ==
  ASSUME Unmixed(C), NEW b \in ToCover, NEW d \in BitsOf(b[1])
  PROVE  ~IsRegister(d)
  <1> SUFFICES ASSUME IsRegister(d) PROVE FALSE
    OBVIOUS
  <1>1. PICK i \in DOMAIN Gates : b \in ToSet(Gates[i].out) /\ Driver(b) = Gates[i]
    BY DEF ToCover, Combinational, Driven, Driver
  <1>2. PICK j \in DOMAIN Gates : d \in ToSet(Gates[j].out) /\ Driver(d) = Gates[j]
    BY DEF IsRegister, Driven, Driver
  <1>3. Gates[i].type # "$dff" /\ Gates[j].type = "$dff"
    BY <1>1, <1>2 DEF IsRegister, ToCover, Combinational
  <1>4. b[1] \in NamesIn(Gates[i].out) /\ d[1] \in NamesIn(Gates[j].out) /\ d[1] = b[1]
    BY <1>1, <1>2 DEF NamesIn, BitsOf
  <1>5. Gates[i] \in Range(C.gates) /\ Gates[j] \in Range(C.gates)
    BY DEF Gates, C, Range
  <1> QED BY <1>3, <1>4, <1>5 DEF Unmixed

\* An elected wire tells all of its own bits.
LEMMA OwnTold ==
  ASSUME NEW b \in ToCover, b[1] \in elected
  PROVE  BitTold(b) /\ (Unmixed(C) => WordTold(b[1]))
  <1>1. b \in AllBits /\ ~IsRegister(b)
    BY DEF ToCover
  <1>2. b[1] \in Filled /\ b \in BitsOf(b[1])
    BY <1>1, CoverKnown DEF Filled
  <1>3. BitTold(b)
    BY <1>1, <1>2, NotNext DEF BitTold, Tells
  <1>4. ASSUME Unmixed(C), NEW d \in BitsOf(b[1]) PROVE Tells(d, d)
    BY <1>4, NoRegister, NotNext DEF Tells
  <1> QED BY <1>2, <1>3, <1>4 DEF WordTold

LEMMA ForcedTold ==
  ASSUME setup.BIT_VERIF \/ Unmixed(C), Known \subseteq elected
  PROVE  AllTold
  <1>1. ASSUME NEW b \in ToCover PROVE b[1] \in elected
    BY CoverKnown DEF ToCover
  <1> QED BY <1>1, OwnTold DEF AllTold

\* What the election says of the wires it elected.
Chosen ==
  /\ Flow(shows, elected) /\ Flow(showed, elected) /\ DOMAIN shows = AllBits
  /\ \A n \in Known : Synchronous(n) \/ IsOutput(n) => n \in elected
  /\ setup.BIT_VERIF \/ split_wires \subseteq elected
  /\ GatesKnown

LEMMA BuiltUnmixed == ASSUME WellBuilt(C) PROVE Unmixed(C)
  <1> SUFFICES ASSUME NEW g \in Range(C.gates), NEW h \in Range(C.gates),
                      NamesIn(g.out) \intersect NamesIn(h.out) # {}
               PROVE  g = h
    BY DEF Unmixed
  <1>1. PICK i \in DOMAIN C.gates, j \in DOMAIN C.gates : g = C.gates[i] /\ h = C.gates[j]
    BY DEF Range
  <1>2. Driven1(C)
    BY DEF WellBuilt
  <1> HIDE DEF C
  <1> QED BY <1>1, <1>2 DEF Driven1

\* A wire some gate has is an output exactly when it is one in the database.
LEMMA OutputIs ==
  ASSUME NEW n
  PROVE  OutputOf(C, n) = IsOutput(n)
  BY DEF OutputOf, IsOutput, Parts, Items, C

\* A register holds, as its next value, the bit it reads.
LEMMA RegisterTold ==
  ASSUME setup \in Setups, WellBuilt(C), Chosen, NEW i \in DOMAIN Gates, Gates[i].type = "$dff",
         NEW k \in DOMAIN Gates[i].ports["D"]
  PROVE  LET q == Gates[i].out[k]
         IN /\ q[1] \in Filled /\ q \in BitsOf(q[1]) /\ q \in ToSet(Gates[i].out)
            /\ Tells(q, Gates[i].ports["D"][k])
  <1> DEFINE g == Gates[i]
             q == g.out[k]
  <1>1. g \in Range(C.gates)
    BY DEF C, Gates, Range
  <1>2. /\ DOMAIN g.ports = {"D"} /\ g.bitwise
        /\ \A n \in NamesIn(g.out) : C.items[n][1].type = "wire"
    BY <1>1 DEF WellBuilt, Kinds
  <1>3. IsInjective(g.out) /\ k \in DOMAIN g.out
    BY <1>1, <1>2 DEF WellBuilt, Driven1
  <1>4. q \in ToSet(g.out) /\ q[1] \in NamesIn(g.out)
    BY <1>3 DEF ToSet, NamesIn
  <1>5. q[1] \in Known /\ q \in BitsOf(q[1])
    BY <1>4, BitKnown
  <1>6. Synchronous(q[1])
    <2>1. Len(C.items[q[1]]) = 1 /\ C.items[q[1]][1].type = "wire"
      BY <1>1, <1>2, <1>4 DEF WellBuilt, Plain
    <2>2. Items[q[1]][1] \in Parts(q[1])
      BY SMTT(30), <2>1 DEF Parts, Items, C, ToSet
    <2> QED BY <2>1, <2>2 DEF Synchronous, Items, C
  <1>7. q[1] \in Filled
    BY <1>5, <1>6 DEF Chosen, Filled
  <1>8. Driver(q) = g /\ Driven(q)
    BY <1>4, DriverIs
  <1>9. Position(g, q) = k
    <2>1. Position(g, q) \in DOMAIN g.out /\ g.out[Position(g, q)] = q
      BY <1>2, <1>4, FeedsRead
    <2> HIDE DEF g
    <2> QED BY <1>3, <2>1 DEF IsInjective
  <1>10. Next0(q) = g.ports["D"][k]
    BY <1>8, <1>9 DEF Next0, IsRegister
  <1>11. Tells(q, g.ports["D"][k])
    BY <1>10 DEF Tells
  <1> QED BY <1>4, <1>5, <1>7, <1>11

\* What a bit of a wire that is not elected shows, the gates that read it show.
LEMMA GateTold ==
  ASSUME setup \in Setups, WellBuilt(C), Chosen, NEW i \in DOMAIN Gates, Computes(Gates[i]),
         NEW y \in ToSet(Gates[i].out), NEW p \in DOMAIN Gates[i].ports, NEW b \in Feeds(Gates[i], p, y),
         b[1] \notin elected, NEW c, Tells(c, y)
  PROVE  Tells(c, b)
  <1>1. y \in AllBits /\ b \in AllBits
    BY FeedsRead, BitKnown
  <1>2. Lookup(shows, b) = shows[b] /\ Lookup(shows, y) = shows[y]
    BY <1>1 DEF Lookup, Chosen
  <1>3. Lookup(shows, b) \subseteq Lookup(shows, y) /\ Lookup(showed, b) \subseteq Lookup(showed, y)
    BY DEF Chosen, Flow
  <1> QED BY <1>2, <1>3 DEF Tells

\* A bit to cover that is not elected is read by a register, or by logic to cover.
LEMMA Reader ==
  ASSUME setup \in Setups, WellBuilt(C), Chosen, NEW b \in ToCover, b[1] \notin elected
  PROVE  \/ \E i \in DOMAIN Gates : Gates[i].type = "$dff" /\ b \in Reading(Gates[i])
         \/ \E i \in DOMAIN Gates : \E y \in ToSet(Gates[i].out), p \in DOMAIN Gates[i].ports :
              Computes(Gates[i]) /\ b \in Feeds(Gates[i], p, y) /\ y \in ToCover
  <1>1. ~IsOutput(b[1])
    BY CoverKnown DEF Chosen, ToCover
  <1>2. Combinational(b) /\ Read(C, b)
    BY <1>1 DEF ToCover, Observable, C
  <1>3. PICK j \in DOMAIN Gates : b \in ToSet(Gates[j].out) /\ Computes(Gates[j]) /\ Gates[j] \in Range(C.gates)
    BY <1>2, Dependence
  <1>4. \/ \E h \in Range(C.gates) : h.type = "$dff" /\ b \in Reading(h)
        \/ \E h \in Range(C.gates) : \E y \in ToSet(h.out), p \in DOMAIN h.ports :
             Computes(h) /\ b \in Feeds(h, p, y) /\ (OutputOf(C, y[1]) \/ Read(C, y))
    BY <1>1, <1>2, <1>3, OutputIs DEF WellBuilt, Live
  <1>5. ASSUME NEW h \in Range(C.gates) PROVE \E i \in DOMAIN Gates : h = Gates[i]
    BY DEF C, Gates, Range
  <1>6. ASSUME NEW h \in Range(C.gates), NEW y \in ToSet(h.out), Computes(h),
               OutputOf(C, y[1]) \/ Read(C, y)
        PROVE  y \in ToCover
    <2>1. PICK i \in DOMAIN Gates : h = Gates[i]
      BY <1>5
    <2>2. Driver(y) = h /\ Driven(y) /\ y \in AllBits
      BY <2>1, DriverIs, BitKnown
    <2>3. Combinational(y) /\ ~IsRegister(y)
      BY <1>6, <2>2 DEF Combinational, IsRegister, Computes
    <2>4. Observable(y)
      BY <1>6, OutputIs DEF Observable, C
    <2> QED BY <2>2, <2>3, <2>4 DEF ToCover
  <1>7. CASE \E h \in Range(C.gates) : h.type = "$dff" /\ b \in Reading(h)
    BY <1>5, <1>7
  <1>8. CASE \E h \in Range(C.gates) : \E y \in ToSet(h.out), p \in DOMAIN h.ports :
             Computes(h) /\ b \in Feeds(h, p, y) /\ (OutputOf(C, y[1]) \/ Read(C, y))
    BY <1>5, <1>6, <1>8
  <1> QED BY <1>4, <1>7, <1>8

\* Among bits to cover, one is evaluated last.
LEMMA Deepest ==
  ASSUME setup \in Setups, WellBuilt(C), NEW depth, NEW levels \in Nat, Layered(C, depth, levels),
         NEW U \in SUBSET ToCover, U # {}
  PROVE  \E b \in U : \A y \in U : depth[y] <= depth[b]
  <1> DEFINE T == {levels - depth[b] : b \in U}
  <1>1. ASSUME NEW b \in U PROVE depth[b] \in 0 .. levels
    <2>1. Combinational(b)
      BY DEF ToCover
    <2> QED BY <2>1, Dependence DEF Layered
  <1>2. T \in SUBSET Nat /\ T # {}
    BY <1>1
  <1>3. PICK m \in T : \A k \in T : m <= k
    <2> HIDE DEF T
    <2> QED BY <1>2, LeastNumber
  <1>4. PICK b \in U : m = levels - depth[b]
    OBVIOUS
  <1>5. ASSUME NEW y \in U PROVE depth[y] <= depth[b]
    <2>1. levels - depth[b] <= levels - depth[y]
      BY <1>3, <1>4
    <2> QED BY <1>1, <2>1
  <1> QED BY <1>5

LEMMA BitsTold ==
  ASSUME setup \in Setups, Built(C), Chosen, NEW b \in ToCover
  PROVE  BitTold(b)
  <1> DEFINE U == {x \in ToCover : ~BitTold(x)}
  <1> SUFFICES ASSUME U # {} PROVE FALSE
    OBVIOUS
  <1>1. WellBuilt(C)
    BY DEF Built
  <1>0. PICK levels \in Nat : \E depth : Layered(C, depth, levels)
    BY DEF Built
  <1>2. PICK depth : Layered(C, depth, levels)
    BY <1>0
  <1>3. PICK x \in U : \A y \in U : depth[y] <= depth[x]
    BY <1>1, <1>2, Deepest
  <1>4. x[1] \notin elected
    BY OwnTold
  <1>5. ASSUME NEW i \in DOMAIN Gates, Gates[i].type = "$dff", x \in Reading(Gates[i])
        PROVE  FALSE
    <2>1. DOMAIN Gates[i].ports = {"D"}
      <3>1. Gates[i] \in Range(C.gates)
        BY DEF C, Gates, Range
      <3> QED BY <1>1, <1>5, <3>1 DEF WellBuilt, Kinds
    <2>2. PICK k \in DOMAIN Gates[i].ports["D"] : x = Gates[i].ports["D"][k]
      BY <1>5, <2>1 DEF Reading, ToSet
    <2> QED BY <1>1, <1>5, <2>2, RegisterTold DEF BitTold
  <1>6. ASSUME NEW i \in DOMAIN Gates, NEW y \in ToSet(Gates[i].out), NEW p \in DOMAIN Gates[i].ports,
               Computes(Gates[i]), x \in Feeds(Gates[i], p, y), y \in ToCover
        PROVE  FALSE
    <2>1. y \notin U
      <3>1. Gates[i] \in Range(C.gates)
        BY DEF C, Gates, Range
      <3>2. depth[x] \in 0 .. levels /\ depth[y] \in 0 .. levels /\ depth[x] < depth[y]
        BY <1>2, <1>6, <3>1 DEF Layered
      <3> QED BY <1>3, <3>2
    <2>2. PICK n \in Filled : \E c \in BitsOf(n) : Tells(c, y)
      BY <1>6, <2>1 DEF BitTold
    <2> QED BY <1>1, <1>4, <1>6, <2>2, GateTold DEF BitTold
  <1> QED BY <1>1, <1>4, <1>5, <1>6, Reader

\* A port that reads a bit of a wire the parser did not find split reads it whole.
LEMMA WholeWord ==
  ASSUME setup \in Setups, WellBuilt(C), GatesKnown, NEW i \in DOMAIN Gates,
         NEW p \in DOMAIN Gates[i].ports, NEW x \in ToSet(Gates[i].ports[p]), x[1] \notin split_wires
  PROVE  BitsOf(x[1]) \subseteq ToSet(Gates[i].ports[p])
  <1>1. Gates[i] \in Range(C.gates) /\ x \in Reading(Gates[i])
    BY DEF C, Gates, Range, Reading
  <1>2. ~Fused(x[1])
    <2>1. Len(C.items[x[1]]) = 1
      BY <1>1 DEF WellBuilt, Plain
    <2> QED BY <2>1 DEF Fused, Items, C
  <1>3. x[1] \in NamesIn(Gates[i].ports[p])
    BY DEF NamesIn
  <1>4. x[1] \notin Sliced(Gates[i].ports[p])
    BY DEF GatesKnown, GateKnown
  <1> QED BY <1>2, <1>3, <1>4 DEF Sliced

\* A register that reads a whole word holds it whole.
LEMMA WordInRegister ==
  ASSUME setup \in Setups, WellBuilt(C), Chosen, NEW i \in DOMAIN Gates, Gates[i].type = "$dff",
         NEW x \in ToSet(Gates[i].ports["D"]), BitsOf(x[1]) \subseteq ToSet(Gates[i].ports["D"])
  PROVE  WordTold(x[1])
  <1> DEFINE g == Gates[i]
  <1>1. g \in Range(C.gates)
    BY DEF C, Gates, Range
  <1>2. PICK k \in DOMAIN g.ports["D"] : x = g.ports["D"][k]
    BY DEF ToSet
  <1> DEFINE e == g.out[k][1]
  <1>3. e \in Filled /\ g.out[k] \in ToSet(g.out)
    BY RegisterTold
  <1>4. ASSUME NEW b \in BitsOf(x[1]) PROVE \E c \in BitsOf(e) : Tells(c, b)
    <2>1. PICK l \in DOMAIN g.ports["D"] : b = g.ports["D"][l]
      BY DEF ToSet
    <2>2. /\ g.out[l] \in BitsOf(g.out[l][1]) /\ g.out[l] \in ToSet(g.out)
          /\ Tells(g.out[l], g.ports["D"][l])
      BY RegisterTold
    <2>3. g.out[l][1] = e
      BY <1>1, <1>3, <2>2 DEF WellBuilt, Driven1
    <2> QED BY <2>1, <2>2, <2>3
  <1> QED BY <1>3, <1>4 DEF WordTold

\* Logic that reads a whole word passes it on to its own word.
LEMMA WordInGate ==
  ASSUME setup \in Setups, WellBuilt(C), Chosen, NEW i \in DOMAIN Gates, Computes(Gates[i]),
         NEW y \in ToSet(Gates[i].out), NEW p \in DOMAIN Gates[i].ports,
         NEW x \in ToSet(Gates[i].ports[p]), BitsOf(x[1]) \subseteq ToSet(Gates[i].ports[p]),
         x[1] \notin elected, WordTold(y[1])
  PROVE  WordTold(x[1])
  <1> DEFINE g == Gates[i]
  <1>1. g \in Range(C.gates)
    BY DEF C, Gates, Range
  <1>2. PICK e \in Filled : \A b \in BitsOf(y[1]) : \E c \in BitsOf(e) : Tells(c, b)
    BY DEF WordTold
  <1>3. ASSUME NEW b \in BitsOf(x[1]) PROVE \E c \in BitsOf(e) : Tells(c, b)
    <2>1. b \in ToSet(g.ports[p]) /\ b[1] \notin elected
      BY DEF BitsOf
    <2>2. \E z \in ToSet(g.out) : b \in Feeds(g, p, z)
      <3>1. CASE ~g.bitwise
        BY <2>1, <3>1 DEF Feeds
      <3>2. CASE g.bitwise
        <4>1. PICK l \in DOMAIN g.ports[p] : b = g.ports[p][l]
          BY <2>1 DEF ToSet
        <4>2. l \in DOMAIN g.out /\ IsInjective(g.out)
          BY <1>1, <3>2 DEF WellBuilt, Driven1
        <4>3. g.out[l] \in ToSet(g.out)
          BY <4>2 DEF ToSet
        <4>4. Position(g, g.out[l]) = l
          <5>1. Position(g, g.out[l]) \in DOMAIN g.out /\ g.out[Position(g, g.out[l])] = g.out[l]
            BY <4>3, FeedsRead
          <5> HIDE DEF g
          <5> QED BY <4>2, <5>1 DEF IsInjective
        <4>5. b \in Feeds(g, p, g.out[l])
          BY <3>2, <4>1, <4>4 DEF Feeds
        <4> QED BY <4>3, <4>5
      <3> QED BY <3>1, <3>2
    <2>3. PICK z \in ToSet(g.out) : b \in Feeds(g, p, z)
      BY <2>2
    <2>4. z \in BitsOf(y[1])
      <3>1. z[1] = y[1]
        BY <1>1 DEF WellBuilt, Driven1
      <3> QED BY <3>1, BitKnown
    <2>5. PICK c \in BitsOf(e) : Tells(c, z)
      BY <1>2, <2>4
    <2>6. Tells(c, b)
      BY <2>1, <2>3, <2>5, GateTold
    <2> QED BY <2>6
  <1> QED BY <1>2, <1>3 DEF WordTold

LEMMA WordsTold ==
  ASSUME setup \in Setups, Built(C), Chosen, ~setup.BIT_VERIF, NEW b \in ToCover
  PROVE  WordTold(b[1])
  <1> DEFINE U == {x \in ToCover : ~WordTold(x[1])}
  <1> SUFFICES ASSUME U # {} PROVE FALSE
    OBVIOUS
  <1>1. WellBuilt(C) /\ Unmixed(C) /\ GatesKnown
    BY BuiltUnmixed DEF Built, Chosen
  <1>0. PICK levels \in Nat : \E depth : Layered(C, depth, levels)
    BY DEF Built
  <1>2. PICK depth : Layered(C, depth, levels)
    BY <1>0
  <1>3. PICK x \in U : \A y \in U : depth[y] <= depth[x]
    BY <1>1, <1>2, Deepest
  <1>4. x[1] \notin elected /\ x[1] \notin split_wires
    BY <1>1, OwnTold DEF Chosen
  <1>5. ASSUME NEW i \in DOMAIN Gates, Gates[i].type = "$dff", x \in Reading(Gates[i])
        PROVE  FALSE
    <2>1. DOMAIN Gates[i].ports = {"D"}
      <3>1. Gates[i] \in Range(C.gates)
        BY DEF C, Gates, Range
      <3> QED BY <1>1, <1>5, <3>1 DEF WellBuilt, Kinds
    <2>2. x \in ToSet(Gates[i].ports["D"])
      BY <1>5, <2>1 DEF Reading
    <2>3. BitsOf(x[1]) \subseteq ToSet(Gates[i].ports["D"])
      BY <1>1, <1>4, <2>1, <2>2, WholeWord
    <2> QED BY <1>1, <1>5, <2>2, <2>3, WordInRegister
  <1>6. ASSUME NEW i \in DOMAIN Gates, NEW y \in ToSet(Gates[i].out), NEW p \in DOMAIN Gates[i].ports,
               Computes(Gates[i]), x \in Feeds(Gates[i], p, y), y \in ToCover
        PROVE  FALSE
    <2>1. y \notin U
      <3>1. Gates[i] \in Range(C.gates)
        BY DEF C, Gates, Range
      <3>2. depth[x] \in 0 .. levels /\ depth[y] \in 0 .. levels /\ depth[x] < depth[y]
        BY <1>2, <1>6, <3>1 DEF Layered
      <3> QED BY <1>3, <3>2
    <2>2. WordTold(y[1])
      BY <1>6, <2>1
    <2>3. x \in ToSet(Gates[i].ports[p])
      BY <1>1, <1>6, FeedsRead
    <2>4. BitsOf(x[1]) \subseteq ToSet(Gates[i].ports[p])
      BY <1>1, <1>4, <2>3, WholeWord
    <2> QED BY <1>1, <1>4, <1>6, <2>2, <2>3, <2>4, WordInGate
  <1> QED BY <1>1, <1>4, <1>5, <1>6, Reader
-----------------------------------------------------------------------------
(* The invariant of the election *)

\* The setups the election is enough for: all the wires of the database are
\* verified, or the circuit is well built.
Eligible(s) ==
  \/ s.FORCE_VERIFY_ALL /\ (s.BIT_VERIF \/ Unmixed(s.circuit))
  \/ Built(s.circuit)

TableKnown ==
  /\ phase = "parse" => TableInv
  /\ phase # "parse" /\ Built(C) => GatesKnown
LayoutKnown ==
  phase \notin {"parse", "init"} => registers_and_outputs = {n \in Known : Synchronous(n) \/ IsOutput(n)}
FlowKnown ==
  Built(C) =>
    /\ phase = "verify" => Solves(shows, stab, bit) /\ Flow(showed, inputs_of_stabilized_gate)
    /\ phase # "verify" => Flow(shows, inputs_of_stabilized_gate)
ChosenKnown ==
  phase \in {"track", "verified"} =>
    /\ Built(C) => Chosen
    /\ setup.FORCE_VERIFY_ALL => Known \subseteq elected
ElectInv == TableKnown /\ LayoutKnown /\ FlowKnown /\ ChosenKnown

\* The circuit does not depend on what the program did.
LEMMA DriversFixed == ASSUME setup' = setup, NEW b PROVE Driver(b)' = Driver(b)
  BY DEF Driver, Gates

LEMMA ShownFixed ==
  ASSUME setup' = setup, NEW f, NEW b, NEW stable, NEW ones
  PROVE  Shown(f, b, stable, ones)' = Shown(f, b, stable, ones)
  <1>1. \A y : Driver(y)' = Driver(y) /\ Driven(y)' = Driven(y)
    BY DriversFixed DEF Driven, Gates
  <1>2. \A y : Combinational(y)' = Combinational(y)
    BY <1>1 DEF Combinational
  <1> QED BY <1>1, <1>2 DEF Shown

LEMMA BitsFixed == ASSUME setup' = setup PROVE AllBits' = AllBits
  BY DEF AllBits, BitsOf, Width, Names, Items, Parts, Memory

LEMMA FlowFixed ==
  ASSUME setup' = setup, NEW sh, NEW ins
  PROVE  Flow(sh, ins)' = Flow(sh, ins)
  <1>1. Gates' = Gates
    BY DEF Gates
  <1> QED BY <1>1 DEF Flow

LEMMA KindsFixed ==
  ASSUME setup' = setup
  PROVE  /\ C' = C /\ Known' = Known
         /\ \A n : Synchronous(n)' = Synchronous(n) /\ IsOutput(n)' = IsOutput(n)
  BY SetupFixed DEF C, Synchronous, IsOutput, Parts, Items

LEMMA FlowMore ==
  ASSUME NEW sh, NEW A, NEW B, A \subseteq B, Flow(sh, A)
  PROVE  Flow(sh, B)
  BY DEF Flow

LEMMA FlowNothing == ASSUME NEW ins PROVE Flow(Nothing, ins)
  BY DEF Flow, Nothing, Lookup

\* What the election chose lasts as long as what it was chosen from.
LEMMA ChosenKept ==
  ASSUME Chosen, UNCHANGED << setup, topology, mux_structures, split_wires, shows, showed, elected >>
  PROVE  Chosen'
  <1>1. GatesKnown'
    <2>1. \A n : Lookup(topology', n) = Lookup(topology, n)
      OBVIOUS
    <2> QED BY <2>1, GatesKnownKept DEF Chosen
  <1>2. Flow(shows, elected)' /\ Flow(showed, elected)'
    BY FlowFixed DEF Chosen
  <1>3. \A n \in Known' : Synchronous(n)' \/ IsOutput(n)' => n \in elected'
    BY KindsFixed DEF Chosen
  <1> QED BY <1>1, <1>2, <1>3, BitsFixed DEF Chosen

LEMMA ElectInit == ASSUME Init PROVE ElectInv
  <1>1. TableInv
    BY TableInit
  <1>2. Flow(shows, inputs_of_stabilized_gate)
    BY FlowNothing DEF Init
  <1> QED BY <1>1, <1>2 DEF Init, ElectInv, TableKnown, LayoutKnown, FlowKnown, ChosenKnown

LEMMA ElectParse ==
  ASSUME StructInv, ElectInv, ParseLine
  PROVE  ElectInv'
  <1>1. /\ phase = "parse" /\ phase' = "parse"
        /\ UNCHANGED << setup, shows, inputs_of_stabilized_gate >>
    BY DEF ParseLine, signals, election
  <1>2. TableInv'
    BY <1>1, TableParseLine DEF ElectInv, TableKnown
  <1>3. Built(C) => Flow(shows, inputs_of_stabilized_gate)'
    BY <1>1, FlowFixed DEF ElectInv, FlowKnown
  <1>4. C' = C
    BY <1>1, KindsFixed
  <1> QED BY <1>1, <1>2, <1>3, <1>4 DEF ElectInv, TableKnown, LayoutKnown, FlowKnown, ChosenKnown

LEMMA ElectMerge ==
  ASSUME StructInv, ElectInv, Merge
  PROVE  ElectInv'
  <1>1. /\ phase = "parse" /\ phase' = "init"
        /\ UNCHANGED << setup, shows, inputs_of_stabilized_gate >>
    BY DEF Merge, signals, election
  <1>2. Built(C) => GatesKnown'
    BY <1>1, MergeKnows DEF ElectInv, TableKnown, Built
  <1>3. Built(C) => Flow(shows, inputs_of_stabilized_gate)'
    BY <1>1, FlowFixed DEF ElectInv, FlowKnown
  <1>4. C' = C
    BY <1>1, KindsFixed
  <1> QED BY <1>1, <1>2, <1>3, <1>4 DEF ElectInv, TableKnown, LayoutKnown, FlowKnown, ChosenKnown

\* A step that leaves the structures of the parser alone.
LEMMA TableKept ==
  ASSUME TableKnown, phase # "parse", phase' # "parse",
         UNCHANGED << setup, topology, mux_structures, split_wires >>
  PROVE  TableKnown'
  <1>1. \A n : Lookup(topology', n) = Lookup(topology, n)
    OBVIOUS
  <1>2. C' = C
    BY KindsFixed
  <1>3. GatesKnown => GatesKnown'
    BY <1>1, GatesKnownKept
  <1> QED BY <1>2, <1>3 DEF TableKnown

LEMMA ElectInitDatabase ==
  ASSUME StructInv, ElectInv, init_database
  PROVE  ElectInv'
  <1>1. /\ phase = "init" /\ phase' = "eval"
        /\ UNCHANGED << setup, topology, mux_structures, split_wires, shows, inputs_of_stabilized_gate >>
        /\ registers_and_outputs' = {n \in Known : Synchronous(n) \/ IsOutput(n)}
    BY DEF init_database, signals, election, parser
  <1>2. TableKnown'
    BY <1>1, TableKept DEF ElectInv
  <1>3. Built(C) => Flow(shows, inputs_of_stabilized_gate)'
    BY <1>1, FlowFixed DEF ElectInv, FlowKnown
  <1>4. LayoutKnown'
    BY <1>1, KindsFixed DEF LayoutKnown
  <1> QED BY <1>1, <1>2, <1>3, <1>4, KindsFixed DEF ElectInv, FlowKnown, ChosenKnown

LEMMA ElectEval ==
  ASSUME StructInv, ElectInv, Eval
  PROVE  ElectInv'
  <1>1. /\ phase = "eval" /\ phase' = "verify" /\ shows' = Shows(stab', bit') /\ showed' = shows
        /\ UNCHANGED << setup, topology, mux_structures, split_wires, registers_and_outputs,
                        inputs_of_stabilized_gate >>
    BY DEF Eval, election, parser, layout
  <1>2. TableKnown'
    BY <1>1, TableKept DEF ElectInv
  <1>3. LayoutKnown'
    BY <1>1, KindsFixed DEF LayoutKnown, ElectInv
  <1>4. Built(C) => Flow(showed, inputs_of_stabilized_gate)'
    BY <1>1, FlowFixed DEF ElectInv, FlowKnown
  <1>5. ASSUME Built(C) PROVE Solves(shows, stab, bit)'
    <2>1. Solves(shows', stab', bit')
      BY <1>1, <1>5, ShowsSolves DEF Built, StructInv
    <2>2. \A b : Shown(shows', b, stab', bit') = Shown(shows, b, stab, bit)'
      BY <1>1, ShownFixed
    <2> QED BY <1>1, <2>1, <2>2, BitsFixed DEF Solves
  <1> QED BY <1>1, <1>2, <1>3, <1>4, <1>5, KindsFixed DEF ElectInv, FlowKnown, ChosenKnown

LEMMA ElectVerify ==
  ASSUME StructInv, ElectInv, Verify
  PROVE  ElectInv'
  <1>1. /\ phase = "verify" /\ phase' \in {"track", "verified"}
        /\ inputs_of_stabilized_gate' = InputsOfStabilized /\ elected' = Elected
        /\ topology' = [n \in DOMAIN topology \union Stabilized |-> Lookup(topology, n)]
        /\ UNCHANGED << setup, mux_structures, split_wires, registers_and_outputs, shows, showed >>
    BY DEF Verify, signals, parser
  <1>2. \A n : Lookup(topology', n) = Lookup(topology, n)
    BY <1>1 DEF Lookup
  <1>3. GatesKnown => GatesKnown'
    BY <1>1, <1>2, GatesKnownKept
  <1>4. TableKnown'
    BY <1>1, <1>3, KindsFixed DEF ElectInv, TableKnown
  <1>5. LayoutKnown'
    BY <1>1, KindsFixed DEF LayoutKnown, ElectInv
  <1>6. /\ InputsOfStabilized \subseteq Elected /\ inputs_of_stabilized_gate \subseteq Elected
        /\ registers_and_outputs \subseteq Elected
        /\ setup.BIT_VERIF \/ split_wires \subseteq Elected
        /\ setup.FORCE_VERIFY_ALL => database \subseteq Elected
    BY DEF Elected
  <1>7. ASSUME Built(C)
        PROVE  Flow(shows, InputsOfStabilized) /\ Flow(showed, inputs_of_stabilized_gate) /\ GatesKnown
               /\ DOMAIN shows = AllBits
    <2>1. GatesKnown /\ Solves(shows, stab, bit) /\ WellBuilt(C)
      BY <1>1, <1>7 DEF ElectInv, TableKnown, FlowKnown, Built
    <2>2. Flow(shows, InputsOfStabilized)
      BY <2>1, FlowElected DEF StructInv
    <2> QED BY <1>1, <1>7, <2>1, <2>2 DEF ElectInv, FlowKnown, Solves
  <1>8. Built(C) => Flow(shows, inputs_of_stabilized_gate)'
    BY <1>1, <1>7, FlowFixed
  <1>9. FlowKnown'
    BY <1>1, <1>8, KindsFixed DEF FlowKnown
  <1>10. ASSUME Built(C) PROVE Chosen'
    <2>1. Flow(shows, Elected) /\ Flow(showed, Elected)
      BY <1>6, <1>7, <1>10, FlowMore
    <2>2. Flow(shows, elected)' /\ Flow(showed, elected)'
      BY <1>1, <2>1, FlowFixed
    <2>3. DOMAIN shows' = AllBits'
      BY <1>1, <1>7, <1>10, BitsFixed
    <2>4. \A n \in Known' : Synchronous(n)' \/ IsOutput(n)' => n \in elected'
      <3>1. registers_and_outputs = {n \in Known : Synchronous(n) \/ IsOutput(n)}
        BY <1>1 DEF ElectInv, LayoutKnown
      <3> QED BY <1>1, <1>6, <3>1, KindsFixed
    <2>5. setup'.BIT_VERIF \/ split_wires' \subseteq elected'
      BY <1>1, <1>6
    <2> QED BY <1>3, <1>7, <1>10, <2>2, <2>3, <2>4, <2>5 DEF Chosen
  <1>11. setup.FORCE_VERIFY_ALL => Known' \subseteq elected'
    <2>1. database = Known
      BY <1>1 DEF StructInv, LayoutInv
    <2> QED BY <1>1, <1>6, <2>1, KindsFixed
  <1> QED BY <1>1, <1>4, <1>5, <1>9, <1>10, <1>11, KindsFixed DEF ElectInv, ChosenKnown

\* Tracking and the cycles change nothing of what the election is made of.
LEMMA ElectQuiet ==
  ASSUME StructInv, ElectInv, Tracking \/ NextCycle \/ UNCHANGED vars
  PROVE  ElectInv'
  <1>1. UNCHANGED << setup, topology, mux_structures, split_wires, registers_and_outputs, shows, showed,
                     stab, bit, inputs_of_stabilized_gate, elected, parser >>
    BY DEF Tracking, Track, Parent, Return, Tracked, NextCycle, vars, parser, layout, signals, election
  <1>2. \/ phase = "track" /\ phase' \in {"track", "verified", "aborted"}
        \/ phase = "verified" /\ phase' = "eval"
        \/ phase' = phase /\ unread' = unread /\ UNCHANGED vars
    BY DEF Tracking, Track, Parent, Return, Tracked, NextCycle, vars, parser
  <1>3. CASE UNCHANGED vars
    <2>1. UNCHANGED << phase, stab, bit, parser >>
      BY <1>3 DEF vars, signals, parser
    <2>2. TableInv' = TableInv
      BY <1>1, <2>1, SetupFixed DEF TableInv, Kept, Selects, Lookup, parser, NamesIn, Gates
    <2>3. TableKnown'
      BY <1>1, <2>1, <2>2, TableKept DEF ElectInv, TableKnown
    <2>4. LayoutKnown'
      BY <1>1, <2>1, KindsFixed DEF ElectInv, LayoutKnown
    <2>5. FlowKnown'
      <3>1. Flow(shows, inputs_of_stabilized_gate)' = Flow(shows, inputs_of_stabilized_gate)
        BY <1>1, FlowFixed
      <3>2. Flow(showed, inputs_of_stabilized_gate)' = Flow(showed, inputs_of_stabilized_gate)
        BY <1>1, FlowFixed
      <3>3. Solves(shows, stab, bit)' = Solves(shows, stab, bit)
        <4>1. \A b : Shown(shows, b, stab, bit)' = Shown(shows, b, stab, bit)
          BY <1>1, ShownFixed
        <4> QED BY <1>1, <4>1, BitsFixed DEF Solves
      <3> QED BY <1>1, <2>1, <3>1, <3>2, <3>3, KindsFixed DEF ElectInv, FlowKnown
    <2>6. ChosenKnown'
      BY <1>1, <2>1, ChosenKept, KindsFixed DEF ElectInv, ChosenKnown
    <2> QED BY <2>3, <2>4, <2>5, <2>6 DEF ElectInv
  <1>4. CASE \/ phase = "track" /\ phase' \in {"track", "verified", "aborted"}
             \/ phase = "verified" /\ phase' = "eval"
    <2>1. TableKnown'
      BY <1>1, <1>4, TableKept DEF ElectInv
    <2>2. LayoutKnown'
      BY <1>1, <1>4, KindsFixed DEF ElectInv, LayoutKnown
    <2>3. FlowKnown'
      <3>1. Built(C) => Flow(shows, inputs_of_stabilized_gate)'
        BY <1>1, <1>4, FlowFixed DEF ElectInv, FlowKnown
      <3> QED BY <1>1, <1>4, <3>1, KindsFixed DEF FlowKnown
    <2>4. ChosenKnown'
      BY <1>1, <1>4, ChosenKept, KindsFixed DEF ElectInv, ChosenKnown
    <2> QED BY <2>1, <2>2, <2>3, <2>4 DEF ElectInv
  <1> QED BY <1>2, <1>3, <1>4

LEMMA ElectStep == ASSUME StructInv, ElectInv, [Next]_vars PROVE ElectInv'
  BY ElectParse, ElectMerge, ElectInitDatabase, ElectEval, ElectVerify, ElectQuiet DEF Next

LEMMA ElectInvariant == Spec => []ElectInv
  BY StructInvariant, ElectInit, ElectStep, PTL DEF Spec

LEMMA AlwaysTold ==
  ASSUME \A s \in Setups : Eligible(s), StructInv, ElectInv
  PROVE  Covered /\ TransitionsCovered
  <1> SUFFICES ASSUME phase = "verified" PROVE AllTold
    BY ToldCovers
  <1>1. CASE setup.FORCE_VERIFY_ALL /\ (setup.BIT_VERIF \/ Unmixed(C))
    BY <1>1, ForcedTold DEF ElectInv, ChosenKnown
  <1>2. CASE Built(C)
    BY <1>2, BitsTold, WordsTold DEF ElectInv, ChosenKnown, AllTold, StructInv
  <1> QED BY <1>1, <1>2 DEF Eligible, StructInv, C

\* The wires build_database elects are enough: for every circuit that is well
\* built, whichever of its bits are stable, whoever observes a wire in a cycle
\* learns no more than the observer of an elected wire.
THEOREM ElectionCovers ==
  ASSUME \A s \in Setups : Eligible(s)
  PROVE  Spec => []Covered
  BY AlwaysTold, StructInvariant, ElectInvariant, PTL

\* "We will want to verify all the wires that applied stability previous cycle"
\* (manager.cpp): and no more than that observer does across the clock edge.
THEOREM ElectionCoversTransitions ==
  ASSUME \A s \in Setups : Eligible(s)
  PROVE  Spec => []TransitionsCovered
  BY AlwaysTold, StructInvariant, ElectInvariant, PTL
=============================================================================
