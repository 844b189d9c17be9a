------------------------------ MODULE MixedSim ------------------------------
(***************************************************************************)
(* A synchronous circuit simulated in the mixed domain: registers (wire of *)
(* cxxrtl.h), a combinational part computed cell by cell by eval(), and    *)
(* commit().  The netlist is not fixed: eval applies any cell to any       *)
(* operands, so the behaviours are those of all circuits of MaxCells       *)
(* cells, and a register may load an input or any computed value.          *)
(*                                                                         *)
(* Beside the values of the program, every bit carries a ghost, shown: the *)
(* expressions the physical wire may take during the cycle.  A register    *)
(* goes from its old to its new expression at an unknown time, and a cell  *)
(* sees each input bit at any of the expressions that bit shows.  It is    *)
(* the meaning that stability and LeakSets must account for.               *)
(***************************************************************************)
EXTENDS MixedValue

CONSTANTS Env0,       \* the valuation the concrete simulation runs in
          MaxCycles,  \* bound: commits
          Circuits    \* the families of circuits, records of the fields below

ASSUME BoundAssumption == Env0 \in Env /\ MaxCycles \in Nat
ASSUME CircuitsAssumption ==
  \A c \in Circuits :
    /\ c.RegWidths \in Seq(Nat \ {0})
    /\ c.InputBits \subseteq SUBSET Env /\ c.MaxCells \in Nat
    /\ c.Resized \in BOOLEAN /\ c.AnySelector \in BOOLEAN

VARIABLES circuit, \* the family of the circuit, which never changes
          wires,   \* wires[r] = [curr, next]
          old,     \* ghost: the expression of register r before the last commit
          cells,   \* the values computed so far in this cycle, with shown
          cycle

vars == << circuit, wires, old, cells, cycle >>

RegWidths == circuit.RegWidths      \* the width of every register, a sequence
InputBits == circuit.InputBits      \* the expressions a harness drives on input bits
MaxCells == circuit.MaxCells        \* bound: cells evaluated in a cycle
Cells == circuit.Cells              \* the kinds of cell of the circuit
Resized == circuit.Resized          \* do cells extend or truncate their operands?
AnySelector == circuit.AnySelector  \* may a mux have a symbolic or leaking selector?

Regs == DOMAIN RegWidths

\* The expressions a register shows: the one it held, the one it holds
RegCell(r) ==
  [val   |-> wires[r].curr,
   shown |-> [i \in 1 .. RegWidths[r] |-> {old[r][i], wires[r].curr.node[i]}]]

Operands == [r \in Regs |-> RegCell(r)] \o cells

\* Every way to see the bits of a shown word
Sights(shown) ==
  {f \in [DOMAIN shown -> UNION {shown[i] : i \in DOMAIN shown}] :
     \A i \in DOMAIN shown : f[i] \in shown[i]}

Seen(args) ==
  CASE Len(args) = 1 -> {<< x >> : x \in Sights(args[1].shown)}
    [] Len(args) = 2 -> {<< x, y >> : x \in Sights(args[1].shown), y \in Sights(args[2].shown)}
    [] OTHER -> {<< x, y, z >> : x \in Sights(args[1].shown), y \in Sights(args[2].shown),
                                 z \in Sights(args[3].shown)}

\* What a word shows that may be any of the given nodes
ShownOf(nodes) == [i \in DOMAIN (CHOOSE n \in nodes : TRUE) |-> {n[i] : n \in nodes}]
ShownBy(F(_), args) == ShownOf({Lift(F, s) : s \in Seen(args)})

Init ==
  /\ circuit \in Circuits
  /\ wires = [r \in Regs |-> LET v == constant(AllBits(RegWidths[r], FALSE))
                             IN [curr |-> v, next |-> v]]
  /\ old = [r \in Regs |-> AllBits(RegWidths[r], {})]
  /\ cells = << >>
  /\ cycle = 0

-----------------------------------------------------------------------------
(* eval(): one cell more.  The evaluations before the first commit, where  *)
(* every register still holds its initial constant, are left out.          *)

Evaluating(kind) == kind \in Cells /\ cycle > 0 /\ Len(cells) < MaxCells

Cell(value, F(_), args) ==
  /\ cells' = Append(cells, [val |-> value, shown |-> ShownBy(F, args)])
  /\ UNCHANGED << circuit, wires, old, cycle >>

Ids == DOMAIN Operands
Val(k) == Operands[k].val
SameWidth(j, k) == Width(Val(j)) = Width(Val(k))
Widths == {RegWidths[r] : r \in Regs}

\* The casts of the operands S to the width of the result; the sign matters
\* to an operand that is extended only
Casts(S) ==
  {c \in [w : Widths, signed : BOOLEAN] :
     /\ Resized \/ \A k \in S : Width(Val(k)) = c.w
     /\ c.signed => \E k \in S : Width(Val(k)) < c.w}
Cast(v, c) == IF c.signed THEN scast(v, c.w) ELSE zcast(v, c.w)
CastWords(ws, c) == [n \in DOMAIN ws |-> CastWord(ws[n], c.w, c.signed)]

Unary(kind, Op(_), F(_)) ==
  /\ Evaluating(kind)
  /\ \E j \in Ids : \E c \in Casts({j}) :
       LET G(ws) == F(CastWords(ws, c))
       IN Cell(Op(Cast(Val(j), c)), G, << Operands[j] >>)

Binary(kind, Op(_, _), F(_)) ==
  /\ Evaluating(kind)
  /\ \E j, k \in Ids : \E c \in Casts({j, k}) :
       LET G(ws) == F(CastWords(ws, c))
       IN Cell(Op(Cast(Val(j), c), Cast(Val(k), c)), G, << Operands[j], Operands[k] >>)

FPos(ws) == ws[1]
pos(a) == a
bit_xnor(a, b) == bit_not(bit_xor(a, b))
FXnor(ws) == FNot(<< FXor(ws) >>)

Pos == Unary("pos", pos, FPos)
BitNot == Unary("not", bit_not, FNot)
BitAnd == Binary("and", bit_and, FAnd)
BitOr  == Binary("or", bit_or, FOr)
BitXor == Binary("xor", bit_xor, FXor)
BitXnor == Binary("xnor", bit_xnor, FXnor)
Add == Binary("add", add, FAdd)
Sub == Binary("sub", sub, FSub)
Neg == Unary("neg", neg, FNeg)

\* mul_ss extends both operands to the result, mul_uu to the wider of them
Mul ==
  /\ Evaluating("mul")
  /\ \E j, k \in Ids : \E w \in Widths : \E signed \in BOOLEAN :
       LET c == [w |-> IF signed THEN w ELSE BitsExt(Val(j), Val(k)), signed |-> signed]
           a == Cast(Val(j), c)
           b == Cast(Val(k), c)
           F(ws) == ProductWord(CastWords(ws, c), w)
       IN /\ MulDefined(a, b, w)
          /\ Cell(mul(a, b, w), F, << Operands[j], Operands[k] >>)

\* One-bit results of one word
Reduction(kind, Op(_), F(_)) ==
  /\ Evaluating(kind)
  /\ \E j \in Ids : Cell(Op(Val(j)), F, << Operands[j] >>)

LogicNot == Reduction("logic_not", logic_not, FLogicNot)
ReduceAnd == Reduction("reduce_and", reduce_and, FReduceAnd)
ReduceOr  == Reduction("reduce_or", reduce_or, FReduceOr)
ReduceBool == Reduction("reduce_bool", reduce_or, FReduceOr)

FReduceXnor(ws) == FNot(<< FReduceXor(ws) >>)
ReduceXor ==
  /\ Evaluating("reduce_xor")
  /\ \E j \in Ids :
       /\ Concrete(Val(j))
       /\ \/ Cell(reduce_xor(Val(j)), FReduceXor, << Operands[j] >>)
          \/ Cell(reduce_xnor(Val(j)), FReduceXnor, << Operands[j] >>)

\* One-bit results of two words, extended to the wider one.  Two LeakSets must
\* have the same width (an assertion of reduce_and_merge).
Mergeable(a, b) == Width(a) = Width(b) \/ (Resized /\ (a.ls = NULL \/ b.ls = NULL))

Comparison(kind, Op(_, _), F(_), signed) ==
  /\ Evaluating(kind)
  /\ \E j, k \in Ids :
       LET G(ws) == F(CastWords(ws, [w |-> BitsExt(Val(j), Val(k)), signed |-> signed]))
       IN /\ Mergeable(Val(j), Val(k))
          /\ Cell(Op(Val(j), Val(k)), G, << Operands[j], Operands[k] >>)

ConcreteComparison(kind, Op(_, _), F(_), signed) ==
  /\ Evaluating(kind)
  /\ \E j, k \in Ids :
       LET G(ws) == F(CastWords(ws, [w |-> BitsExt(Val(j), Val(k)), signed |-> signed]))
       IN /\ Concrete(Val(j)) /\ Concrete(Val(k))
          /\ Cell(Op(Val(j), Val(k)), G, << Operands[j], Operands[k] >>)

FGe(ws) == FNot(<< FLt(ws) >>)
FLe(ws) == FNot(<< FGt(ws) >>)
FGeSigned(ws) == FNot(<< FLtSigned(ws) >>)
FLeSigned(ws) == FNot(<< FGtSigned(ws) >>)

LogicAnd == Comparison("logic_and", logic_and, FLogicAnd, FALSE)
LogicOr  == Comparison("logic_or", logic_or, FLogicOr, FALSE)
Eq == Comparison("eq", eq_uu, FEq, FALSE)
Ne == Comparison("ne", ne_uu, FNe, FALSE)
Lt == Comparison("lt", lt_uu, FLt, FALSE)
Gt == Comparison("gt", gt_uu, FGt, FALSE)
Ge == Comparison("ge", ge_uu, FGe, FALSE)
LtSigned == Comparison("lt_ss", lt_ss, FLtSigned, TRUE)
GtSigned == Comparison("gt_ss", gt_ss, FGtSigned, TRUE)
GeSigned == Comparison("ge_ss", ge_ss, FGeSigned, TRUE)
Le == ConcreteComparison("le", le_uu, FLe, FALSE)
EqSigned == ConcreteComparison("eq_ss", eq_ss, FEq, TRUE)
NeSigned == ConcreteComparison("ne_ss", ne_ss, FNe, TRUE)
LeSigned == ConcreteComparison("le_ss", le_ss, FLeSigned, TRUE)

\* Left shifts cast the word first, right shifts the result
Amount(k) == Resized \/ Width(Val(k)) = 1
Shl ==
  /\ Evaluating("shl")
  /\ \E j, k \in Ids : \E c \in Casts({j}) :
       LET F(ws) == FShl(<< CastWord(ws[1], c.w, c.signed), ws[2] >>)
       IN /\ Amount(k)
          /\ Cell(shl(Cast(Val(j), c), Val(k)), F, << Operands[j], Operands[k] >>)
Shr ==
  /\ Evaluating("shr")
  /\ \E j, k \in Ids : \E c \in Casts({j}) :
       LET F(ws) == CastWord(FShr(ws), c.w, c.signed)
       IN /\ Amount(k)
          /\ Cell(Cast(shr(Val(j), Val(k)), c), F, << Operands[j], Operands[k] >>)
Sshr ==
  /\ Evaluating("sshr")
  /\ \E j, k \in Ids : \E w \in Widths :
       LET F(ws) == CastWord(FSshr(ws), w, TRUE)
       IN /\ Amount(k)
          /\ Resized \/ w = Width(Val(j))
          /\ Cell(scast(sshr(Val(j), Val(k)), w), F, << Operands[j], Operands[k] >>)

\* shift_us, shift_ss: the sign of the amount chooses the direction; is_neg()
\* aborts unless it is a constant.  AnySelector = FALSE: and a stable one.
ShiftSigned ==
  /\ Evaluating("shift_s")
  /\ \E j, k \in Ids : \E c \in Casts({j}) :
       LET amount == Val(k)
           minus(v) == neg(sext(v, Width(v) + 1))
           minusWord(word) == FNeg(<< CastWord(word, Len(word) + 1, TRUE) >>)
           F(ws) == IF ws[2][Len(ws[2])]
                    THEN FShl(<< CastWord(ws[1], c.w, c.signed), minusWord(ws[2]) >>)
                    ELSE CastWord(FShr(ws), c.w, c.signed)
       IN /\ Amount(k)
          /\ IsConst(amount.node)
          /\ AnySelector \/ is_fully_stable(amount)
          /\ Cell(IF amount.data[Width(amount)]
                  THEN shl(Cast(Val(j), c), minus(amount))
                  ELSE Cast(shr(Val(j), amount), c),
                  F, << Operands[j], Operands[k] >>)

Slice ==
  /\ Evaluating("slice")
  /\ \E j \in Ids : \E begin, end \in DOMAIN Val(j).data :
       /\ begin <= end /\ ~(begin = 1 /\ end = Width(Val(j)))
       /\ LET F(ws) == SubSeq(ws[1], begin, end)
          IN Cell(slice(Val(j), begin, end), F, << Operands[j] >>)

Sext ==
  /\ Evaluating("sext")
  /\ \E j \in Ids :
       /\ Width(Val(j)) = 1
       /\ LET F(ws) == CastWord(ws[1], 2, TRUE)
          IN Cell(sext(Val(j), 2), F, << Operands[j] >>)

Zext ==
  /\ Evaluating("zext")
  /\ \E j \in Ids :
       /\ Width(Val(j)) = 1
       /\ LET F(ws) == CastWord(ws[1], 2, FALSE)
          IN Cell(zext(Val(j), 2), F, << Operands[j] >>)

Repeat ==
  /\ Evaluating("repeat")
  /\ \E j \in Ids :
       /\ Width(Val(j)) = 1
       /\ LET F(ws) == ws[1] \o ws[1]
          IN Cell(repeat(Val(j), 2), F, << Operands[j] >>)

Concat ==
  /\ Evaluating("concat")
  /\ \E j, k \in Ids :
       /\ Width(Val(j)) = 1 /\ Width(Val(k)) = 1
       /\ LET F(ws) == ws[2] \o ws[1]
          IN Cell(concat(Val(j), Val(k)), F, << Operands[j], Operands[k] >>)

Blit ==
  /\ Evaluating("blit")
  /\ \E j, k \in Ids : \E at \in DOMAIN Val(j).data :
       /\ Width(Val(k)) = 1 /\ Width(Val(j)) > 1
       /\ LET F(ws) == [ws[1] EXCEPT ![at] = ws[2][1]]
          IN Cell(blit_value(Val(j), Val(k), at, at), F, << Operands[j], Operands[k] >>)

\* AnySelector = FALSE: only selectors with a constant expression and no leaks
Mux ==
  /\ Evaluating("mux")
  /\ \E s, j, k \in Ids :
       /\ Width(Val(s)) = 1 /\ SameWidth(j, k)
       /\ AnySelector \/ (IsConst(Val(s).node) /\ Val(s).ls = NULL)
       /\ Cell(symb_mux(Val(s), Val(j), Val(k)), FMux,
               << Operands[s], Operands[j], Operands[k] >>)

-----------------------------------------------------------------------------
\* What a harness may put on an input: set and setNode on the port
Inputs(w) ==
  {LET driven == set(blank(w), [i \in 1 .. w |-> Env0 \in node[i]])
   IN setNode(driven, node) : node \in [1 .. w -> InputBits]}

\* A next that nobody writes keeps the value of the last commit
Loadable(r) ==
  Inputs(RegWidths[r]) \union {wires[r].next} \union
  {cells[k].val : k \in {k \in DOMAIN cells : Width(cells[k].val) = RegWidths[r]}}

\* eval() has written every next, then every wire commits
Commit ==
  /\ cycle < MaxCycles
  /\ \E next \in [Regs -> UNION {Loadable(r) : r \in Regs}] :
       /\ \A r \in Regs : next[r] \in Loadable(r)
       /\ wires' = [r \in Regs |-> LET v == committed(wires[r].curr, next[r])
                                   IN [curr |-> v, next |-> v]]
  /\ old' = [r \in Regs |-> wires[r].curr.node]
  /\ cells' = << >>
  /\ cycle' = cycle + 1
  /\ UNCHANGED circuit

Next ==
  \/ Pos \/ BitNot \/ BitAnd \/ BitOr \/ BitXor \/ BitXnor
  \/ Add \/ Sub \/ Neg \/ Mul
  \/ LogicNot \/ LogicAnd \/ LogicOr \/ ReduceAnd \/ ReduceOr \/ ReduceBool \/ ReduceXor
  \/ Eq \/ Ne \/ Lt \/ Gt \/ Ge \/ Le
  \/ EqSigned \/ NeSigned \/ LtSigned \/ GtSigned \/ GeSigned \/ LeSigned
  \/ Shl \/ Shr \/ Sshr \/ ShiftSigned
  \/ Slice \/ Sext \/ Zext \/ Repeat \/ Concat \/ Blit \/ Mux
  \/ Commit

Spec == Init /\ [][Next]_vars

-----------------------------------------------------------------------------
\* The circuits the mixed domain is sound for.  Narrow: all registers have one
\* bit and no cell joins bits.  Supported: the selectors of muxes and the amounts
\* of shifts of either direction are stable constants, and symbolic words are
\* ordered by their signs in narrow circuits only.
Narrow(c) ==
  /\ \A r \in DOMAIN c.RegWidths : c.RegWidths[r] = 1
  /\ \A kind \in {"sext", "zext", "repeat", "concat"} : kind \notin c.Cells
Supports(c) ==
  /\ ~c.AnySelector
  /\ Narrow(c) \/ \A kind \in {"lt_ss", "gt_ss", "ge_ss"} : kind \notin c.Cells
Supported == \A c \in Circuits : Supports(c)

AllValues == {Operands[k].val : k \in Ids}

\* Every field of a value has one entry per bit, as debug_assert and the
\* width assertions of wire::commit require.
TypeOK ==
  /\ circuit \in Circuits /\ cycle \in 0 .. MaxCycles
  /\ \A v \in AllValues :
       /\ v.data \in [1 .. Width(v) -> BOOLEAN] /\ v.stab \in [1 .. Width(v) -> BOOLEAN]
       /\ v.node \in [1 .. Width(v) -> SUBSET Env]
       /\ v.ls = NULL \/ v.ls \in [1 .. Width(v) -> SUBSET SUBSET Env]

\* A bit declared stable keeps one expression all cycle long, whatever the
\* delays of the cells above it: the stability rules of bit_and, bit_or, the
\* comparisons, the reductions, the mux and wire::commit are sound.
StableBitsHold ==
  \A k \in Ids : \A i \in DOMAIN Val(k).stab :
    Val(k).stab[i] => Operands[k].shown[i] = {Val(k).node[i]}

\* f is a function of the expressions of s
Determined(f, s) ==
  \A d, e \in Env : (\A g \in s : d \in g <=> e \in g) => (d \in f <=> e \in f)

\* Whatever a bit shows during the cycle, its LeakSet accounts for: no glitch
\* can reveal something that is not computable from the bit's leaks.
GlitchesLeaked ==
  \A k \in Ids : \A i \in DOMAIN Val(k).node : \A f \in Operands[k].shown[i] :
    Determined(f, At(Val(k).ls, i))

\* A stable bit leaks its own expression and nothing else: partial_stabilize
\* forgot what is behind it and no later operation brought it back.
StableBitsPure ==
  \A v \in AllValues : \A i \in DOMAIN v.node : v.stab[i] => At(v.ls, i) = Own(v.node[i])

\* The concrete side is the symbolic side in the valuation Env0, also behind
\* a mux that concretised its selector (debug_assert checks constants only).
ConcreteAgrees ==
  \A v \in AllValues : \A i \in DOMAIN v.node : v.data[i] = (Env0 \in v.node[i])

\* What debug_assert asserts of every value: a bit whose expression is a
\* constant has this constant as its concrete bit (a fully constant word is
\* compared by cmpConc, another bit by bit).
ConstantsAgree ==
  \A v \in AllValues : \A i \in DOMAIN v.node :
    IsConstBit(v.node[i]) => v.node[i] = BitConst(v.data[i])
=============================================================================
