----------------------------- MODULE MixedValue -----------------------------
(***************************************************************************)
(* value<Bits> of cxxrtl.h and the cell functions of cxxrtl_yosys, the     *)
(* mixed-domain values of the simulation.  A value carries                 *)
(*   data  the concrete bits,                                              *)
(*   node  the symbolic expression of every bit,                           *)
(*   stab  for every bit, whether it keeps its value all cycle long,       *)
(*   ls    what an observer of the wire may learn (a LeakSet).             *)
(*                                                                         *)
(* An operation is a function F on a sequence of words of Booleans: its    *)
(* concrete result applies F to the data of the operands, its symbolic     *)
(* result applies F in every valuation.  What is specific to an operation  *)
(* is which bits it declares stable and which leaks it collects.           *)
(***************************************************************************)
EXTENDS LeakSets, FiniteSetsExt

Width(v) == Len(v.data)
AllBits(w, b) == [i \in 1 .. w |-> b]

Word(node, e) == [i \in DOMAIN node |-> e \in node[i]]

WordsAt(nodes, e) == [k \in DOMAIN nodes |-> Word(nodes[k], e)]

\* The expressions of a word given in every valuation
NodeOf(at) == [i \in DOMAIN at[CHOOSE e \in Env : TRUE] |-> {e \in Env : at[e][i]}]

\* The symbolic result of F on a sequence of nodes
Lift(F(_), nodes) == NodeOf([e \in Env |-> F(WordsAt(nodes, e))])

DataOf(vs) == [k \in DOMAIN vs |-> vs[k].data]
NodesOf(vs) == [k \in DOMAIN vs |-> vs[k].node]

\* The value with the data and node of F applied to vs, before stability
Compute(F(_), vs) ==
  LET data == F(DataOf(vs))
  IN [data |-> data,
      node |-> Lift(F, NodesOf(vs)),
      stab |-> AllBits(Len(data), FALSE),
      ls   |-> NULL]

\* result.ls = partial_stabilize(leaks, result.node, result.stability)
Stabilized(v, stab, leaks) ==
  [v EXCEPT !.stab = stab, !.ls = partial_stabilize(leaks, v.node, stab)]

\* value(init...): constants are stable; value(): 0, unstable by default
constant(bits) ==
  [data |-> bits, node |-> [i \in DOMAIN bits |-> BitConst(bits[i])],
   stab |-> AllBits(Len(bits), TRUE), ls |-> NULL]

blank(w) == [constant(AllBits(w, FALSE)) EXCEPT !.stab = AllBits(w, FALSE)]

\* setNode leaves the stability, and set the node, as they were
setNode(v, node) == [v EXCEPT !.node = node, !.ls = reg_stabilize(node)]
set(v, data) == [v EXCEPT !.data = data]

is_fully_stable(v) == \A i \in DOMAIN v.stab : v.stab[i]
Concis_zero(v) == \A i \in DOMAIN v.data : ~v.data[i]

\* Bit i of v is known to be the constant b and to keep it all cycle long.
\* A fully constant word is tested on its data, another on its split node.
StableConst(v, i, b) ==
  /\ v.stab[i]
  /\ IF IsConst(v.node) THEN v.data[i] = b ELSE v.node[i] = BitConst(b)

(***************************************************************************)
(* The word functions                                                      *)
(***************************************************************************)
FNot(ws) == [i \in DOMAIN ws[1] |-> ~ws[1][i]]
FAnd(ws) == [i \in DOMAIN ws[1] |-> ws[1][i] /\ ws[2][i]]
FOr(ws)  == [i \in DOMAIN ws[1] |-> ws[1][i] \/ ws[2][i]]
FXor(ws) == [i \in DOMAIN ws[1] |-> ws[1][i] # ws[2][i]]
FMux(ws) == IF ws[1][1] THEN ws[2] ELSE ws[3]

Any(word) == \E i \in DOMAIN word : word[i]
Every(word) == \A i \in DOMAIN word : word[i]
FLogicNot(ws) == << ~Any(ws[1]) >>
FLogicAnd(ws) == << Any(ws[1]) /\ Any(ws[2]) >>
FLogicOr(ws)  == << Any(ws[1]) \/ Any(ws[2]) >>
FReduceAnd(ws) == << Every(ws[1]) >>
FReduceOr(ws)  == << Any(ws[1]) >>
FEq(ws) == << ws[1] = ws[2] >>
FNe(ws) == << ws[1] # ws[2] >>

\* Unsigned order, the most significant differing bit decides
Less(a, b) ==
  \E i \in DOMAIN a : /\ b[i] /\ ~a[i]
                      /\ \A j \in DOMAIN a : j > i => a[j] = b[j]
FLt(ws) == << Less(ws[1], ws[2]) >>
FGt(ws) == << Less(ws[2], ws[1]) >>

\* Signed order: a negative operand is below the others
SignedLess(a, b) ==
  LET sign == Len(a)
  IN (a[sign] /\ ~b[sign]) \/ (a[sign] = b[sign] /\ Less(a, b))
FLtSigned(ws) == << SignedLess(ws[1], ws[2]) >>
FGtSigned(ws) == << SignedLess(ws[2], ws[1]) >>

\* The expression lt_ss builds: the bit below the sign decides whatever the
\* signs are, every lower bit only when all the bits above it are equal
SignedLessNode(a, b) ==
  LET sign == Len(a)
  IN \/ a[sign] /\ ~b[sign]
     \/ sign > 1 /\ ~a[sign - 1] /\ b[sign - 1]
     \/ \E i \in 1 .. (sign - 2) :
          b[i] /\ ~a[i] /\ \A j \in (i + 1) .. sign : a[j] = b[j]
FLtSignedNode(ws) == << SignedLessNode(ws[1], ws[2]) >>
FGtSignedNode(ws) == << SignedLessNode(ws[2], ws[1]) >>

FReduceXor(ws) == << Cardinality({i \in DOMAIN ws[1] : ws[1][i]}) % 2 = 1 >>

\* Carry into bit i of a + b + cin: generated below i and propagated since
Carry(a, b, cin, i) ==
  \/ \E j \in 1 .. (i - 1) : /\ a[j] /\ b[j]
                             /\ \A l \in (j + 1) .. (i - 1) : a[l] \/ b[l]
  \/ cin /\ \A l \in 1 .. (i - 1) : a[l] \/ b[l]
Sum3(a, b, cin) == [i \in DOMAIN a |-> (a[i] # b[i]) # Carry(a, b, cin, i)]
FAdd(ws) == Sum3(ws[1], ws[2], FALSE)
FSub(ws) == Sum3(ws[1], FNot(<< ws[2] >>), TRUE)
FNeg(ws) == Sum3(AllBits(Len(ws[1]), FALSE), FNot(ws), TRUE)

\* The unsigned number of a word, and the low w bits of a number
Number(word) == MapThenSumSet(LAMBDA i : IF word[i] THEN 2 ^ (i - 1) ELSE 0, DOMAIN word)
Bit(n, i) == (n \div 2 ^ (i - 1)) % 2 = 1
ProductWord(ws, w) ==
  LET n == Number(ws[1]) * Number(ws[2]) IN [i \in 1 .. w |-> Bit(n, i)]

\* Shifts by amounts below the width of a chunk
ShrFilling(ws, filler) ==
  LET n == Number(ws[2])
  IN [i \in DOMAIN ws[1] |-> IF n \in 0 .. (Len(ws[1]) - i) THEN ws[1][i + n] ELSE filler]
FShl(ws) == LET n == Number(ws[2]) IN [i \in DOMAIN ws[1] |-> n \in 0 .. (i - 1) /\ ws[1][i - n]]
FShr(ws) == ShrFilling(ws, FALSE)
FSshr(ws) == ShrFilling(ws, ws[1][Len(ws[1])])

\* zcast and scast of a word
CastWord(word, w, signed) ==
  [i \in 1 .. w |-> IF i <= Len(word) THEN word[i] ELSE signed /\ word[Len(word)]]

(***************************************************************************)
(* Operations of value<Bits>                                               *)
(***************************************************************************)
bit_not(a) == Stabilized(Compute(FNot, << a >>), a.stab, a.ls)

\* Mutant of Absorbed: the absorbing constant need not be stable
AbsorbedUnstable(a, b, absorbing) ==
  [i \in DOMAIN a.stab |-> \/ a.stab[i] /\ b.stab[i]
                           \/ a.node[i] = BitConst(absorbing)
                           \/ b.node[i] = BitConst(absorbing)]

\* Both bits stable, or one of them a stable absorbing constant
Absorbed(a, b, absorbing) ==
  [i \in DOMAIN a.stab |-> \/ a.stab[i] /\ b.stab[i]
                           \/ StableConst(a, i, absorbing)
                           \/ StableConst(b, i, absorbing)]

bit_and(a, b) == Stabilized(Compute(FAnd, << a, b >>), Absorbed(a, b, FALSE), merge(a.ls, b.ls))
bit_or(a, b)  == Stabilized(Compute(FOr, << a, b >>), Absorbed(a, b, TRUE), merge(a.ls, b.ls))
bit_xor(a, b) == Stabilized(Compute(FXor, << a, b >>),
                            [i \in DOMAIN a.stab |-> a.stab[i] /\ b.stab[i]],
                            merge(a.ls, b.ls))

update(elem, val, mask) == bit_or(bit_and(elem, bit_not(mask)), bit_and(val, mask))

\* Mutant of Whole: one stable operand is enough
WholeOfEither(a, b) == AllBits(Width(a), is_fully_stable(a) \/ is_fully_stable(b))

\* Arithmetic is stable only as a whole
Whole(a, b) == AllBits(Width(a), is_fully_stable(a) /\ is_fully_stable(b))
shl(a, amount) == Stabilized(Compute(FShl, << a, amount >>), Whole(a, amount),
                             shift_left(a.ls, amount.ls, Width(a)))
shr(a, amount) == Stabilized(Compute(FShr, << a, amount >>), Whole(a, amount),
                             shift_right(a.ls, amount.ls, Width(a)))
sshr(a, amount) == Stabilized(Compute(FSshr, << a, amount >>), Whole(a, amount),
                              shift_right(a.ls, amount.ls, Width(a)))
add(a, b) == Stabilized(Compute(FAdd, << a, b >>), Whole(a, b), mix(a.ls, b.ls))
sub(a, b) == Stabilized(Compute(FSub, << a, b >>), Whole(a, b), mix(a.ls, b.ls))
neg(a) == Stabilized(Compute(FNeg, << a >>), Whole(a, a), mix(a.ls, NULL))

\* mul<ResultBits>: only the bits that an operand has may be stable.  A result
\* wider than a leaking operand is refused: leaks.at() throws.
MulDefined(a, b, w) == w <= Width(a) \/ (a.ls = NULL /\ b.ls = NULL)
mul(a, b, w) ==
  LET F(ws) == ProductWord(ws, w)
  IN Stabilized(Compute(F, << a, b >>),
                [i \in 1 .. w |-> i <= Width(a) /\ is_fully_stable(a) /\ is_fully_stable(b)],
                mix(a.ls, b.ls))

(***************************************************************************)
(* Wiring: nothing is recomputed, bits are moved with their stability      *)
(***************************************************************************)
slice(v, begin, end) ==
  [data |-> SubSeq(v.data, begin, end), node |-> SubSeq(v.node, begin, end),
   stab |-> SubSeq(v.stab, begin, end), ls |-> extract(v.ls, begin, end)]

\* Mutant of zext: the LeakSet keeps its width
zext_short_leaks(v, w) ==
  LET more(f, x) == [i \in 1 .. w |-> IF i <= Width(v) THEN f[i] ELSE x]
  IN [data |-> more(v.data, FALSE), node |-> more(v.node, {}),
      stab |-> more(v.stab, TRUE), ls |-> v.ls]

zext(v, w) ==
  LET more(f, x) == [i \in 1 .. w |-> IF i <= Width(v) THEN f[i] ELSE x]
  IN [data |-> more(v.data, FALSE), node |-> more(v.node, {}),
      stab |-> more(v.stab, TRUE), ls |-> extend(v.ls, w)]

\* Mutant of sext: the concrete side is extended with zeroes
sext_unsigned_data(v, w) ==
  LET more(f) == [i \in 1 .. w |-> IF i <= Width(v) THEN f[i] ELSE f[Width(v)]]
  IN [data |-> [i \in 1 .. w |-> i <= Width(v) /\ v.data[i]], node |-> more(v.node),
      stab |-> more(v.stab), ls |-> sextend(v.ls, w)]

sext(v, w) ==
  LET more(f) == [i \in 1 .. w |-> IF i <= Width(v) THEN f[i] ELSE f[Width(v)]]
  IN [data |-> more(v.data), node |-> more(v.node),
      stab |-> more(v.stab), ls |-> sextend(v.ls, w)]

rzext(v, w) ==
  LET added == w - Width(v)
      more(f, x) == [i \in 1 .. w |-> IF i > added THEN f[i - added] ELSE x]
  IN [data |-> more(v.data, FALSE), node |-> more(v.node, {}),
      stab |-> more(v.stab, TRUE), ls |-> rextend(v.ls, w)]

trunc(v, w) == slice(v, 1, w)
zcast(v, w) == IF w < Width(v) THEN trunc(v, w) ELSE zext(v, w)
scast(v, w) == IF w < Width(v) THEN trunc(v, w) ELSE sext(v, w)

concat(ms, low) ==
  LET w == Width(ms) + Width(low)
  IN bit_or(rzext(ms, w), zext(low, w))

repeat(v, count) ==
  [data |-> AllBits(count, v.data[1]), node |-> AllBits(count, v.node[1]),
   stab |-> AllBits(count, v.stab[1]), ls |-> replicate(v.ls, count)]

blit_value(v, source, begin, end) ==
  LET put(f, g) == [i \in DOMAIN f |-> IF i \in begin .. end THEN g[i - begin + 1] ELSE f[i]]
  IN [data |-> put(v.data, source.data), node |-> put(v.node, source.node),
      stab |-> put(v.stab, source.stab), ls |-> blit(v.ls, source.ls, begin, end, Width(v))]

(***************************************************************************)
(* Cells of cxxrtl_yosys                                                   *)
(***************************************************************************)
\* Mutant of Predicate: a stable result is not stabilised
PredicateUnstabilized(v, stable, leaks) == [v EXCEPT !.stab = << stable >>, !.ls = leaks]

\* One-bit results keep the leaks of all their operands; when no operand
\* leaks, the result has no LeakSet, whatever its expression
Predicate(v, stable, leaks) ==
  IF leaks = NULL THEN [v EXCEPT !.stab = << stable >>]
  ELSE Stabilized(v, << stable >>, leaks)

HasStable(v, b) == \E i \in DOMAIN v.stab : StableConst(v, i, b)
SettledTrue(v) == is_fully_stable(v) \/ HasStable(v, TRUE)

logic_not(a) == Predicate(Compute(FLogicNot, << a >>), SettledTrue(a), reduce(a.ls))
logic_and(a, b) == Predicate(Compute(FLogicAnd, << a, b >>),
                             SettledTrue(a) /\ SettledTrue(b),
                             reduce_and_merge(a.ls, b.ls))
logic_or(a, b) == Predicate(Compute(FLogicOr, << a, b >>),
                            \/ is_fully_stable(a) /\ is_fully_stable(b)
                            \/ HasStable(a, TRUE) \/ HasStable(b, TRUE),
                            reduce_and_merge(a.ls, b.ls))
reduce_and(a) == Predicate(Compute(FReduceAnd, << a >>),
                           is_fully_stable(a) \/ HasStable(a, FALSE), reduce(a.ls))
reduce_or(a) == Predicate(Compute(FReduceOr, << a >>), SettledTrue(a), reduce(a.ls))

\* reduce_xor, reduce_xnor, eq_ss, ne_ss, le_uu and le_ss accept no other operand
Concrete(v) == IsConst(v.node) /\ v.ls = NULL

\* A one-bit result without LeakSet
OneBit(F(_), vs, stable) == [Compute(F, vs) EXCEPT !.stab = << stable >>]
reduce_xor(a) == OneBit(FReduceXor, << a >>, is_fully_stable(a))
reduce_xnor(a) == LET F(ws) == FNot(<< FReduceXor(ws) >>)
                  IN OneBit(F, << a >>, is_fully_stable(a))

\* Two stable constant bits of the same rank that differ settle a comparison.
\* The extended words ea and eb are compared on data when both are constant,
\* else bit by bit with the stability of the words as they were.
Differ(a, b, ea, eb) ==
  IF IsConst(a.node) /\ IsConst(b.node)
  THEN \E i \in DOMAIN ea.stab : ea.stab[i] /\ eb.stab[i] /\ ea.data[i] # eb.data[i]
  ELSE \E i \in DOMAIN a.stab \cap DOMAIN b.stab :
         /\ a.stab[i] /\ b.stab[i]
         /\ IsConstBit(a.node[i]) /\ IsConstBit(b.node[i]) /\ a.node[i] # b.node[i]
BothStable(a, b) == is_fully_stable(a) /\ is_fully_stable(b)
BitsExt(a, b) == IF Width(a) > Width(b) THEN Width(a) ELSE Width(b)

Unsigned(F(_), a, b) == Compute(F, << zext(a, BitsExt(a, b)), zext(b, BitsExt(a, b)) >>)
Settled(a, b) == \/ BothStable(a, b)
                 \/ Differ(a, b, zext(a, BitsExt(a, b)), zext(b, BitsExt(a, b)))
eq_uu(a, b) == Predicate(Unsigned(FEq, a, b), Settled(a, b), reduce_and_merge(a.ls, b.ls))
ne_uu(a, b) == Predicate(Unsigned(FNe, a, b), Settled(a, b), reduce_and_merge(a.ls, b.ls))
lt_uu(a, b) == Predicate(Unsigned(FLt, a, b), BothStable(a, b), reduce_and_merge(a.ls, b.ls))
gt_uu(a, b) == Predicate(Unsigned(FGt, a, b), BothStable(a, b), reduce_and_merge(a.ls, b.ls))
ge_uu(a, b) == bit_not(lt_uu(a, b))
le_uu(a, b) == LET F(ws) == FNot(<< FGt(ws) >>)
               IN [Unsigned(F, a, b) EXCEPT !.stab = << BothStable(a, b) >>]

\* Signed comparisons: FNode is the expression of the code, F its data.  Two
\* constant operands make a constant of the data.
Signed(F(_), FNode(_), a, b) ==
  LET vs == << sext(a, BitsExt(a, b)), sext(b, BitsExt(a, b)) >>
  IN IF IsConst(a.node) /\ IsConst(b.node) THEN Compute(F, vs)
     ELSE [Compute(F, vs) EXCEPT !.node = Compute(FNode, vs).node]
lt_ss(a, b) == Predicate(Signed(FLtSigned, FLtSignedNode, a, b), BothStable(a, b),
                         reduce_and_merge(a.ls, b.ls))
gt_ss(a, b) == Predicate(Signed(FGtSigned, FGtSignedNode, a, b), BothStable(a, b),
                         reduce_and_merge(a.ls, b.ls))
ge_ss(a, b) == bit_not(lt_ss(a, b))

SignedConst(F(_), a, b, stable) == [Signed(F, F, a, b) EXCEPT !.stab = << stable >>]
SettledSigned(a, b) == \/ BothStable(a, b)
                       \/ Differ(a, b, sext(a, BitsExt(a, b)), sext(b, BitsExt(a, b)))
eq_ss(a, b) == SignedConst(FEq, a, b, SettledSigned(a, b))
ne_ss(a, b) == SignedConst(FNe, a, b, SettledSigned(a, b))
le_ss(a, b) == LET F(ws) == FNot(<< FGtSigned(ws) >>)
               IN SignedConst(F, a, b, BothStable(a, b))

(***************************************************************************)
(* symb_mux: the branch is chosen by the concrete selector; a symbolic     *)
(* selector keeps both branches in the expression.                         *)
(***************************************************************************)
\* Mutant of MuxNode: the branches are swapped
MuxNodeSwapped(sel, b, c) ==
  IF IsConst(sel.node) THEN (IF sel.data[1] THEN c.node ELSE b.node)
  ELSE Lift(FMux, << sel.node, c.node, b.node >>)

MuxNode(sel, b, c) ==
  IF IsConst(sel.node) THEN (IF sel.data[1] THEN b.node ELSE c.node)
  ELSE Lift(FMux, << sel.node, b.node, c.node >>)

MuxLeaks(sel, b, c, node) ==
  LET selected == IF sel.data[1] THEN b.ls ELSE c.ls
      widened  == replicate(sel.ls, Width(b))
  IN IF sel.ls # NULL /\ IsConst(node)
     THEN merge(widened, IF sel.stab[1] THEN selected ELSE merge(b.ls, c.ls))
     ELSE IF ~IsConst(sel.node) \/ ~sel.stab[1] THEN merge(b.ls, c.ls)
     ELSE selected

\* Under an unstable selector a bit is stable when both branches agree on it
Agreeing(b, c) ==
  [i \in DOMAIN b.stab |->
     /\ b.stab[i] /\ c.stab[i]
     /\ IF IsConst(b.node) /\ IsConst(c.node) THEN b.data[i] = c.data[i]
        ELSE b.node[i] = c.node[i]]

symb_mux(sel, b, c) ==
  LET chosen == IF sel.data[1] THEN b ELSE c
      node   == MuxNode(sel, b, c)
      res    == [chosen EXCEPT !.node = node, !.ls = MuxLeaks(sel, b, c, node)]
  IN IF sel.stab[1] THEN res ELSE Stabilized(res, Agreeing(b, c), res.ls)

(***************************************************************************)
(* wire::commit: a bit is stable in the next cycle when the register loads *)
(* the expression it already holds; it shows the old and the new one.      *)
(***************************************************************************)
CommitStability(curr, next) ==
  IF IsConst(curr.node) /\ IsConst(next.node)
  THEN [i \in DOMAIN curr.data |-> curr.data[i] = next.data[i]]
  ELSE [i \in DOMAIN curr.node |-> curr.node[i] = next.node[i]]

committed(curr, next) ==
  [next EXCEPT !.stab = CommitStability(curr, next),
               !.ls = merge(reg_stabilize(curr.node), reg_stabilize(next.node))]
=============================================================================
