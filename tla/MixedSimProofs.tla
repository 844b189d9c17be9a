---------------------------- MODULE MixedSimProofs ----------------------------
(***************************************************************************)
(* In circuits the mixed domain supports, for any number of symbolic       *)
(* inputs, registers and cells and words of any width: a stable bit has    *)
(* one expression and leaks nothing else, every glitch is in a LeakSet,    *)
(* and the concrete bits are the expressions in the valuation of the       *)
(* simulation.  What is not Supported is what the runs MixedSimSelector    *)
(* and MixedSimSigned show to be wrong.                                    *)
(***************************************************************************)
EXTENDS MixedSim, SequenceTheorems, TLAPS

-----------------------------------------------------------------------------
(* Words, nodes and LeakSets of a width                                    *)

Bools(w) == [1 .. w -> BOOLEAN]
Nodes(w) == [1 .. w -> SUBSET Env]
Leaks(w) == [1 .. w -> SUBSET SUBSET Env]
LeakSets(w) == Leaks(w) \union {NULL}
Values(w) == [data : Bools(w), node : Nodes(w), stab : Bools(w), ls : LeakSets(w)]

\* The words of a width are sequences.
LEMMA Sequences1 ==
  ASSUME NEW w \in Nat, NEW S, NEW f \in [1 .. w -> S]
  PROVE  f \in Seq(S) /\ Len(f) = w /\ DOMAIN f = 1 .. w
  OBVIOUS

LEMMA LeaksReal == ASSUME NEW w \in Nat, NEW ls \in Leaks(w) PROVE ls # NULL
  BY NullAssumption, Sequences1 DEF Leaks

LEMMA ValueParts ==
  ASSUME NEW w \in Nat, NEW v \in Values(w)
  PROVE  /\ Width(v) = w
         /\ v.data \in Bools(w) /\ DOMAIN v.data = 1 .. w /\ Len(v.data) = w
         /\ v.node \in Nodes(w) /\ DOMAIN v.node = 1 .. w /\ Len(v.node) = w
         /\ v.stab \in Bools(w) /\ DOMAIN v.stab = 1 .. w /\ Len(v.stab) = w
         /\ v.ls \in LeakSets(w)
  BY Sequences1 DEF Values, Width, Bools, Nodes

\* What bit i of a LeakSet shows.
LEMMA AtLeaks ==
  ASSUME NEW w \in Nat, NEW ls \in LeakSets(w), NEW i \in 1 .. w
  PROVE  At(ls, i) \in SUBSET SUBSET Env
  BY DEF At, LeakSets, Leaks

\* A LeakSet of constants only is given as NULL: no non constant is lost.
LEMMA OrNullKeeps ==
  ASSUME NEW w \in Nat, NEW ls \in Leaks(w), NEW i \in 1 .. w
  PROVE  /\ OrNull(ls) \in LeakSets(w)
         /\ At(OrNull(ls), i) \subseteq ls[i]
         /\ \A g \in ls[i] : ~IsConstBit(g) => g \in At(OrNull(ls), i)
  <1>1. ls # NULL /\ DOMAIN ls = 1 .. w
    BY LeaksReal, Sequences1 DEF Leaks
  <1>2. CASE is_ls_real(ls)
    BY <1>1, <1>2 DEF OrNull, At, LeakSets
  <1>3. CASE ~is_ls_real(ls)
    BY <1>1, <1>3 DEF OrNull, At, LeakSets, is_ls_real
  <1> QED BY <1>2, <1>3

\* No expression of s separates the valuations d and e.
Same(d, e, s) == \A g \in s : d \in g <=> e \in g

\* Constants separate nothing.
LEMMA SameConst ==
  ASSUME NEW d \in Env, NEW e \in Env, NEW s, NEW t,
         \A g \in t : g \in s \/ IsConstBit(g), Same(d, e, s)
  PROVE  Same(d, e, t)
  BY DEF Same, IsConstBit

LEMMA SameOrNull ==
  ASSUME NEW w \in Nat, NEW ls \in Leaks(w), NEW i \in 1 .. w, NEW d \in Env, NEW e \in Env,
         Same(d, e, At(OrNull(ls), i))
  PROVE  Same(d, e, ls[i])
  BY OrNullKeeps, SameConst

LEMMA OwnIs ==
  ASSUME NEW f \in SUBSET Env
  PROVE  /\ Own(f) \in SUBSET SUBSET Env
         /\ \A d, e \in Env : Same(d, e, Own(f)) <=> (d \in f <=> e \in f)
  BY DEF Own, IsConstBit, Same

LEMMA PartialKeeps ==
  ASSUME NEW w \in Nat, NEW ls \in LeakSets(w), NEW node \in Nodes(w), NEW stab \in Bools(w)
  PROVE  /\ partial_stabilize(ls, node, stab) \in LeakSets(w)
         /\ \A i \in 1 .. w : stab[i] => At(partial_stabilize(ls, node, stab), i) = Own(node[i])
         /\ \A i \in 1 .. w : \A d, e \in Env :
              ~stab[i] /\ Same(d, e, At(partial_stabilize(ls, node, stab), i)) => Same(d, e, At(ls, i))
  <1> DEFINE raw == [i \in 1 .. w |-> IF stab[i] THEN Own(node[i]) ELSE At(ls, i)]
  <1>1. raw \in Leaks(w)
    <2>1. \A i \in 1 .. w : At(ls, i) \in SUBSET SUBSET Env /\ Own(node[i]) \in SUBSET SUBSET Env
      BY AtLeaks, OwnIs DEF Nodes
    <2> QED BY <2>1 DEF Leaks
  <1>2. partial_stabilize(ls, node, stab) = OrNull(raw)
    BY Sequences1 DEF partial_stabilize, Nodes
  <1>3. ASSUME NEW i \in 1 .. w, stab[i] PROVE At(OrNull(raw), i) = Own(node[i])
    <2>1. raw[i] = Own(node[i])
      BY <1>3
    <2>2. \A g \in Own(node[i]) : ~IsConstBit(g)
      BY DEF Own
    <2> HIDE DEF raw
    <2> QED BY <1>1, <2>1, <2>2, OrNullKeeps
  <1>4. ASSUME NEW i \in 1 .. w, ~stab[i] PROVE raw[i] = At(ls, i)
    BY <1>4
  <1> HIDE DEF raw
  <1>5. OrNull(raw) \in LeakSets(w)
    <2>1. raw # NULL
      BY <1>1, LeaksReal
    <2> QED BY <1>1 DEF OrNull, LeakSets
  <1>6. ASSUME NEW i \in 1 .. w, NEW d \in Env, NEW e \in Env, ~stab[i], Same(d, e, At(OrNull(raw), i))
        PROVE  Same(d, e, At(ls, i))
    BY <1>1, <1>4, <1>6, SameOrNull
  <1> QED BY <1>2, <1>3, <1>5, <1>6

-----------------------------------------------------------------------------
(* Sound values and what may be seen of them                               *)

\* A stable bit leaks its own expression and nothing else.
Pure(v) == \A i \in DOMAIN v.node : v.stab[i] => At(v.ls, i) = Own(v.node[i])
\* The concrete bits are the expressions in Env0.
Agrees(v) == \A i \in DOMAIN v.node : v.data[i] = (Env0 \in v.node[i])
\* An expression can be computed from the leaks of its bit.
Told(v) ==
  \A i \in DOMAIN v.node : \A d, e \in Env :
    Same(d, e, At(v.ls, i)) => (d \in v.node[i] <=> e \in v.node[i])
Good(v, w) == v \in Values(w) /\ Pure(v) /\ Agrees(v) /\ Told(v)

\* A sight of a wire gives the word an observer sees in every valuation.  The
\* stable bits are those of the expression, the others are told by the leaks.
Sights1(w) == [Env -> Bools(w)]
OwnSight(v) == [e \in Env |-> Word(v.node, e)]
Sighted(v, X) ==
  /\ X \in Sights1(Width(v))
  /\ \A i \in DOMAIN v.node : \A e \in Env : v.stab[i] => X[e][i] = (e \in v.node[i])
  /\ \A i \in DOMAIN v.node : \A d, e \in Env : Same(d, e, At(v.ls, i)) => X[d][i] = X[e][i]

LEMMA OwnWord ==
  ASSUME NEW w \in Nat, NEW v \in Values(w)
  PROVE  /\ OwnSight(v) \in Sights1(w)
         /\ \A e \in Env : \A i \in 1 .. w : OwnSight(v)[e][i] = (e \in v.node[i])
  BY ValueParts DEF OwnSight, Word, Sights1, Bools

LEMMA OwnSighted ==
  ASSUME NEW w \in Nat, NEW v, Good(v, w)
  PROVE  Sighted(v, OwnSight(v))
  BY OwnWord, ValueParts DEF Good, Told, Sighted

LEMMA SightParts ==
  ASSUME NEW w \in Nat, NEW v, Good(v, w), NEW X, Sighted(v, X)
  PROVE  /\ X \in Sights1(w)
         /\ \A e \in Env : X[e] \in Bools(w) /\ DOMAIN X[e] = 1 .. w
         /\ \A i \in 1 .. w : \A e \in Env : v.stab[i] => X[e][i] = (e \in v.node[i])
         /\ \A i \in 1 .. w : \A d, e \in Env : Same(d, e, At(v.ls, i)) => X[d][i] = X[e][i]
  BY SMTT(30), ValueParts DEF Good, Sighted, Sights1, Bools

\* The concrete word is the own sight in Env0.
LEMMA ConcreteWord ==
  ASSUME NEW w \in Nat, NEW v, Good(v, w)
  PROVE  v.data = OwnSight(v)[Env0] /\ Env0 \in Env
  <1>1. v.data \in Bools(w) /\ OwnSight(v)[Env0] \in Bools(w) /\ Env0 \in Env
    BY BoundAssumption, OwnWord, ValueParts DEF Good, Sights1
  <1>2. \A i \in 1 .. w : v.data[i] = OwnSight(v)[Env0][i]
    BY <1>1, OwnWord, ValueParts DEF Good, Agrees
  <1> QED BY <1>1, <1>2 DEF Bools

LEMMA NodeOfTable ==
  ASSUME NEW w \in Nat, NEW at \in Sights1(w)
  PROVE  /\ NodeOf(at) \in Nodes(w) /\ DOMAIN NodeOf(at) = 1 .. w
         /\ \A e \in Env : \A i \in 1 .. w : e \in NodeOf(at)[i] <=> at[e][i]
  <1>1. (CHOOSE e \in Env : TRUE) \in Env
    BY BoundAssumption
  <1>2. DOMAIN at[CHOOSE e \in Env : TRUE] = 1 .. w
    BY <1>1 DEF Sights1, Bools
  <1>3. NodeOf(at) = [i \in 1 .. w |-> {e \in Env : at[e][i]}]
    BY <1>2 DEF NodeOf
  <1> QED BY <1>3 DEF Nodes, Sights1, Bools

-----------------------------------------------------------------------------
(* The values the operations make                                          *)

\* The value whose word in every valuation is at, in Env0 the concrete one.
Made(at, stab, leaks) ==
  [data |-> at[Env0], node |-> NodeOf(at), stab |-> stab,
   ls |-> partial_stabilize(leaks, NodeOf(at), stab)]

\* What Z shows of a result at: nothing but at where it is declared stable, and
\* what the leaks tell elsewhere.
Fits(Z, at, stab, leaks, w) ==
  /\ Z \in Sights1(w)
  /\ \A i \in 1 .. w : \A e \in Env : stab[i] => Z[e][i] = at[e][i]
  /\ \A i \in 1 .. w : \A d, e \in Env : ~stab[i] /\ Same(d, e, At(leaks, i)) => Z[d][i] = Z[e][i]

LEMMA MadeSound ==
  ASSUME NEW w \in Nat, NEW at, NEW stab \in Bools(w), NEW leaks \in LeakSets(w),
         Fits(at, at, stab, leaks, w)
  PROVE  /\ Good(Made(at, stab, leaks), w)
         /\ OwnSight(Made(at, stab, leaks)) = at
         /\ \A Z : Fits(Z, at, stab, leaks, w) => Sighted(Made(at, stab, leaks), Z)
  <1> DEFINE V == Made(at, stab, leaks)
             node == NodeOf(at)
             ls == partial_stabilize(leaks, node, stab)
  <1>1. at \in Sights1(w) /\ Env0 \in Env
    BY BoundAssumption DEF Fits
  <1>2. V.data = at[Env0] /\ V.node = node /\ V.stab = stab /\ V.ls = ls
    BY DEF Made
  <1>3. /\ node \in Nodes(w) /\ DOMAIN node = 1 .. w
        /\ \A e \in Env : \A i \in 1 .. w : e \in node[i] <=> at[e][i]
    BY <1>1, NodeOfTable
  <1> HIDE DEF node
  <1>4. /\ ls \in LeakSets(w)
        /\ \A i \in 1 .. w : stab[i] => At(ls, i) = Own(node[i])
        /\ \A i \in 1 .. w : \A d, e \in Env :
             ~stab[i] /\ Same(d, e, At(ls, i)) => Same(d, e, At(leaks, i))
    BY <1>3, PartialKeeps
  <1>5. V \in Values(w)
    BY <1>1, <1>3, <1>4 DEF Made, Values, Sights1, node
  <1> HIDE DEF V, ls
  <1>6. ASSUME NEW i \in 1 .. w, NEW e \in Env PROVE at[e][i] = (e \in node[i])
    <2>1. at[e][i] \in BOOLEAN
      BY <1>1 DEF Sights1, Bools
    <2> QED BY <1>3, <2>1
  <1>7. ASSUME NEW Z, Fits(Z, at, stab, leaks, w) PROVE Sighted(V, Z)
    <2>1. Z \in Sights1(Width(V))
      BY <1>5, <1>7, ValueParts DEF Fits
    <2>2. \A i \in 1 .. w : \A e \in Env : stab[i] => Z[e][i] = (e \in node[i])
      BY <1>6, <1>7 DEF Fits
    <2>3. ASSUME NEW i \in 1 .. w, NEW d \in Env, NEW e \in Env, Same(d, e, At(ls, i))
          PROVE  Z[d][i] = Z[e][i]
      <3>1. CASE stab[i]
        <4>1. node[i] \in SUBSET Env
          BY <1>3 DEF Nodes
        <4>2. d \in node[i] <=> e \in node[i]
          BY <1>4, <2>3, <3>1, <4>1, OwnIs
        <4> QED BY <2>2, <3>1, <4>2
      <3>2. CASE ~stab[i]
        BY <1>4, <1>7, <2>3, <3>2 DEF Fits
      <3> QED BY <3>1, <3>2
    <2> QED BY <1>2, <1>3, <2>1, <2>2, <2>3 DEF Sighted
  <1>8. OwnSight(V) = at
    <2>1. OwnSight(V) \in Sights1(w) /\ \A e \in Env : \A i \in 1 .. w : OwnSight(V)[e][i] = at[e][i]
      BY <1>2, <1>5, <1>6, OwnWord
    <2> QED BY <1>1, <2>1 DEF Sights1, Bools
  <1>9. Pure(V) /\ Agrees(V)
    BY <1>1, <1>2, <1>3, <1>4, <1>6 DEF Pure, Agrees
  <1>10. Told(V)
    <2>1. Sighted(V, at)
      BY <1>7
    <2> QED BY <1>2, <1>3, <1>6, <2>1 DEF Sighted, Told
  <1> QED BY <1>5, <1>7, <1>8, <1>9, <1>10 DEF Good, V

\* A word function as a table, so that lemmas can speak of any of them
Functions1(w, n) == [Bools(w) -> Bools(n)]
Functions2(w, u, n) == [Bools(w) -> [Bools(u) -> Bools(n)]]
Functions3(w, u, t, n) == [Bools(w) -> [Bools(u) -> [Bools(t) -> Bools(n)]]]
Table1(F(_), w) == [x \in Bools(w) |-> F(<< x >>)]
Table2(F(_), w, u) == [x \in Bools(w) |-> [y \in Bools(u) |-> F(<< x, y >>)]]

\* f applied to what is seen of one, two or three words
Through1(f, X) == [e \in Env |-> f[X[e]]]
Through2(f, X, Y) == [e \in Env |-> f[X[e]][Y[e]]]
Through3(f, X, Y, Z) == [e \in Env |-> f[X[e]][Y[e]][Z[e]]]

LEMMA ThroughTypes ==
  ASSUME NEW w \in Nat, NEW u \in Nat, NEW n \in Nat, NEW X \in Sights1(w), NEW Y \in Sights1(u)
  PROVE  /\ \A f \in Functions1(w, n) : Through1(f, X) \in Sights1(n)
         /\ \A f \in Functions2(w, u, n) : Through2(f, X, Y) \in Sights1(n)
  BY DEF Through1, Through2, Functions1, Functions2, Sights1

\* V is f of the operands: its expression is, and whatever is seen of the
\* operands, what is seen of f is accounted for.
Sound1(V, n, f, a) ==
  /\ Good(V, n) /\ OwnSight(V) = Through1(f, OwnSight(a))
  /\ \A X : Sighted(a, X) => Sighted(V, Through1(f, X))
Sound2(V, n, f, a, b) ==
  /\ Good(V, n) /\ OwnSight(V) = Through2(f, OwnSight(a), OwnSight(b))
  /\ \A X, Y : Sighted(a, X) /\ Sighted(b, Y) => Sighted(V, Through2(f, X, Y))
Sound3(V, n, f, a, b, c) ==
  /\ Good(V, n) /\ OwnSight(V) = Through3(f, OwnSight(a), OwnSight(b), OwnSight(c))
  /\ \A X, Y, Z : Sighted(a, X) /\ Sighted(b, Y) /\ Sighted(c, Z) => Sighted(V, Through3(f, X, Y, Z))

LEMMA MadeSound1 ==
  ASSUME NEW w \in Nat, NEW n \in Nat, NEW a, Good(a, w), NEW f,
         NEW stab \in Bools(n), NEW leaks \in LeakSets(n), NEW at, at = Through1(f, OwnSight(a)),
         \A X : Sighted(a, X) => Fits(Through1(f, X), at, stab, leaks, n)
  PROVE  Sound1(Made(at, stab, leaks), n, f, a)
  <1>1. Fits(at, at, stab, leaks, n)
    BY OwnSighted
  <1> QED BY <1>1, MadeSound DEF Sound1

LEMMA MadeSound2 ==
  ASSUME NEW w \in Nat, NEW u \in Nat, NEW n \in Nat, NEW a, Good(a, w), NEW b, Good(b, u), NEW f,
         NEW stab \in Bools(n), NEW leaks \in LeakSets(n),
         NEW at, at = Through2(f, OwnSight(a), OwnSight(b)),
         \A X, Y : Sighted(a, X) /\ Sighted(b, Y) => Fits(Through2(f, X, Y), at, stab, leaks, n)
  PROVE  Sound2(Made(at, stab, leaks), n, f, a, b)
  <1>1. Fits(at, at, stab, leaks, n)
    BY OwnSighted
  <1> QED BY <1>1, MadeSound DEF Sound2

\* A result before its stability and leaks are known
Fresh(at) ==
  [data |-> at[Env0], node |-> NodeOf(at), stab |-> AllBits(Len(at[Env0]), FALSE), ls |-> NULL]

LEMMA StabilizedFresh ==
  ASSUME NEW at, NEW stab, NEW leaks
  PROVE  Stabilized(Fresh(at), stab, leaks) = Made(at, stab, leaks)
  <1> DEFINE node == NodeOf(at)
             ls == partial_stabilize(leaks, node, stab)
  <1>1. Fresh(at).node = node
    BY DEF Fresh
  <1>2. Stabilized(Fresh(at), stab, leaks) = [Fresh(at) EXCEPT !.stab = stab, !.ls = ls]
    BY <1>1 DEF Stabilized
  <1>3. Made(at, stab, leaks) = [data |-> at[Env0], node |-> node, stab |-> stab, ls |-> ls]
    BY DEF Made
  <1>4. Fresh(at) = [data |-> at[Env0], node |-> node, stab |-> AllBits(Len(at[Env0]), FALSE), ls |-> NULL]
    BY DEF Fresh
  <1> HIDE DEF node, ls
  <1>5. Stabilized(Fresh(at), stab, leaks) = [[Fresh(at) EXCEPT !.stab = stab] EXCEPT !.ls = ls]
    BY <1>2, Zenon
  <1>6. [Fresh(at) EXCEPT !.stab = stab] = [data |-> at[Env0], node |-> node, stab |-> stab, ls |-> NULL]
    BY <1>4
  <1> QED BY <1>3, <1>5, <1>6

\* The concrete words and the words in a valuation a cell is computed from
LEMMA Operands1 ==
  ASSUME NEW w \in Nat, NEW a, Good(a, w)
  PROVE  /\ OwnSight(a) \in Sights1(w) /\ Env0 \in Env
         /\ DataOf(<< a >>) = << OwnSight(a)[Env0] >>
         /\ \A e \in Env : WordsAt(NodesOf(<< a >>), e) = << OwnSight(a)[e] >>
  <1>1. DataOf(<< a >>) = << a.data >>
    BY DEF DataOf
  <1>2. NodesOf(<< a >>) = << a.node >>
    BY DEF NodesOf
  <1>3. \A e \in Env : WordsAt(<< a.node >>, e) = << OwnSight(a)[e] >>
    BY DEF WordsAt, OwnSight
  <1> QED BY <1>1, <1>2, <1>3, ConcreteWord, OwnWord DEF Good

LEMMA Operands2 ==
  ASSUME NEW w \in Nat, NEW u \in Nat, NEW a, Good(a, w), NEW b, Good(b, u)
  PROVE  /\ OwnSight(a) \in Sights1(w) /\ OwnSight(b) \in Sights1(u) /\ Env0 \in Env
         /\ DataOf(<< a, b >>) = << OwnSight(a)[Env0], OwnSight(b)[Env0] >>
         /\ \A e \in Env : WordsAt(NodesOf(<< a, b >>), e)
                            = << OwnSight(a)[e], OwnSight(b)[e] >>
  <1>1. DataOf(<< a, b >>) = << a.data, b.data >>
    BY DEF DataOf
  <1>2. NodesOf(<< a, b >>) = << a.node, b.node >>
    BY DEF NodesOf
  <1>3. \A e \in Env : WordsAt(<< a.node, b.node >>, e) = << OwnSight(a)[e], OwnSight(b)[e] >>
    BY DEF WordsAt, OwnSight
  <1> QED BY <1>1, <1>2, <1>3, ConcreteWord, OwnWord DEF Good

-----------------------------------------------------------------------------
(* What the leaks of an operation tell                                     *)

LEMMA SameUnion ==
  ASSUME NEW d, NEW e, NEW s, NEW t
  PROVE  Same(d, e, s \union t) <=> Same(d, e, s) /\ Same(d, e, t)
  BY DEF Same

LEMMA MergeAt ==
  ASSUME NEW w \in Nat, NEW p \in LeakSets(w), NEW q \in LeakSets(w)
  PROVE  /\ merge(p, q) \in LeakSets(w)
         /\ \A i \in 1 .. w : At(merge(p, q), i) = At(p, i) \union At(q, i)
  <1> DEFINE m == [i \in 1 .. w |-> At(p, i) \union At(q, i)]
  <1>1. m \in Leaks(w) /\ m # NULL
    <2>1. m \in Leaks(w)
      BY AtLeaks DEF Leaks
    <2> QED BY <2>1, LeaksReal
  <1>2. CASE p = NULL /\ q = NULL
    BY <1>2 DEF merge, At, LeakSets
  <1>3. CASE ~(p = NULL /\ q = NULL)
    <2>1. SizeOf(p, q) = w
      BY <1>3, Sequences1 DEF SizeOf, LeakSets, Leaks
    <2>2. merge(p, q) = m
      BY <1>3, <2>1 DEF merge
    <2>3. \A i \in 1 .. w : m[i] = At(p, i) \union At(q, i)
      OBVIOUS
    <2> HIDE DEF m
    <2> QED BY <1>1, <2>2, <2>3 DEF At, LeakSets
  <1> QED BY <1>2, <1>3

LEMMA FlattenType ==
  ASSUME NEW w \in Nat, NEW ls \in LeakSets(w)
  PROVE  flatten(ls) \in SUBSET SUBSET Env
  BY Sequences1 DEF flatten, LeakSets, Leaks

LEMMA MixAt ==
  ASSUME NEW w \in Nat, NEW p \in LeakSets(w), NEW q \in LeakSets(w)
  PROVE  /\ mix(p, q) \in LeakSets(w)
         /\ \A i \in 1 .. w : At(mix(p, q), i) = flatten(p) \union flatten(q)
  <1> DEFINE m == [i \in 1 .. w |-> flatten(p) \union flatten(q)]
  <1>1. m \in Leaks(w) /\ m # NULL
    <2>1. m \in Leaks(w)
      BY FlattenType DEF Leaks
    <2> QED BY <2>1, LeaksReal
  <1>2. CASE p = NULL /\ q = NULL
    BY <1>2 DEF mix, At, flatten, LeakSets
  <1>3. CASE ~(p = NULL /\ q = NULL)
    <2>1. SizeOf(p, q) = w
      BY <1>3, Sequences1 DEF SizeOf, LeakSets, Leaks
    <2>2. mix(p, q) = m
      BY <1>3, <2>1 DEF mix
    <2>3. \A i \in 1 .. w : m[i] = flatten(p) \union flatten(q)
      OBVIOUS
    <2> HIDE DEF m
    <2> QED BY <1>1, <2>2, <2>3 DEF At, LeakSets
  <1> QED BY <1>2, <1>3

-----------------------------------------------------------------------------
(* Bitwise operations                                                      *)

LEMMA ConstantSeen ==
  ASSUME NEW w \in Nat, NEW v, Good(v, w), NEW i \in 1 .. w, NEW X, Sighted(v, X), NEW e \in Env
  PROVE  /\ StableConst(v, i, FALSE) => ~X[e][i]
         /\ StableConst(v, i, TRUE) => X[e][i]
  <1>1. /\ v.node[i] \in SUBSET Env /\ v.data[i] = (Env0 \in v.node[i]) /\ Env0 \in Env
        /\ IsConst(v.node) => IsConstBit(v.node[i])
    BY BoundAssumption, ValueParts DEF Good, Agrees, Nodes, IsConst
  <1>2. v.stab[i] => X[e][i] = (e \in v.node[i])
    BY SightParts
  <1>3. ASSUME StableConst(v, i, FALSE) PROVE ~X[e][i]
    <2>1. v.stab[i] /\ IF IsConst(v.node) THEN v.data[i] = FALSE ELSE v.node[i] = BitConst(FALSE)
      BY <1>3 DEF StableConst
    <2>2. e \notin v.node[i]
      <3>1. CASE IsConst(v.node)
        <4>1. Env0 \notin v.node[i]
          BY <1>1, <2>1, <3>1
        <4> QED BY <1>1, <3>1, <4>1 DEF IsConstBit
      <3>2. CASE ~IsConst(v.node)
        BY <2>1, <3>2 DEF BitConst
      <3> QED BY <3>1, <3>2
    <2> QED BY <1>2, <2>1, <2>2
  <1>4. ASSUME StableConst(v, i, TRUE) PROVE X[e][i]
    <2>1. v.stab[i] /\ IF IsConst(v.node) THEN v.data[i] = TRUE ELSE v.node[i] = BitConst(TRUE)
      BY <1>4 DEF StableConst
    <2>2. e \in v.node[i]
      <3>1. CASE IsConst(v.node)
        <4>1. Env0 \in v.node[i]
          BY <1>1, <2>1, <3>1
        <4> QED BY <1>1, <3>1, <4>1 DEF IsConstBit
      <3>2. CASE ~IsConst(v.node)
        BY <2>1, <3>2 DEF BitConst
      <3> QED BY <3>1, <3>2
    <2> QED BY <1>2, <2>1, <2>2
  <1> QED BY <1>3, <1>4

LEMMA NotSound ==
  ASSUME NEW w \in Nat, NEW a, Good(a, w)
  PROVE  Sound1(bit_not(a), w, Table1(FNot, w), a)
  <1> DEFINE f == Table1(FNot, w)
             at == Through1(f, OwnSight(a))
  <1>1. Compute(FNot, << a >>) = Fresh(at)
    <2>1. FNot(DataOf(<< a >>)) = at[Env0]
      BY Operands1 DEF Through1, Table1, Sights1
    <2>2. [e \in Env |-> FNot(WordsAt(NodesOf(<< a >>), e))] = at
      BY Operands1 DEF Through1, Table1, Sights1
    <2> QED BY <2>1, <2>2 DEF Compute, Lift, Fresh
  <1>2. bit_not(a) = Made(at, a.stab, a.ls)
    BY <1>1, StabilizedFresh DEF bit_not
  <1>3. a.stab \in Bools(w) /\ a.ls \in LeakSets(w)
    BY ValueParts DEF Good
  <1>4. ASSUME NEW X, X \in Sights1(w)
        PROVE  /\ Through1(f, X) \in Sights1(w)
               /\ \A e \in Env : \A i \in 1 .. w : Through1(f, X)[e][i] = ~X[e][i]
    BY <1>4 DEF Through1, Table1, FNot, Sights1, Bools
  <1> HIDE DEF f
  <1>5. ASSUME NEW X, Sighted(a, X) PROVE Fits(Through1(f, X), at, a.stab, a.ls, w)
    <2>1. X \in Sights1(w) /\ OwnSight(a) \in Sights1(w)
      BY <1>5, OwnSighted, SightParts
    <2> QED BY SMTT(30), <1>4, <1>5, <2>1, OwnSighted, SightParts DEF Fits
  <1> HIDE DEF at
  <1>6. at = Through1(f, OwnSight(a))
    BY DEF at
  <1>7. Sound1(Made(at, a.stab, a.ls), w, f, a)
    BY <1>3, <1>5, <1>6, MadeSound1
  <1> QED BY <1>2, <1>7 DEF f

LEMMA AndSound ==
  ASSUME NEW w \in Nat, NEW a, Good(a, w), NEW b, Good(b, w)
  PROVE  Sound2(bit_and(a, b), w, Table2(FAnd, w, w), a, b)
  <1> DEFINE f == Table2(FAnd, w, w)
             at == Through2(f, OwnSight(a), OwnSight(b))
             stab == Absorbed(a, b, FALSE)
             leaks == merge(a.ls, b.ls)
  <1>1. Compute(FAnd, << a, b >>) = Fresh(at)
    <2>1. FAnd(DataOf(<< a, b >>)) = at[Env0]
      BY Operands2 DEF Through2, Table2, Sights1
    <2>2. at = [e \in Env |-> FAnd(<< OwnSight(a)[e], OwnSight(b)[e] >>)]
      BY Operands2 DEF Through2, Table2, Sights1
    <2>3. \A e \in Env : WordsAt(NodesOf(<< a, b >>), e) = << OwnSight(a)[e], OwnSight(b)[e] >>
      BY Operands2
    <2> HIDE DEF at
    <2>4. [e \in Env |-> FAnd(WordsAt(NodesOf(<< a, b >>), e))] = at
      BY <2>2, <2>3
    <2> QED BY <2>1, <2>4 DEF Compute, Lift, Fresh
  <1>2. bit_and(a, b) = Made(at, stab, leaks)
    BY <1>1, StabilizedFresh DEF bit_and
  <1>3. /\ DOMAIN a.stab = 1 .. w /\ a.stab \in Bools(w) /\ b.stab \in Bools(w)
        /\ leaks \in LeakSets(w) /\ \A i \in 1 .. w : At(leaks, i) = At(a.ls, i) \union At(b.ls, i)
    BY ValueParts, MergeAt DEF Good
  <1>4. /\ stab \in Bools(w)
        /\ \A i \in 1 .. w : stab[i] <=> \/ a.stab[i] /\ b.stab[i]
                                         \/ StableConst(a, i, FALSE) \/ StableConst(b, i, FALSE)
    BY <1>3 DEF Absorbed, Bools, StableConst
  <1>5. ASSUME NEW X, NEW Y, X \in Sights1(w), Y \in Sights1(w)
        PROVE  /\ Through2(f, X, Y) \in Sights1(w)
               /\ \A e \in Env : \A i \in 1 .. w : Through2(f, X, Y)[e][i] = (X[e][i] /\ Y[e][i])
    BY <1>5 DEF Through2, Table2, FAnd, Sights1, Bools
  <1> HIDE DEF stab, leaks, f
  <1>6. ASSUME NEW X, NEW Y, Sighted(a, X), Sighted(b, Y)
        PROVE  Fits(Through2(f, X, Y), at, stab, leaks, w)
    <2> DEFINE Z == Through2(f, X, Y)
    <2>1. /\ Z \in Sights1(w) /\ \A e \in Env : \A i \in 1 .. w : Z[e][i] = (X[e][i] /\ Y[e][i])
          /\ \A e \in Env : \A i \in 1 .. w : at[e][i] = (OwnSight(a)[e][i] /\ OwnSight(b)[e][i])
      <3>1. /\ X \in Sights1(w) /\ OwnSight(a) \in Sights1(w)
            /\ Y \in Sights1(w) /\ OwnSight(b) \in Sights1(w)
        BY <1>6, OwnSighted, SightParts
      <3> QED BY <1>5, <3>1
    <2> HIDE DEF Z, at
    <2>2. ASSUME NEW i \in 1 .. w, NEW e \in Env, stab[i] PROVE Z[e][i] = at[e][i]
      <3>1. CASE a.stab[i] /\ b.stab[i]
        BY <1>6, <2>1, <3>1, OwnSighted, SightParts
      <3>2. CASE StableConst(a, i, FALSE)
        <4>1. ~X[e][i] /\ ~OwnSight(a)[e][i]
          BY <1>6, <3>2, ConstantSeen, OwnSighted
        <4> QED BY <2>1, <4>1
      <3>3. CASE StableConst(b, i, FALSE)
        <4>1. ~Y[e][i] /\ ~OwnSight(b)[e][i]
          BY <1>6, <3>3, ConstantSeen, OwnSighted
        <4> QED BY <2>1, <4>1
      <3> QED BY <1>4, <2>2, <3>1, <3>2, <3>3
    <2>3. ASSUME NEW i \in 1 .. w, NEW d \in Env, NEW e \in Env, Same(d, e, At(leaks, i))
          PROVE  Z[d][i] = Z[e][i]
      BY <1>3, <1>6, <2>1, <2>3, SameUnion, SightParts
    <2> QED BY <2>1, <2>2, <2>3 DEF Fits, Z
  <1> HIDE DEF at
  <1>7. at = Through2(f, OwnSight(a), OwnSight(b))
    BY DEF at
  <1>8. Sound2(Made(at, stab, leaks), w, f, a, b)
    BY <1>3, <1>4, <1>6, <1>7, MadeSound2
  <1> QED BY <1>2, <1>8 DEF f, stab, leaks

LEMMA OrSound ==
  ASSUME NEW w \in Nat, NEW a, Good(a, w), NEW b, Good(b, w)
  PROVE  Sound2(bit_or(a, b), w, Table2(FOr, w, w), a, b)
  <1> DEFINE f == Table2(FOr, w, w)
             at == Through2(f, OwnSight(a), OwnSight(b))
             stab == Absorbed(a, b, TRUE)
             leaks == merge(a.ls, b.ls)
  <1>1. Compute(FOr, << a, b >>) = Fresh(at)
    <2>1. FOr(DataOf(<< a, b >>)) = at[Env0]
      BY Operands2 DEF Through2, Table2, Sights1
    <2>2. at = [e \in Env |-> FOr(<< OwnSight(a)[e], OwnSight(b)[e] >>)]
      BY Operands2 DEF Through2, Table2, Sights1
    <2>3. \A e \in Env : WordsAt(NodesOf(<< a, b >>), e) = << OwnSight(a)[e], OwnSight(b)[e] >>
      BY Operands2
    <2> HIDE DEF at
    <2>4. [e \in Env |-> FOr(WordsAt(NodesOf(<< a, b >>), e))] = at
      BY <2>2, <2>3
    <2> QED BY <2>1, <2>4 DEF Compute, Lift, Fresh
  <1>2. bit_or(a, b) = Made(at, stab, leaks)
    BY <1>1, StabilizedFresh DEF bit_or
  <1>3. /\ DOMAIN a.stab = 1 .. w /\ a.stab \in Bools(w) /\ b.stab \in Bools(w)
        /\ leaks \in LeakSets(w) /\ \A i \in 1 .. w : At(leaks, i) = At(a.ls, i) \union At(b.ls, i)
    BY ValueParts, MergeAt DEF Good
  <1>4. /\ stab \in Bools(w)
        /\ \A i \in 1 .. w : stab[i] <=> \/ a.stab[i] /\ b.stab[i]
                                         \/ StableConst(a, i, TRUE) \/ StableConst(b, i, TRUE)
    BY <1>3 DEF Absorbed, Bools, StableConst
  <1>5. ASSUME NEW X, NEW Y, X \in Sights1(w), Y \in Sights1(w)
        PROVE  /\ Through2(f, X, Y) \in Sights1(w)
               /\ \A e \in Env : \A i \in 1 .. w : Through2(f, X, Y)[e][i] = (X[e][i] \/ Y[e][i])
    BY <1>5 DEF Through2, Table2, FOr, Sights1, Bools
  <1> HIDE DEF stab, leaks, f
  <1>6. ASSUME NEW X, NEW Y, Sighted(a, X), Sighted(b, Y)
        PROVE  Fits(Through2(f, X, Y), at, stab, leaks, w)
    <2> DEFINE Z == Through2(f, X, Y)
    <2>1. /\ Z \in Sights1(w) /\ \A e \in Env : \A i \in 1 .. w : Z[e][i] = (X[e][i] \/ Y[e][i])
          /\ \A e \in Env : \A i \in 1 .. w : at[e][i] = (OwnSight(a)[e][i] \/ OwnSight(b)[e][i])
      <3>1. /\ X \in Sights1(w) /\ OwnSight(a) \in Sights1(w)
            /\ Y \in Sights1(w) /\ OwnSight(b) \in Sights1(w)
        BY <1>6, OwnSighted, SightParts
      <3> QED BY <1>5, <3>1
    <2> HIDE DEF Z, at
    <2>2. ASSUME NEW i \in 1 .. w, NEW e \in Env, stab[i] PROVE Z[e][i] = at[e][i]
      <3>1. CASE a.stab[i] /\ b.stab[i]
        BY <1>6, <2>1, <3>1, OwnSighted, SightParts
      <3>2. CASE StableConst(a, i, TRUE)
        <4>1. X[e][i] /\ OwnSight(a)[e][i]
          BY <1>6, <3>2, ConstantSeen, OwnSighted
        <4> QED BY <2>1, <4>1
      <3>3. CASE StableConst(b, i, TRUE)
        <4>1. Y[e][i] /\ OwnSight(b)[e][i]
          BY <1>6, <3>3, ConstantSeen, OwnSighted
        <4> QED BY <2>1, <4>1
      <3> QED BY <1>4, <2>2, <3>1, <3>2, <3>3
    <2>3. ASSUME NEW i \in 1 .. w, NEW d \in Env, NEW e \in Env, Same(d, e, At(leaks, i))
          PROVE  Z[d][i] = Z[e][i]
      BY <1>3, <1>6, <2>1, <2>3, SameUnion, SightParts
    <2> QED BY <2>1, <2>2, <2>3 DEF Fits, Z
  <1> HIDE DEF at
  <1>7. at = Through2(f, OwnSight(a), OwnSight(b))
    BY DEF at
  <1>8. Sound2(Made(at, stab, leaks), w, f, a, b)
    BY <1>3, <1>4, <1>6, <1>7, MadeSound2
  <1> QED BY <1>2, <1>8 DEF f, stab, leaks

LEMMA XorSound ==
  ASSUME NEW w \in Nat, NEW a, Good(a, w), NEW b, Good(b, w)
  PROVE  Sound2(bit_xor(a, b), w, Table2(FXor, w, w), a, b)
  <1> DEFINE f == Table2(FXor, w, w)
             at == Through2(f, OwnSight(a), OwnSight(b))
             stab == [i \in DOMAIN a.stab |-> a.stab[i] /\ b.stab[i]]
             leaks == merge(a.ls, b.ls)
  <1>1. Compute(FXor, << a, b >>) = Fresh(at)
    <2>1. FXor(DataOf(<< a, b >>)) = at[Env0]
      BY Operands2 DEF Through2, Table2, Sights1
    <2>2. at = [e \in Env |-> FXor(<< OwnSight(a)[e], OwnSight(b)[e] >>)]
      BY Operands2 DEF Through2, Table2, Sights1
    <2>3. \A e \in Env : WordsAt(NodesOf(<< a, b >>), e) = << OwnSight(a)[e], OwnSight(b)[e] >>
      BY Operands2
    <2> HIDE DEF at
    <2>4. [e \in Env |-> FXor(WordsAt(NodesOf(<< a, b >>), e))] = at
      BY <2>2, <2>3
    <2> QED BY <2>1, <2>4 DEF Compute, Lift, Fresh
  <1>2. bit_xor(a, b) = Made(at, stab, leaks)
    BY <1>1, StabilizedFresh DEF bit_xor
  <1>3. /\ DOMAIN a.stab = 1 .. w /\ a.stab \in Bools(w) /\ b.stab \in Bools(w)
        /\ leaks \in LeakSets(w) /\ \A i \in 1 .. w : At(leaks, i) = At(a.ls, i) \union At(b.ls, i)
    BY ValueParts, MergeAt DEF Good
  <1>4. stab \in Bools(w) /\ \A i \in 1 .. w : stab[i] <=> (a.stab[i] /\ b.stab[i])
    BY <1>3 DEF Bools
  <1>5. ASSUME NEW X, NEW Y, X \in Sights1(w), Y \in Sights1(w)
        PROVE  /\ Through2(f, X, Y) \in Sights1(w)
               /\ \A e \in Env : \A i \in 1 .. w : Through2(f, X, Y)[e][i] = (X[e][i] # Y[e][i])
    BY <1>5 DEF Through2, Table2, FXor, Sights1, Bools
  <1> HIDE DEF stab, leaks, f
  <1>6. ASSUME NEW X, NEW Y, Sighted(a, X), Sighted(b, Y)
        PROVE  Fits(Through2(f, X, Y), at, stab, leaks, w)
    <2> DEFINE Z == Through2(f, X, Y)
    <2>1. /\ Z \in Sights1(w) /\ \A e \in Env : \A i \in 1 .. w : Z[e][i] = (X[e][i] # Y[e][i])
          /\ \A e \in Env : \A i \in 1 .. w : at[e][i] = (OwnSight(a)[e][i] # OwnSight(b)[e][i])
      <3>1. /\ X \in Sights1(w) /\ OwnSight(a) \in Sights1(w)
            /\ Y \in Sights1(w) /\ OwnSight(b) \in Sights1(w)
        BY <1>6, OwnSighted, SightParts
      <3> QED BY <1>5, <3>1
    <2> HIDE DEF Z, at
    <2>2. ASSUME NEW i \in 1 .. w, NEW e \in Env, stab[i] PROVE Z[e][i] = at[e][i]
      BY <1>4, <1>6, <2>1, <2>2, OwnSighted, SightParts
    <2>3. ASSUME NEW i \in 1 .. w, NEW d \in Env, NEW e \in Env, Same(d, e, At(leaks, i))
          PROVE  Z[d][i] = Z[e][i]
      BY <1>3, <1>6, <2>1, <2>3, SameUnion, SightParts
    <2> QED BY <2>1, <2>2, <2>3 DEF Fits, Z
  <1> HIDE DEF at
  <1>7. at = Through2(f, OwnSight(a), OwnSight(b))
    BY DEF at
  <1>8. Sound2(Made(at, stab, leaks), w, f, a, b)
    BY <1>3, <1>4, <1>6, <1>7, MadeSound2
  <1> QED BY <1>2, <1>8 DEF f, stab, leaks

-----------------------------------------------------------------------------
(* Operations on whole words                                               *)

LEMMA WholeStable ==
  ASSUME NEW w \in Nat, NEW v, Good(v, w), is_fully_stable(v), NEW X, Sighted(v, X), NEW e \in Env
  PROVE  X[e] = OwnSight(v)[e]
  <1>1. \A i \in 1 .. w : v.stab[i]
    BY ValueParts DEF Good, is_fully_stable
  <1>2. X[e] \in Bools(w) /\ OwnSight(v)[e] \in Bools(w)
    BY OwnSighted, SightParts
  <1>3. \A i \in 1 .. w : X[e][i] = OwnSight(v)[e][i]
    BY <1>1, OwnSighted, SightParts
  <1> QED BY <1>2, <1>3 DEF Bools

LEMMA AllTold ==
  ASSUME NEW w \in Nat, NEW v, Good(v, w), NEW X, Sighted(v, X), NEW d \in Env, NEW e \in Env,
         Same(d, e, flatten(v.ls))
  PROVE  X[d] = X[e]
  <1>1. \A i \in 1 .. w : At(v.ls, i) \subseteq flatten(v.ls)
    BY ValueParts, Sequences1 DEF Good, At, flatten, LeakSets, Leaks
  <1>2. \A i \in 1 .. w : Same(d, e, At(v.ls, i))
    BY <1>1 DEF Same
  <1>3. X[d] \in Bools(w) /\ X[e] \in Bools(w) /\ \A i \in 1 .. w : X[d][i] = X[e][i]
    BY <1>2, SightParts
  <1> QED BY <1>3 DEF Bools

\* A result that is stable only when its operands are, and leaks all they leak
LEMMA WholeSound1 ==
  ASSUME NEW w \in Nat, NEW n \in Nat, NEW a, Good(a, w), NEW f \in Functions1(w, n),
         NEW stab \in Bools(n), NEW leaks \in LeakSets(n), NEW at, at = Through1(f, OwnSight(a)),
         \A i \in 1 .. n : stab[i] => is_fully_stable(a),
         \A i \in 1 .. n : flatten(a.ls) \subseteq At(leaks, i)
  PROVE  Sound1(Made(at, stab, leaks), n, f, a)
  <1>1. ASSUME NEW X, Sighted(a, X) PROVE Fits(Through1(f, X), at, stab, leaks, n)
    <2> DEFINE Z == Through1(f, X)
    <2>1. Z \in Sights1(n) /\ \A e \in Env : Z[e] = f[X[e]] /\ at[e] = f[OwnSight(a)[e]]
      BY <1>1, SightParts DEF Through1, Sights1, Functions1
    <2> HIDE DEF Z
    <2>2. ASSUME NEW i \in 1 .. n, NEW e \in Env, stab[i] PROVE Z[e][i] = at[e][i]
      <3>1. X[e] = OwnSight(a)[e]
        BY <1>1, <2>2, WholeStable
      <3> QED BY <2>1, <3>1
    <2>3. ASSUME NEW i \in 1 .. n, NEW d \in Env, NEW e \in Env, Same(d, e, At(leaks, i))
          PROVE  Z[d][i] = Z[e][i]
      <3>1. Same(d, e, flatten(a.ls))
        BY <2>3 DEF Same
      <3>2. X[d] = X[e]
        BY <1>1, <3>1, AllTold
      <3> QED BY <2>1, <3>2
    <2> QED BY <2>1, <2>2, <2>3 DEF Fits, Z
  <1> QED BY <1>1, MadeSound1

LEMMA WholeSound2 ==
  ASSUME NEW w \in Nat, NEW u \in Nat, NEW n \in Nat, NEW a, Good(a, w), NEW b, Good(b, u),
         NEW f \in Functions2(w, u, n), NEW stab \in Bools(n), NEW leaks \in LeakSets(n),
         NEW at, at = Through2(f, OwnSight(a), OwnSight(b)),
         \A i \in 1 .. n : stab[i] => is_fully_stable(a) /\ is_fully_stable(b),
         \A i \in 1 .. n : flatten(a.ls) \subseteq At(leaks, i) /\ flatten(b.ls) \subseteq At(leaks, i)
  PROVE  Sound2(Made(at, stab, leaks), n, f, a, b)
  <1>1. ASSUME NEW X, NEW Y, Sighted(a, X), Sighted(b, Y)
        PROVE  Fits(Through2(f, X, Y), at, stab, leaks, n)
    <2> DEFINE Z == Through2(f, X, Y)
    <2>1. /\ Z \in Sights1(n)
          /\ \A e \in Env : Z[e] = f[X[e]][Y[e]] /\ at[e] = f[OwnSight(a)[e]][OwnSight(b)[e]]
      BY <1>1, SightParts DEF Through2, Sights1, Functions2
    <2> HIDE DEF Z
    <2>2. ASSUME NEW i \in 1 .. n, NEW e \in Env, stab[i] PROVE Z[e][i] = at[e][i]
      <3>1. X[e] = OwnSight(a)[e] /\ Y[e] = OwnSight(b)[e]
        BY <1>1, <2>2, WholeStable
      <3> QED BY <2>1, <3>1
    <2>3. ASSUME NEW i \in 1 .. n, NEW d \in Env, NEW e \in Env, Same(d, e, At(leaks, i))
          PROVE  Z[d][i] = Z[e][i]
      <3>1. Same(d, e, flatten(a.ls)) /\ Same(d, e, flatten(b.ls))
        BY <2>3 DEF Same
      <3>2. X[d] = X[e] /\ Y[d] = Y[e]
        BY <1>1, <3>1, AllTold
      <3> QED BY <2>1, <3>2
    <2> QED BY <2>1, <2>2, <2>3 DEF Fits, Z
  <1> QED BY <1>1, MadeSound2

LEMMA WholeBits ==
  ASSUME NEW w \in Nat, NEW a, Good(a, w), NEW b
  PROVE  /\ Whole(a, b) \in Bools(w)
         /\ \A i \in 1 .. w : Whole(a, b)[i] <=> is_fully_stable(a) /\ is_fully_stable(b)
  BY ValueParts DEF Good, Whole, AllBits, Bools, is_fully_stable

LEMMA AddSound ==
  ASSUME NEW w \in Nat, NEW a, Good(a, w), NEW b, Good(b, w)
  PROVE  Sound2(add(a, b), w, Table2(FAdd, w, w), a, b)
  <1> DEFINE f == Table2(FAdd, w, w)
             at == Through2(f, OwnSight(a), OwnSight(b))
             stab == Whole(a, b)
             leaks == mix(a.ls, b.ls)
  <1>1. Compute(FAdd, << a, b >>) = Fresh(at)
    <2>1. FAdd(DataOf(<< a, b >>)) = at[Env0]
      BY Operands2 DEF Through2, Table2, Sights1
    <2>2. at = [e \in Env |-> FAdd(<< OwnSight(a)[e], OwnSight(b)[e] >>)]
      BY Operands2 DEF Through2, Table2, Sights1
    <2>3. \A e \in Env : WordsAt(NodesOf(<< a, b >>), e) = << OwnSight(a)[e], OwnSight(b)[e] >>
      BY Operands2
    <2> HIDE DEF at
    <2>4. [e \in Env |-> FAdd(WordsAt(NodesOf(<< a, b >>), e))] = at
      BY <2>2, <2>3
    <2> QED BY <2>1, <2>4 DEF Compute, Lift, Fresh
  <1>2. add(a, b) = Made(at, stab, leaks)
    BY <1>1, StabilizedFresh DEF add
  <1>3. f \in Functions2(w, w, w)
    BY DEF Functions2, Table2, FAdd, Sum3, Bools
  <1>4. /\ stab \in Bools(w) /\ \A i \in 1 .. w : stab[i] => is_fully_stable(a) /\ is_fully_stable(b)
        /\ leaks \in LeakSets(w) /\ \A i \in 1 .. w : At(leaks, i) = flatten(a.ls) \union flatten(b.ls)
    BY WholeBits, ValueParts, MixAt DEF Good
  <1> HIDE DEF stab, leaks, f, at
  <1>5. at = Through2(f, OwnSight(a), OwnSight(b))
    BY DEF at
  <1>6. Sound2(Made(at, stab, leaks), w, f, a, b)
    BY <1>3, <1>4, <1>5, WholeSound2
  <1> QED BY <1>2, <1>6 DEF f, stab, leaks

LEMMA SubSound ==
  ASSUME NEW w \in Nat, NEW a, Good(a, w), NEW b, Good(b, w)
  PROVE  Sound2(sub(a, b), w, Table2(FSub, w, w), a, b)
  <1> DEFINE f == Table2(FSub, w, w)
             at == Through2(f, OwnSight(a), OwnSight(b))
             stab == Whole(a, b)
             leaks == mix(a.ls, b.ls)
  <1>1. Compute(FSub, << a, b >>) = Fresh(at)
    <2>1. FSub(DataOf(<< a, b >>)) = at[Env0]
      BY Operands2 DEF Through2, Table2, Sights1
    <2>2. at = [e \in Env |-> FSub(<< OwnSight(a)[e], OwnSight(b)[e] >>)]
      BY Operands2 DEF Through2, Table2, Sights1
    <2>3. \A e \in Env : WordsAt(NodesOf(<< a, b >>), e) = << OwnSight(a)[e], OwnSight(b)[e] >>
      BY Operands2
    <2> HIDE DEF at
    <2>4. [e \in Env |-> FSub(WordsAt(NodesOf(<< a, b >>), e))] = at
      BY <2>2, <2>3
    <2> QED BY <2>1, <2>4 DEF Compute, Lift, Fresh
  <1>2. sub(a, b) = Made(at, stab, leaks)
    BY <1>1, StabilizedFresh DEF sub
  <1>3. f \in Functions2(w, w, w)
    BY DEF Functions2, Table2, FSub, FNot, Sum3, Bools
  <1>4. /\ stab \in Bools(w) /\ \A i \in 1 .. w : stab[i] => is_fully_stable(a) /\ is_fully_stable(b)
        /\ leaks \in LeakSets(w) /\ \A i \in 1 .. w : At(leaks, i) = flatten(a.ls) \union flatten(b.ls)
    BY WholeBits, ValueParts, MixAt DEF Good
  <1> HIDE DEF stab, leaks, f, at
  <1>5. at = Through2(f, OwnSight(a), OwnSight(b))
    BY DEF at
  <1>6. Sound2(Made(at, stab, leaks), w, f, a, b)
    BY <1>3, <1>4, <1>5, WholeSound2
  <1> QED BY <1>2, <1>6 DEF f, stab, leaks

LEMMA NegSound ==
  ASSUME NEW w \in Nat, NEW a, Good(a, w)
  PROVE  Sound1(neg(a), w, Table1(FNeg, w), a) /\ Table1(FNeg, w) \in Functions1(w, w)
  <1> DEFINE f == Table1(FNeg, w)
             at == Through1(f, OwnSight(a))
             stab == Whole(a, a)
             leaks == mix(a.ls, NULL)
  <1>1. Compute(FNeg, << a >>) = Fresh(at)
    <2>1. FNeg(DataOf(<< a >>)) = at[Env0]
      BY Operands1 DEF Through1, Table1, Sights1
    <2>2. [e \in Env |-> FNeg(WordsAt(NodesOf(<< a >>), e))] = at
      BY Operands1 DEF Through1, Table1, Sights1
    <2> QED BY <2>1, <2>2 DEF Compute, Lift, Fresh
  <1>2. neg(a) = Made(at, stab, leaks)
    BY <1>1, StabilizedFresh DEF neg
  <1>3. f \in Functions1(w, w)
    <2>1. ASSUME NEW x \in Bools(w) PROVE Len(x) = w /\ DOMAIN x = 1 .. w
      BY Sequences1 DEF Bools
    <2> QED BY <2>1 DEF Functions1, Table1, FNeg, Sum3, AllBits, Bools
  <1>4. NULL \in LeakSets(w)
    BY DEF LeakSets
  <1>5. /\ stab \in Bools(w) /\ \A i \in 1 .. w : stab[i] => is_fully_stable(a)
        /\ leaks \in LeakSets(w) /\ \A i \in 1 .. w : At(leaks, i) = flatten(a.ls) \union flatten(NULL)
    BY <1>4, WholeBits, ValueParts, MixAt DEF Good
  <1> HIDE DEF stab, leaks, f, at
  <1>6. at = Through1(f, OwnSight(a)) /\ \A i \in 1 .. w : flatten(a.ls) \subseteq At(leaks, i)
    BY <1>5 DEF at
  <1>7. Sound1(Made(at, stab, leaks), w, f, a)
    BY <1>3, <1>5, <1>6, WholeSound1
  <1> QED BY <1>2, <1>3, <1>7 DEF f, stab, leaks

\* The product of two words on n bits
Product(w, u, n) == [x \in Bools(w) |-> [y \in Bools(u) |-> ProductWord(<< x, y >>, n)]]

LEMMA MulSound ==
  ASSUME NEW w \in Nat, NEW n \in Nat, NEW a, Good(a, w), NEW b, Good(b, w), MulDefined(a, b, n)
  PROVE  Sound2(mul(a, b, n), n, Product(w, w, n), a, b)
  <1> DEFINE f == Product(w, w, n)
             at == Through2(f, OwnSight(a), OwnSight(b))
             stab == [i \in 1 .. n |-> i <= Width(a) /\ is_fully_stable(a) /\ is_fully_stable(b)]
             leaks == mix(a.ls, b.ls)
             kept == [i \in 1 .. n |-> At(leaks, i)]
             F(ws) == ProductWord(ws, n)
  <1>1. Compute(F, << a, b >>) = Fresh(at)
    <2>1. F(DataOf(<< a, b >>)) = at[Env0]
      BY Operands2 DEF Through2, Product, Sights1
    <2>2. at = [e \in Env |-> F(<< OwnSight(a)[e], OwnSight(b)[e] >>)]
      BY Operands2 DEF Through2, Product, Sights1
    <2>3. \A e \in Env : WordsAt(NodesOf(<< a, b >>), e) = << OwnSight(a)[e], OwnSight(b)[e] >>
      BY Operands2
    <2> HIDE DEF at
    <2>4. [e \in Env |-> F(WordsAt(NodesOf(<< a, b >>), e))] = at
      BY <2>2, <2>3
    <2> QED BY <2>1, <2>4 DEF Compute, Lift, Fresh
  <1>2. mul(a, b, n) = Made(at, stab, leaks)
    BY <1>1, StabilizedFresh DEF mul
  <1>3. f \in Functions2(w, w, n)
    BY DEF Functions2, Product, ProductWord, Bit, Bools
  <1>4. /\ Width(a) = w /\ a.ls \in LeakSets(w) /\ b.ls \in LeakSets(w)
        /\ leaks \in LeakSets(w) /\ \A i \in 1 .. w : At(leaks, i) = flatten(a.ls) \union flatten(b.ls)
    BY ValueParts, MixAt DEF Good
  <1>5. /\ kept \in LeakSets(n) /\ \A i \in 1 .. n : At(kept, i) = At(leaks, i)
        /\ \A i \in 1 .. n : flatten(a.ls) \subseteq At(kept, i) /\ flatten(b.ls) \subseteq At(kept, i)
    <2>1. \A i \in 1 .. n : At(leaks, i) = flatten(a.ls) \union flatten(b.ls)
      <3>1. CASE n <= w
        BY <1>4, <3>1
      <3>2. CASE ~(n <= w)
        <4>1. a.ls = NULL /\ b.ls = NULL
          BY <1>4, <3>2 DEF MulDefined
        <4> QED BY <4>1 DEF mix, At, flatten
      <3> QED BY <3>1, <3>2
    <2>2. \A i \in 1 .. n : At(leaks, i) \in SUBSET SUBSET Env
      BY <1>4, <2>1, FlattenType
    <2>3. kept \in Leaks(n) /\ kept # NULL
      <3>1. kept \in Leaks(n)
        BY <2>2 DEF Leaks
      <3> QED BY <3>1, LeaksReal
    <2>4. \A i \in 1 .. n : kept[i] = At(leaks, i)
      OBVIOUS
    <2> HIDE DEF kept, leaks
    <2> QED BY <2>1, <2>3, <2>4 DEF At, LeakSets
  <1>6. Made(at, stab, leaks) = Made(at, stab, kept)
    <2>1. at \in Sights1(n)
      <3>1. OwnSight(a) \in Sights1(w) /\ OwnSight(b) \in Sights1(w)
        BY Operands2
      <3> QED BY <1>3, <3>1, ThroughTypes
    <2> HIDE DEF at, stab, leaks, kept
    <2>2. DOMAIN NodeOf(at) = 1 .. n
      BY <2>1, NodeOfTable
    <2>3. partial_stabilize(leaks, NodeOf(at), stab) = partial_stabilize(kept, NodeOf(at), stab)
      BY <1>5, <2>2 DEF partial_stabilize
    <2> QED BY <2>3 DEF Made
  <1>7. stab \in Bools(n) /\ \A i \in 1 .. n : stab[i] => is_fully_stable(a) /\ is_fully_stable(b)
    BY DEF Bools, is_fully_stable
  <1> HIDE DEF stab, leaks, kept, f, at
  <1>8. at = Through2(f, OwnSight(a), OwnSight(b))
    BY DEF at
  <1>9. Sound2(Made(at, stab, kept), n, f, a, b)
    BY <1>3, <1>5, <1>7, <1>8, WholeSound2
  <1> QED BY <1>2, <1>6, <1>9 DEF f

\* A shift: bit i of the result comes from the bits of a that near names
LEMMA ShiftSound ==
  ASSUME NEW w \in Nat, NEW u \in Nat, NEW a, Good(a, w), NEW b, Good(b, u),
         NEW f \in Functions2(w, u, w), NEW near \in [1 .. w -> SUBSET (1 .. w)],
         NEW stab \in Bools(w), NEW leaks \in LeakSets(w),
         NEW at, at = Through2(f, OwnSight(a), OwnSight(b)),
         \A i \in 1 .. w : stab[i] => is_fully_stable(a) /\ is_fully_stable(b),
         \A i \in 1 .. w : flatten(b.ls) \subseteq At(leaks, i),
         \A i \in 1 .. w : \A j \in near[i] : At(a.ls, j) \subseteq At(leaks, i),
         \A x, z \in Bools(w) : \A y \in Bools(u) : \A i \in 1 .. w :
           (\A j \in near[i] : x[j] = z[j]) => f[x][y][i] = f[z][y][i]
  PROVE  Sound2(Made(at, stab, leaks), w, f, a, b)
  <1>1. ASSUME NEW X, NEW Y, Sighted(a, X), Sighted(b, Y)
        PROVE  Fits(Through2(f, X, Y), at, stab, leaks, w)
    <2> DEFINE Z == Through2(f, X, Y)
    <2>1. /\ Z \in Sights1(w) /\ X \in Sights1(w) /\ Y \in Sights1(u)
          /\ \A e \in Env : Z[e] = f[X[e]][Y[e]] /\ at[e] = f[OwnSight(a)[e]][OwnSight(b)[e]]
      BY <1>1, SightParts DEF Through2, Sights1, Functions2
    <2> HIDE DEF Z
    <2>2. ASSUME NEW i \in 1 .. w, NEW e \in Env, stab[i] PROVE Z[e][i] = at[e][i]
      <3>1. X[e] = OwnSight(a)[e] /\ Y[e] = OwnSight(b)[e]
        BY <1>1, <2>2, WholeStable
      <3> QED BY <2>1, <3>1
    <2>3. ASSUME NEW i \in 1 .. w, NEW d \in Env, NEW e \in Env, Same(d, e, At(leaks, i))
          PROVE  Z[d][i] = Z[e][i]
      <3>1. Same(d, e, flatten(b.ls)) /\ \A j \in near[i] : Same(d, e, At(a.ls, j))
        BY <2>3 DEF Same
      <3>2. Y[d] = Y[e]
        BY <1>1, <3>1, AllTold
      <3>3. \A j \in near[i] : X[d][j] = X[e][j]
        BY <1>1, <3>1, SightParts
      <3>4. X[d] \in Bools(w) /\ X[e] \in Bools(w) /\ Y[e] \in Bools(u)
        BY <2>1 DEF Sights1
      <3>5. f[X[d]][Y[e]][i] = f[X[e]][Y[e]][i]
        BY <3>3, <3>4
      <3> QED BY <2>1, <3>2, <3>5
    <2> QED BY <2>1, <2>2, <2>3 DEF Fits, Z
  <1> QED BY <1>1, MadeSound2

LEMMA ShiftAt ==
  ASSUME NEW w \in Nat, NEW u \in Nat, NEW p \in LeakSets(w), NEW q \in LeakSets(u)
  PROVE  /\ shift_left(p, q, w) \in LeakSets(w) /\ shift_right(p, q, w) \in LeakSets(w)
         /\ \A i \in 1 .. w : /\ flatten(q) \subseteq At(shift_left(p, q, w), i)
                              /\ flatten(q) \subseteq At(shift_right(p, q, w), i)
         /\ \A i \in 1 .. w : \A j \in 1 .. i : At(p, j) \subseteq At(shift_left(p, q, w), i)
         /\ \A i \in 1 .. w : \A j \in i .. w : At(p, j) \subseteq At(shift_right(p, q, w), i)
  <1> DEFINE l == [i \in 1 .. w |-> flatten(q) \union UNION {At(p, j) : j \in 1 .. i}]
             r == [i \in 1 .. w |-> flatten(q) \union UNION {At(p, j) : j \in i .. w}]
  <1>1. flatten(q) \in SUBSET SUBSET Env /\ \A j \in 1 .. w : At(p, j) \in SUBSET SUBSET Env
    BY AtLeaks, FlattenType
  <1>2. l \in Leaks(w) /\ r \in Leaks(w)
    <2>1. ASSUME NEW i \in 1 .. w
          PROVE  /\ UNION {At(p, j) : j \in 1 .. i} \in SUBSET SUBSET Env
                 /\ UNION {At(p, j) : j \in i .. w} \in SUBSET SUBSET Env
      <3>1. 1 .. i \subseteq 1 .. w /\ i .. w \subseteq 1 .. w
        OBVIOUS
      <3> QED BY <1>1, <3>1
    <2> QED BY <1>1, <2>1 DEF Leaks
  <1>3. l # NULL /\ r # NULL
    BY <1>2, LeaksReal
  <1>4. \A i \in 1 .. w : /\ l[i] = flatten(q) \union UNION {At(p, j) : j \in 1 .. i}
                          /\ r[i] = flatten(q) \union UNION {At(p, j) : j \in i .. w}
    OBVIOUS
  <1>5. CASE p = NULL /\ q = NULL
    BY <1>5 DEF shift_left, shift_right, At, LeakSets, flatten
  <1>6. CASE ~(p = NULL /\ q = NULL)
    <2>1. shift_left(p, q, w) = l /\ shift_right(p, q, w) = r
      BY <1>6 DEF shift_left, shift_right
    <2> HIDE DEF l, r
    <2>2. \A i \in 1 .. w : At(l, i) = l[i] /\ At(r, i) = r[i]
      BY <1>3 DEF At
    <2> QED BY <1>2, <1>4, <2>1, <2>2 DEF LeakSets
  <1> QED BY <1>5, <1>6

LEMMA ShlSound ==
  ASSUME NEW w \in Nat, NEW u \in Nat, NEW a, Good(a, w), NEW b, Good(b, u)
  PROVE  Sound2(shl(a, b), w, Table2(FShl, w, u), a, b)
  <1> DEFINE f == Table2(FShl, w, u)
             at == Through2(f, OwnSight(a), OwnSight(b))
             stab == Whole(a, b)
             leaks == shift_left(a.ls, b.ls, w)
             near == [i \in 1 .. w |-> 1 .. i]
  <1>1. Compute(FShl, << a, b >>) = Fresh(at)
    <2>1. FShl(DataOf(<< a, b >>)) = at[Env0]
      BY Operands2 DEF Through2, Table2, Sights1
    <2>2. at = [e \in Env |-> FShl(<< OwnSight(a)[e], OwnSight(b)[e] >>)]
      BY Operands2 DEF Through2, Table2, Sights1
    <2>3. \A e \in Env : WordsAt(NodesOf(<< a, b >>), e) = << OwnSight(a)[e], OwnSight(b)[e] >>
      BY Operands2
    <2> HIDE DEF at
    <2>4. [e \in Env |-> FShl(WordsAt(NodesOf(<< a, b >>), e))] = at
      BY <2>2, <2>3
    <2> QED BY <2>1, <2>4 DEF Compute, Lift, Fresh
  <1>2. shl(a, b) = Made(at, stab, leaks)
    <2>1. Width(a) = w
      BY ValueParts DEF Good
    <2> HIDE DEF at
    <2> QED BY <1>1, <2>1, StabilizedFresh DEF shl
  <1>3. ASSUME NEW x \in Bools(w), NEW y \in Bools(u)
        PROVE  /\ f[x][y] \in Bools(w)
               /\ \A i \in 1 .. w : Number(y) \in 0 .. (i - 1) => f[x][y][i] = x[i - Number(y)]
               /\ \A i \in 1 .. w : ~(Number(y) \in 0 .. (i - 1)) => ~f[x][y][i]
    <2>1. DOMAIN x = 1 .. w /\ Len(x) = w
      BY Sequences1 DEF Bools
    <2>2. f[x][y] = FShl(<< x, y >>)
      BY DEF Table2
    <2> DEFINE n == Number(y)
    <2>3. f[x][y] = [i \in 1 .. w |-> n \in 0 .. (i - 1) /\ x[i - n]]
      BY <2>1, <2>2 DEF FShl
    <2> HIDE DEF f, n
    <2>4. \A i \in 1 .. w : n \in 0 .. (i - 1) => i - n \in 1 .. i
      OBVIOUS
    <2>5. \A i \in 1 .. w : n \in 0 .. (i - 1) => f[x][y][i] = x[i - n]
      BY <2>3, <2>4 DEF Bools
    <2>6. \A i \in 1 .. w : ~(n \in 0 .. (i - 1)) => ~f[x][y][i]
      BY <2>3 DEF Bools
    <2>7. \A i \in 1 .. w : f[x][y][i] \in BOOLEAN
      BY <2>3
    <2> QED BY <2>3, <2>5, <2>6, <2>7 DEF Bools, n
  <1>4. f \in Functions2(w, u, w)
    BY <1>3 DEF Functions2, Table2
  <1>5. near \in [1 .. w -> SUBSET (1 .. w)]
    OBVIOUS
  <1>6. ASSUME NEW x \in Bools(w), NEW z \in Bools(w), NEW y \in Bools(u), NEW i \in 1 .. w,
               \A j \in near[i] : x[j] = z[j]
        PROVE  f[x][y][i] = f[z][y][i]
    <2> HIDE DEF f
    <2> DEFINE n == Number(y)
    <2>1. \A j \in 1 .. i : x[j] = z[j]
      BY <1>6
    <2> HIDE DEF n
    <2>2. n \in 0 .. (i - 1) => i - n \in 1 .. i
      OBVIOUS
    <2>3. f[x][y] \in Bools(w) /\ f[z][y] \in Bools(w)
      BY <1>3
    <2>4. CASE n \in 0 .. (i - 1)
      BY <1>3, <2>1, <2>2, <2>4 DEF n
    <2>5. CASE ~(n \in 0 .. (i - 1))
      <3>1. ~f[x][y][i] /\ ~f[z][y][i]
        BY <1>3, <2>5 DEF n
      <3>2. f[x][y][i] \in BOOLEAN /\ f[z][y][i] \in BOOLEAN
        BY <2>3 DEF Bools
      <3> QED BY <3>1, <3>2
    <2> QED BY <2>4, <2>5
  <1>7. /\ stab \in Bools(w) /\ \A i \in 1 .. w : stab[i] => is_fully_stable(a) /\ is_fully_stable(b)
        /\ leaks \in LeakSets(w) /\ \A i \in 1 .. w : flatten(b.ls) \subseteq At(leaks, i)
        /\ \A i \in 1 .. w : \A j \in near[i] : At(a.ls, j) \subseteq At(leaks, i)
    BY WholeBits, ValueParts, ShiftAt DEF Good
  <1> HIDE DEF stab, leaks, f, at, near
  <1>8. at = Through2(f, OwnSight(a), OwnSight(b))
    BY DEF at
  <1>9. Sound2(Made(at, stab, leaks), w, f, a, b)
    BY <1>4, <1>5, <1>6, <1>7, <1>8, ShiftSound
  <1> QED BY <1>2, <1>9 DEF f

LEMMA ShrSound ==
  ASSUME NEW w \in Nat, NEW u \in Nat, NEW a, Good(a, w), NEW b, Good(b, u)
  PROVE  Sound2(shr(a, b), w, Table2(FShr, w, u), a, b) /\ Table2(FShr, w, u) \in Functions2(w, u, w)
  <1> DEFINE f == Table2(FShr, w, u)
             at == Through2(f, OwnSight(a), OwnSight(b))
             stab == Whole(a, b)
             leaks == shift_right(a.ls, b.ls, w)
             near == [i \in 1 .. w |-> i .. w]
  <1>1. Compute(FShr, << a, b >>) = Fresh(at)
    <2>1. FShr(DataOf(<< a, b >>)) = at[Env0]
      BY Operands2 DEF Through2, Table2, Sights1
    <2>2. at = [e \in Env |-> FShr(<< OwnSight(a)[e], OwnSight(b)[e] >>)]
      BY Operands2 DEF Through2, Table2, Sights1
    <2>3. \A e \in Env : WordsAt(NodesOf(<< a, b >>), e) = << OwnSight(a)[e], OwnSight(b)[e] >>
      BY Operands2
    <2> HIDE DEF at
    <2>4. [e \in Env |-> FShr(WordsAt(NodesOf(<< a, b >>), e))] = at
      BY <2>2, <2>3
    <2> QED BY <2>1, <2>4 DEF Compute, Lift, Fresh
  <1>2. shr(a, b) = Made(at, stab, leaks)
    <2>1. Width(a) = w
      BY ValueParts DEF Good
    <2> HIDE DEF at
    <2> QED BY <1>1, <2>1, StabilizedFresh DEF shr
  <1>3. ASSUME NEW x \in Bools(w), NEW y \in Bools(u)
        PROVE  /\ f[x][y] \in Bools(w)
               /\ \A i \in 1 .. w : Number(y) \in 0 .. (w - i) => f[x][y][i] = x[i + Number(y)]
               /\ \A i \in 1 .. w : ~(Number(y) \in 0 .. (w - i)) => ~f[x][y][i]
    <2>1. DOMAIN x = 1 .. w /\ Len(x) = w
      BY Sequences1 DEF Bools
    <2>2. f[x][y] = FShr(<< x, y >>)
      BY DEF Table2
    <2> DEFINE n == Number(y)
    <2>3. f[x][y] = [i \in 1 .. w |-> IF n \in 0 .. (w - i) THEN x[i + n] ELSE FALSE]
      BY <2>1, <2>2 DEF FShr, ShrFilling
    <2> HIDE DEF f, n
    <2>4. \A i \in 1 .. w : n \in 0 .. (w - i) => i + n \in i .. w
      OBVIOUS
    <2>5. \A i \in 1 .. w : n \in 0 .. (w - i) => f[x][y][i] = x[i + n]
      BY <2>3, <2>4 DEF Bools
    <2>6. \A i \in 1 .. w : ~(n \in 0 .. (w - i)) => ~f[x][y][i]
      BY <2>3 DEF Bools
    <2>7. \A i \in 1 .. w : f[x][y][i] \in BOOLEAN
      <3>1. ASSUME NEW i \in 1 .. w, n \in 0 .. (w - i) PROVE f[x][y][i] \in BOOLEAN
        BY <2>4, <2>5, <3>1 DEF Bools
      <3>2. ASSUME NEW i \in 1 .. w, ~(n \in 0 .. (w - i)) PROVE f[x][y][i] \in BOOLEAN
        BY <2>3, <3>2
      <3> QED BY <3>1, <3>2
    <2> QED BY <2>3, <2>5, <2>6, <2>7 DEF Bools, n
  <1>4. f \in Functions2(w, u, w)
    BY <1>3 DEF Functions2, Table2
  <1>5. near \in [1 .. w -> SUBSET (1 .. w)]
    OBVIOUS
  <1>6. ASSUME NEW x \in Bools(w), NEW z \in Bools(w), NEW y \in Bools(u), NEW i \in 1 .. w,
               \A j \in near[i] : x[j] = z[j]
        PROVE  f[x][y][i] = f[z][y][i]
    <2> HIDE DEF f
    <2> DEFINE n == Number(y)
    <2>1. \A j \in i .. w : x[j] = z[j]
      BY <1>6
    <2> HIDE DEF n
    <2>2. n \in 0 .. (w - i) => i + n \in i .. w
      OBVIOUS
    <2>3. f[x][y] \in Bools(w) /\ f[z][y] \in Bools(w)
      BY <1>3
    <2>4. CASE n \in 0 .. (w - i)
      BY <1>3, <2>1, <2>2, <2>4 DEF n
    <2>5. CASE ~(n \in 0 .. (w - i))
      <3>1. ~f[x][y][i] /\ ~f[z][y][i]
        BY <1>3, <2>5 DEF n
      <3>2. f[x][y][i] \in BOOLEAN /\ f[z][y][i] \in BOOLEAN
        BY <2>3 DEF Bools
      <3> QED BY <3>1, <3>2
    <2> QED BY <2>4, <2>5
  <1>7. /\ stab \in Bools(w) /\ \A i \in 1 .. w : stab[i] => is_fully_stable(a) /\ is_fully_stable(b)
        /\ leaks \in LeakSets(w) /\ \A i \in 1 .. w : flatten(b.ls) \subseteq At(leaks, i)
        /\ \A i \in 1 .. w : \A j \in near[i] : At(a.ls, j) \subseteq At(leaks, i)
    BY WholeBits, ValueParts, ShiftAt DEF Good
  <1> HIDE DEF stab, leaks, f, at, near
  <1>8. at = Through2(f, OwnSight(a), OwnSight(b))
    BY DEF at
  <1>9. Sound2(Made(at, stab, leaks), w, f, a, b)
    BY <1>4, <1>5, <1>6, <1>7, <1>8, ShiftSound
  <1> QED BY <1>2, <1>4, <1>9 DEF f

LEMMA SshrSound ==
  ASSUME NEW w \in Nat, w # 0, NEW u \in Nat, NEW a, Good(a, w), NEW b, Good(b, u)
  PROVE  Sound2(sshr(a, b), w, Table2(FSshr, w, u), a, b) /\ Table2(FSshr, w, u) \in Functions2(w, u, w)
  <1> DEFINE f == Table2(FSshr, w, u)
             at == Through2(f, OwnSight(a), OwnSight(b))
             stab == Whole(a, b)
             leaks == shift_right(a.ls, b.ls, w)
             near == [i \in 1 .. w |-> i .. w]
  <1>1. Compute(FSshr, << a, b >>) = Fresh(at)
    <2>1. FSshr(DataOf(<< a, b >>)) = at[Env0]
      BY Operands2 DEF Through2, Table2, Sights1
    <2>2. at = [e \in Env |-> FSshr(<< OwnSight(a)[e], OwnSight(b)[e] >>)]
      BY Operands2 DEF Through2, Table2, Sights1
    <2>3. \A e \in Env : WordsAt(NodesOf(<< a, b >>), e) = << OwnSight(a)[e], OwnSight(b)[e] >>
      BY Operands2
    <2> HIDE DEF at
    <2>4. [e \in Env |-> FSshr(WordsAt(NodesOf(<< a, b >>), e))] = at
      BY <2>2, <2>3
    <2> QED BY <2>1, <2>4 DEF Compute, Lift, Fresh
  <1>2. sshr(a, b) = Made(at, stab, leaks)
    <2>1. Width(a) = w
      BY ValueParts DEF Good
    <2> HIDE DEF at
    <2> QED BY <1>1, <2>1, StabilizedFresh DEF sshr
  <1>3. ASSUME NEW x \in Bools(w), NEW y \in Bools(u)
        PROVE  /\ f[x][y] \in Bools(w)
               /\ \A i \in 1 .. w : Number(y) \in 0 .. (w - i) => f[x][y][i] = x[i + Number(y)]
               /\ \A i \in 1 .. w : ~(Number(y) \in 0 .. (w - i)) => f[x][y][i] = x[w]
    <2>1. DOMAIN x = 1 .. w /\ Len(x) = w
      BY Sequences1 DEF Bools
    <2>2. f[x][y] = FSshr(<< x, y >>)
      BY DEF Table2
    <2> DEFINE n == Number(y)
    <2>3. f[x][y] = [i \in 1 .. w |-> IF n \in 0 .. (w - i) THEN x[i + n] ELSE x[w]]
      BY <2>1, <2>2 DEF FSshr, ShrFilling
    <2> HIDE DEF f, n
    <2>4. \A i \in 1 .. w : n \in 0 .. (w - i) => i + n \in i .. w
      OBVIOUS
    <2>5. \A i \in 1 .. w : n \in 0 .. (w - i) => f[x][y][i] = x[i + n]
      BY <2>3, <2>4 DEF Bools
    <2>6. \A i \in 1 .. w : ~(n \in 0 .. (w - i)) => f[x][y][i] = x[w]
      BY <2>3 DEF Bools
    <2>7. \A i \in 1 .. w : f[x][y][i] \in BOOLEAN
      BY <2>4, <2>5, <2>6 DEF Bools
    <2> QED BY <2>3, <2>5, <2>6, <2>7 DEF Bools, n
  <1>4. f \in Functions2(w, u, w)
    BY <1>3 DEF Functions2, Table2
  <1>5. near \in [1 .. w -> SUBSET (1 .. w)]
    OBVIOUS
  <1>6. ASSUME NEW x \in Bools(w), NEW z \in Bools(w), NEW y \in Bools(u), NEW i \in 1 .. w,
               \A j \in near[i] : x[j] = z[j]
        PROVE  f[x][y][i] = f[z][y][i]
    <2> HIDE DEF f
    <2> DEFINE n == Number(y)
    <2>1. \A j \in i .. w : x[j] = z[j]
      BY <1>6
    <2> HIDE DEF n
    <2>2. n \in 0 .. (w - i) => i + n \in i .. w
      OBVIOUS
    <2>3. f[x][y] \in Bools(w) /\ f[z][y] \in Bools(w)
      BY <1>3
    <2>4. CASE n \in 0 .. (w - i)
      BY <1>3, <2>1, <2>2, <2>4 DEF n
    <2>5. CASE ~(n \in 0 .. (w - i))
      <3>1. f[x][y][i] = x[w] /\ f[z][y][i] = z[w]
        BY <1>3, <2>5 DEF n
      <3>2. x[w] = z[w]
        BY <2>1
      <3> QED BY <3>1, <3>2
    <2> QED BY <2>4, <2>5
  <1>7. /\ stab \in Bools(w) /\ \A i \in 1 .. w : stab[i] => is_fully_stable(a) /\ is_fully_stable(b)
        /\ leaks \in LeakSets(w) /\ \A i \in 1 .. w : flatten(b.ls) \subseteq At(leaks, i)
        /\ \A i \in 1 .. w : \A j \in near[i] : At(a.ls, j) \subseteq At(leaks, i)
    BY WholeBits, ValueParts, ShiftAt DEF Good
  <1> HIDE DEF stab, leaks, f, at, near
  <1>8. at = Through2(f, OwnSight(a), OwnSight(b))
    BY DEF at
  <1>9. Sound2(Made(at, stab, leaks), w, f, a, b)
    BY <1>4, <1>5, <1>6, <1>7, <1>8, ShiftSound
  <1> QED BY <1>2, <1>4, <1>9 DEF f

-----------------------------------------------------------------------------
(* Wiring                                                                  *)

\* Bit i of V is bit m[i] of v, or the stable constant 0 when m[i] = 0.  Its
\* leaks are those of the bit it comes from, but for constants.
SameLeaks(V, v, i, j) ==
  /\ At(V.ls, i) \subseteq At(v.ls, j)
  /\ \A g \in At(v.ls, j) : ~IsConstBit(g) => g \in At(V.ls, i)
Wired(V, v, m, n) ==
  /\ V \in Values(n)
  /\ \A i \in 1 .. n : m[i] # 0 => /\ V.node[i] = v.node[m[i]] /\ V.data[i] = v.data[m[i]]
                                   /\ V.stab[i] = v.stab[m[i]] /\ SameLeaks(V, v, i, m[i])
  /\ \A i \in 1 .. n : m[i] = 0 => /\ V.node[i] = {} /\ ~V.data[i]
                                   /\ V.stab[i] /\ At(V.ls, i) = {}

LEMMA SameSight ==
  ASSUME NEW w \in Nat, NEW X \in Sights1(w), NEW Y \in Sights1(w),
         \A e \in Env : \A i \in 1 .. w : X[e][i] = Y[e][i]
  PROVE  X = Y
  <1>1. ASSUME NEW e \in Env PROVE X[e] = Y[e]
    <2>1. X[e] \in Bools(w) /\ Y[e] \in Bools(w)
      BY DEF Sights1
    <2> QED BY <2>1 DEF Bools
  <1> QED BY <1>1 DEF Sights1

LEMMA WiredSound ==
  ASSUME NEW u \in Nat, NEW n \in Nat, NEW v, Good(v, u), NEW V,
         NEW m \in [1 .. n -> 0 .. u], Wired(V, v, m, n), NEW f \in Functions1(u, n),
         \A x \in Bools(u) : \A i \in 1 .. n : /\ m[i] # 0 => f[x][i] = x[m[i]]
                                               /\ m[i] = 0 => ~f[x][i]
  PROVE  Sound1(V, n, f, v)
  <1>1. /\ V \in Values(n) /\ DOMAIN V.node = 1 .. n /\ Width(V) = n /\ V.data \in Bools(n)
        /\ v \in Values(u) /\ DOMAIN v.node = 1 .. u /\ Pure(v) /\ Agrees(v)
        /\ V.node \in Nodes(n) /\ v.node \in Nodes(u) /\ Env0 \in Env
    BY BoundAssumption, ValueParts DEF Wired, Good
  <1>2. Pure(V)
    <2>1. ASSUME NEW i \in 1 .. n, V.stab[i] PROVE At(V.ls, i) = Own(V.node[i])
      <3>1. CASE m[i] = 0
        BY <3>1 DEF Wired, Own, IsConstBit
      <3>2. CASE m[i] # 0
        <4>1. m[i] \in 1 .. u /\ v.stab[m[i]] /\ V.node[i] = v.node[m[i]] /\ SameLeaks(V, v, i, m[i])
          BY <2>1, <3>2 DEF Wired
        <4>2. At(v.ls, m[i]) = Own(v.node[m[i]])
          BY <1>1, <4>1 DEF Pure
        <4>3. \A g \in Own(v.node[m[i]]) : ~IsConstBit(g)
          BY DEF Own
        <4> DEFINE own == Own(v.node[m[i]])
        <4>4. own = Own(V.node[i])
          BY <4>1
        <4> HIDE DEF own
        <4>5. At(V.ls, i) = own
          <5>1. At(v.ls, m[i]) = own /\ \A g \in own : ~IsConstBit(g)
            BY <4>2, <4>3 DEF own
          <5> QED BY <4>1, <5>1 DEF SameLeaks
        <4> QED BY <4>4, <4>5
      <3> QED BY <3>1, <3>2
    <2> QED BY <1>1, <2>1 DEF Pure
  <1>3. Agrees(V)
    <2>1. ASSUME NEW i \in 1 .. n PROVE V.data[i] = (Env0 \in V.node[i])
      <3>1. CASE m[i] = 0
        <4>1. V.data[i] \in BOOLEAN /\ ~V.data[i] /\ ~(Env0 \in V.node[i])
          BY <1>1, <3>1 DEF Wired, Bools
        <4> QED BY <4>1
      <3>2. CASE m[i] # 0
        BY <1>1, <3>2 DEF Wired, Agrees
      <3> QED BY <3>1, <3>2
    <2> QED BY <1>1, <2>1 DEF Agrees
  <1>4. ASSUME NEW X, Sighted(v, X) PROVE Sighted(V, Through1(f, X))
    <2> DEFINE Z == Through1(f, X)
    <2>1. X \in Sights1(u) /\ Z \in Sights1(n) /\ \A e \in Env : Z[e] = f[X[e]] /\ X[e] \in Bools(u)
      BY <1>4, SightParts DEF Through1, Sights1, Functions1
    <2> HIDE DEF Z
    <2>4. ASSUME NEW e \in Env, NEW i \in 1 .. n PROVE Z[e][i] \in BOOLEAN /\ (m[i] = 0 => ~Z[e][i])
      <3>1. Z[e] \in Bools(n)
        BY <2>1 DEF Sights1
      <3> QED BY <2>1, <3>1 DEF Bools
    <2>2. ASSUME NEW i \in 1 .. n, NEW e \in Env, V.stab[i] PROVE Z[e][i] = (e \in V.node[i])
      <3>1. CASE m[i] = 0
        <4>1. Z[e][i] \in BOOLEAN /\ ~Z[e][i] /\ ~(e \in V.node[i])
          BY <2>4, <3>1 DEF Wired
        <4> QED BY <4>1
      <3>2. CASE m[i] # 0
        <4>1. Z[e][i] = X[e][m[i]] /\ m[i] \in 1 .. u /\ v.stab[m[i]]
          BY <2>1, <2>2, <3>2 DEF Wired
        <4>2. X[e][m[i]] = (e \in v.node[m[i]])
          BY <1>4, <4>1, SightParts
        <4> QED BY <3>2, <4>1, <4>2 DEF Wired
      <3> QED BY <3>1, <3>2
    <2>3. ASSUME NEW i \in 1 .. n, NEW d \in Env, NEW e \in Env, Same(d, e, At(V.ls, i))
          PROVE  Z[d][i] = Z[e][i]
      <3>1. CASE m[i] = 0
        <4>1. Z[d][i] \in BOOLEAN /\ ~Z[d][i] /\ Z[e][i] \in BOOLEAN /\ ~Z[e][i]
          BY <2>4, <3>1
        <4> QED BY <4>1
      <3>2. CASE m[i] # 0
        <4>1. Z[d][i] = X[d][m[i]] /\ Z[e][i] = X[e][m[i]] /\ m[i] \in 1 .. u
          BY <2>1, <3>2
        <4>2. Same(d, e, At(v.ls, m[i]))
          BY <2>3, <3>2, SameConst DEF Wired, SameLeaks
        <4> QED BY <1>4, <4>1, <4>2, SightParts
      <3> QED BY <3>1, <3>2
    <2> QED BY <1>1, <2>1, <2>2, <2>3 DEF Sighted, Z
  <1>5. OwnSight(V) = Through1(f, OwnSight(v))
    <2> DEFINE Z == Through1(f, OwnSight(v))
    <2>1. /\ OwnSight(v) \in Sights1(u) /\ OwnSight(V) \in Sights1(n)
          /\ \A e \in Env : \A i \in 1 .. n : OwnSight(V)[e][i] = (e \in V.node[i])
          /\ \A e \in Env : \A i \in 1 .. u : OwnSight(v)[e][i] = (e \in v.node[i])
      BY <1>1, OwnWord
    <2>2. Z \in Sights1(n) /\ \A e \in Env : Z[e] = f[OwnSight(v)[e]] /\ OwnSight(v)[e] \in Bools(u)
      BY <2>1 DEF Through1, Sights1, Functions1
    <2> HIDE DEF Z
    <2>3. ASSUME NEW e \in Env, NEW i \in 1 .. n PROVE Z[e][i] = OwnSight(V)[e][i]
      <3>1. CASE m[i] = 0
        <4>1. Z[e][i] \in BOOLEAN /\ ~Z[e][i] /\ ~(e \in V.node[i])
          BY <2>2, <3>1 DEF Wired, Sights1, Bools
        <4> QED BY <2>1, <4>1
      <3>2. CASE m[i] # 0
        <4>1. Z[e][i] = OwnSight(v)[e][m[i]] /\ m[i] \in 1 .. u
          BY <2>2, <3>2
        <4> QED BY <2>1, <3>2, <4>1 DEF Wired
      <3> QED BY <3>1, <3>2
    <2> QED BY <2>1, <2>2, <2>3, SameSight DEF Z
  <1>6. Told(V)
    <2>1. Sighted(V, OwnSight(V))
      BY <1>4, <1>5, OwnSighted
    <2> QED BY <1>1, <2>1, OwnWord DEF Sighted, Told
  <1> QED BY <1>1, <1>2, <1>3, <1>4, <1>5, <1>6 DEF Sound1, Good

Rewired(ls, m, n) == [i \in 1 .. n |-> IF m[i] = 0 THEN {} ELSE At(ls, m[i])]

LEMMA WiredLeaks ==
  ASSUME NEW n \in Nat, NEW r \in Leaks(n), NEW q, q = r \/ q = OrNull(r)
  PROVE  /\ q \in LeakSets(n)
         /\ \A i \in 1 .. n : At(q, i) \subseteq r[i]
         /\ \A i \in 1 .. n : \A g \in r[i] : ~IsConstBit(g) => g \in At(q, i)
  <1>1. r # NULL
    BY LeaksReal
  <1>2. CASE q = r
    BY <1>1, <1>2 DEF At, LeakSets
  <1>3. CASE q = OrNull(r)
    <2>1. ASSUME NEW i \in 1 .. n
          PROVE  At(q, i) \subseteq r[i] /\ \A g \in r[i] : ~IsConstBit(g) => g \in At(q, i)
      BY <1>3, OrNullKeeps
    <2>2. q \in LeakSets(n)
      BY <1>3 DEF OrNull, LeakSets
    <2> QED BY <2>1, <2>2
  <1> QED BY <1>2, <1>3

LEMMA SubSeqBits ==
  ASSUME NEW u \in Nat, NEW begin \in 1 .. u, NEW end \in begin .. u, NEW S, NEW f \in [1 .. u -> S]
  PROVE  SubSeq(f, begin, end) = [i \in 1 .. (end - begin + 1) |-> f[i + begin - 1]]
  OBVIOUS

\* What a wiring makes of the bits of v
LEMMA WiredParts ==
  ASSUME NEW u \in Nat, NEW n \in Nat, NEW v \in Values(u), NEW m \in [1 .. n -> 0 .. u],
         NEW data \in Bools(n), NEW node \in Nodes(n), NEW stab \in Bools(n), NEW ls,
         \A i \in 1 .. n : m[i] # 0 => /\ data[i] = v.data[m[i]] /\ node[i] = v.node[m[i]]
                                       /\ stab[i] = v.stab[m[i]],
         \A i \in 1 .. n : m[i] = 0 => ~data[i] /\ node[i] = {} /\ stab[i],
         (v.ls = NULL /\ ls = NULL) \/ ls = Rewired(v.ls, m, n) \/ ls = OrNull(Rewired(v.ls, m, n))
  PROVE  Wired([data |-> data, node |-> node, stab |-> stab, ls |-> ls], v, m, n)
  <1> DEFINE r == Rewired(v.ls, m, n)
  <1>1. v.ls \in LeakSets(u) /\ \A i \in 1 .. n : m[i] # 0 => m[i] \in 1 .. u
    BY ValueParts
  <1>2. \A i \in 1 .. n : /\ m[i] = 0 => r[i] = {}
                          /\ m[i] # 0 => r[i] = At(v.ls, m[i])
    BY DEF Rewired
  <1>3. r \in Leaks(n)
    <2>1. \A i \in 1 .. n : m[i] # 0 => At(v.ls, m[i]) \in SUBSET SUBSET Env
      BY <1>1, AtLeaks
    <2> QED BY <2>1 DEF Leaks, Rewired
  <1>4. CASE v.ls = NULL /\ ls = NULL
    <2>1. ls \in LeakSets(n) /\ \A i \in 1 .. n : At(ls, i) = {} /\ At(v.ls, m[i]) = {}
      BY <1>4 DEF LeakSets, At
    <2> QED BY <2>1 DEF Values, Wired, SameLeaks
  <1>5. CASE ls = r \/ ls = OrNull(r)
    <2> HIDE DEF r
    <2>1. /\ ls \in LeakSets(n)
          /\ \A i \in 1 .. n : At(ls, i) \subseteq r[i]
          /\ \A i \in 1 .. n : \A g \in r[i] : ~IsConstBit(g) => g \in At(ls, i)
      BY <1>3, <1>5, WiredLeaks
    <2> QED BY <1>2, <2>1 DEF Values, Wired, SameLeaks
  <1> QED BY <1>4, <1>5

LEMMA WiredSlice ==
  ASSUME NEW u \in Nat, NEW v \in Values(u), NEW begin \in 1 .. u, NEW end \in begin .. u,
         NEW n, n = end - begin + 1, NEW m, m = [i \in 1 .. n |-> i + begin - 1]
  PROVE  n \in Nat /\ m \in [1 .. n -> 0 .. u] /\ Wired(slice(v, begin, end), v, m, n)
  <1> DEFINE data == SubSeq(v.data, begin, end)
             node == SubSeq(v.node, begin, end)
             stab == SubSeq(v.stab, begin, end)
             ls == extract(v.ls, begin, end)
             r == Rewired(v.ls, m, n)
  <1>1. n \in Nat /\ m \in [1 .. n -> 0 .. u] /\ \A i \in 1 .. n : m[i] = i + begin - 1 /\ m[i] \in 1 .. u
    OBVIOUS
  <1>2. /\ v.data \in [1 .. u -> BOOLEAN] /\ v.node \in [1 .. u -> SUBSET Env]
        /\ v.stab \in [1 .. u -> BOOLEAN] /\ v.ls \in LeakSets(u)
    BY ValueParts DEF Bools, Nodes
  <1>3. /\ data = [i \in 1 .. n |-> v.data[i + begin - 1]]
        /\ node = [i \in 1 .. n |-> v.node[i + begin - 1]]
        /\ stab = [i \in 1 .. n |-> v.stab[i + begin - 1]]
    <2>1. data = [i \in 1 .. n |-> v.data[i + begin - 1]]
      BY <1>2, SubSeqBits
    <2>2. node = [i \in 1 .. n |-> v.node[i + begin - 1]]
      BY <1>2, SubSeqBits
    <2>3. stab = [i \in 1 .. n |-> v.stab[i + begin - 1]]
      BY <1>2, SubSeqBits
    <2> QED BY <2>1, <2>2, <2>3
  <1>4. (v.ls = NULL /\ ls = NULL) \/ ls = OrNull(r)
    <2>1. CASE v.ls = NULL
      BY <2>1 DEF extract
    <2>2. CASE v.ls # NULL
      <3>1. v.ls \in [1 .. u -> SUBSET SUBSET Env]
        BY <1>2, <2>2 DEF LeakSets, Leaks
      <3>2. SubSeq(v.ls, begin, end) = [i \in 1 .. n |-> v.ls[i + begin - 1]]
        BY <3>1, SubSeqBits
      <3>3. SubSeq(v.ls, begin, end) = r
        BY <1>1, <2>2, <3>2 DEF At, Rewired
      <3> QED BY <2>2, <3>3 DEF extract
    <2> QED BY <2>1, <2>2
  <1>5. slice(v, begin, end) = [data |-> data, node |-> node, stab |-> stab, ls |-> ls]
    BY DEF slice
  <1> HIDE DEF r, data, node, stab, ls
  <1>6. data \in Bools(n) /\ node \in Nodes(n) /\ stab \in Bools(n)
    BY <1>1, <1>2, <1>3 DEF Bools, Nodes
  <1>7. \A i \in 1 .. n : data[i] = v.data[m[i]] /\ node[i] = v.node[m[i]] /\ stab[i] = v.stab[m[i]]
    BY <1>1, <1>3
  <1>8. \A i \in 1 .. n : m[i] # 0
    BY <1>1
  <1>9. Wired([data |-> data, node |-> node, stab |-> stab, ls |-> ls], v, m, n)
    BY ZenonT(40), <1>1, <1>4, <1>6, <1>7, <1>8, WiredParts DEF r
  <1> QED BY <1>1, <1>5, <1>9

Slices(u, begin, end) == [x \in Bools(u) |-> SubSeq(x, begin, end)]

LEMMA SliceSound ==
  ASSUME NEW u \in Nat, NEW v, Good(v, u), NEW begin \in 1 .. u, NEW end \in begin .. u
  PROVE  Sound1(slice(v, begin, end), end - begin + 1, Slices(u, begin, end), v)
  <1> DEFINE n == end - begin + 1
             m == [i \in 1 .. n |-> i + begin - 1]
             f == Slices(u, begin, end)
  <1>1. n \in Nat /\ m \in [1 .. n -> 0 .. u] /\ Wired(slice(v, begin, end), v, m, n)
    BY WiredSlice DEF Good
  <1>2. ASSUME NEW x \in Bools(u) PROVE f[x] = [i \in 1 .. n |-> x[i + begin - 1]]
    <2>1. SubSeq(x, begin, end) = [i \in 1 .. n |-> x[i + begin - 1]]
      BY SubSeqBits DEF Bools
    <2> QED BY <2>1 DEF Slices
  <1>3. \A i \in 1 .. n : m[i] = i + begin - 1 /\ m[i] # 0 /\ m[i] \in 1 .. u
    OBVIOUS
  <1>4. f \in Functions1(u, n)
    <2>1. ASSUME NEW x \in Bools(u) PROVE f[x] \in Bools(n)
      <3>1. \A i \in 1 .. n : x[i + begin - 1] \in BOOLEAN
        BY <1>3 DEF Bools
      <3> QED BY <1>2, <3>1 DEF Bools
    <2> QED BY <2>1 DEF Functions1, Slices
  <1>5. \A x \in Bools(u) : \A i \in 1 .. n : (m[i] # 0 => f[x][i] = x[m[i]]) /\ (m[i] = 0 => ~f[x][i])
    BY <1>2, <1>3
  <1> HIDE DEF f, m, n
  <1>6. Sound1(slice(v, begin, end), n, f, v)
    BY <1>1, <1>4, <1>5, WiredSound
  <1> QED BY <1>6 DEF f, n

\* Where the bits of an extended word come from
ZextFrom(u, w) == [i \in 1 .. w |-> IF i <= u THEN i ELSE 0]
SextFrom(u, w) == [i \in 1 .. w |-> IF i <= u THEN i ELSE u]
RzextFrom(u, w) == [i \in 1 .. w |-> IF i <= w - u THEN 0 ELSE i - (w - u)]

LEMMA WiredZext ==
  ASSUME NEW u \in Nat, NEW v \in Values(u), NEW w \in Nat, u <= w
  PROVE  ZextFrom(u, w) \in [1 .. w -> 0 .. u] /\ Wired(zext(v, w), v, ZextFrom(u, w), w)
  <1> DEFINE m == ZextFrom(u, w)
             data == [i \in 1 .. w |-> IF i <= u THEN v.data[i] ELSE FALSE]
             node == [i \in 1 .. w |-> IF i <= u THEN v.node[i] ELSE {}]
             stab == [i \in 1 .. w |-> IF i <= u THEN v.stab[i] ELSE TRUE]
             ls == extend(v.ls, w)
  <1>1. /\ m \in [1 .. w -> 0 .. u]
        /\ \A i \in 1 .. w : (i <= u => m[i] = i /\ m[i] # 0) /\ (~(i <= u) => m[i] = 0)
    BY DEF ZextFrom
  <1>2. /\ v.data \in [1 .. u -> BOOLEAN] /\ v.node \in [1 .. u -> SUBSET Env]
        /\ v.stab \in [1 .. u -> BOOLEAN] /\ v.ls \in LeakSets(u) /\ Width(v) = u
    BY ValueParts DEF Bools, Nodes
  <1>3. data \in Bools(w) /\ \A i \in 1 .. w : (i <= u => data[i] = v.data[i]) /\ (~(i <= u) => ~data[i])
    <2>1. \A i \in 1 .. w : i <= u => data[i] = v.data[i]
      OBVIOUS
    <2>2. \A i \in 1 .. w : ~(i <= u) => ~data[i]
      OBVIOUS
    <2>3. \A i \in 1 .. u : v.data[i] \in BOOLEAN
      BY <1>2
    <2>4. data = [i \in 1 .. w |-> data[i]]
      OBVIOUS
    <2>5. ASSUME NEW i \in 1 .. w, ~(i <= u) PROVE data[i] \in BOOLEAN
      BY <2>5
    <2> HIDE DEF data
    <2>6. \A i \in 1 .. w : data[i] \in BOOLEAN
      BY <2>1, <2>3, <2>5
    <2> QED BY <2>1, <2>2, <2>4, <2>6 DEF Bools
  <1>4. node \in Nodes(w) /\ \A i \in 1 .. w : (i <= u => node[i] = v.node[i]) /\ (~(i <= u) => node[i] = {})
    BY <1>2 DEF Nodes
  <1>5. stab \in Bools(w) /\ \A i \in 1 .. w : (i <= u => stab[i] = v.stab[i]) /\ (~(i <= u) => stab[i])
    <2>1. \A i \in 1 .. w : i <= u => stab[i] = v.stab[i]
      OBVIOUS
    <2>2. \A i \in 1 .. w : ~(i <= u) => stab[i]
      OBVIOUS
    <2>3. \A i \in 1 .. u : v.stab[i] \in BOOLEAN
      BY <1>2
    <2>4. stab = [i \in 1 .. w |-> stab[i]]
      OBVIOUS
    <2>5. ASSUME NEW i \in 1 .. w, ~(i <= u) PROVE stab[i] \in BOOLEAN
      BY <2>5
    <2> HIDE DEF stab
    <2>6. \A i \in 1 .. w : stab[i] \in BOOLEAN
      BY <2>1, <2>3, <2>5
    <2> QED BY <2>1, <2>2, <2>4, <2>6 DEF Bools
  <1>6. (v.ls = NULL /\ ls = NULL) \/ ls = Rewired(v.ls, m, w)
    <2>1. CASE v.ls = NULL
      BY <2>1 DEF extend
    <2>2. CASE v.ls # NULL
      <3>1. Len(v.ls) = u
        BY <1>2, <2>2, Sequences1 DEF LeakSets, Leaks
      <3>2. ls = [i \in 1 .. w |-> IF i <= u THEN v.ls[i] ELSE {}]
        BY <2>2, <3>1 DEF extend
      <3> HIDE DEF m, ls
      <3> QED BY <1>1, <2>2, <3>2 DEF At, Rewired
    <2> QED BY <2>1, <2>2
  <1>7. zext(v, w) = [data |-> data, node |-> node, stab |-> stab, ls |-> ls]
    BY <1>2 DEF zext
  <1> HIDE DEF m, data, node, stab, ls
  <1>8. Wired([data |-> data, node |-> node, stab |-> stab, ls |-> ls], v, m, w)
    <2>1. \A i \in 1 .. w : m[i] # 0 => /\ data[i] = v.data[m[i]] /\ node[i] = v.node[m[i]]
                                        /\ stab[i] = v.stab[m[i]]
      BY <1>1, <1>3, <1>4, <1>5
    <2>2. \A i \in 1 .. w : m[i] = 0 => ~data[i] /\ node[i] = {} /\ stab[i]
      BY <1>1, <1>3, <1>4, <1>5
    <2> QED BY <1>1, <1>3, <1>4, <1>5, <1>6, <2>1, <2>2, WiredParts
  <1> QED BY <1>1, <1>7, <1>8 DEF m

LEMMA WiredSext ==
  ASSUME NEW u \in Nat, u # 0, NEW v \in Values(u), NEW w \in Nat, u <= w
  PROVE  SextFrom(u, w) \in [1 .. w -> 0 .. u] /\ Wired(sext(v, w), v, SextFrom(u, w), w)
  <1> DEFINE m == SextFrom(u, w)
             data == [i \in 1 .. w |-> IF i <= u THEN v.data[i] ELSE v.data[u]]
             node == [i \in 1 .. w |-> IF i <= u THEN v.node[i] ELSE v.node[u]]
             stab == [i \in 1 .. w |-> IF i <= u THEN v.stab[i] ELSE v.stab[u]]
             ls == sextend(v.ls, w)
  <1>1. /\ m \in [1 .. w -> 0 .. u]
        /\ \A i \in 1 .. w : m[i] \in 1 .. u /\ m[i] # 0 /\ (i <= u => m[i] = i) /\ (~(i <= u) => m[i] = u)
    BY DEF SextFrom
  <1>2. /\ v.data \in [1 .. u -> BOOLEAN] /\ v.node \in [1 .. u -> SUBSET Env]
        /\ v.stab \in [1 .. u -> BOOLEAN] /\ v.ls \in LeakSets(u) /\ Width(v) = u
    BY ValueParts DEF Bools, Nodes
  <1>3. \A i \in 1 .. w : data[i] = v.data[m[i]] /\ node[i] = v.node[m[i]] /\ stab[i] = v.stab[m[i]]
    BY <1>1
  <1>4. /\ data = [i \in 1 .. w |-> data[i]] /\ node = [i \in 1 .. w |-> node[i]]
        /\ stab = [i \in 1 .. w |-> stab[i]]
    OBVIOUS
  <1>5. (v.ls = NULL /\ ls = NULL) \/ ls = Rewired(v.ls, m, w)
    <2>1. CASE v.ls = NULL
      BY <2>1 DEF sextend
    <2>2. CASE v.ls # NULL
      <3>1. Len(v.ls) = u
        BY <1>2, <2>2, Sequences1 DEF LeakSets, Leaks
      <3>2. ls = [i \in 1 .. w |-> IF i <= u THEN v.ls[i] ELSE v.ls[u]]
        BY <2>2, <3>1 DEF sextend
      <3> HIDE DEF m, ls
      <3> QED BY <1>1, <2>2, <3>2 DEF At, Rewired
    <2> QED BY <2>1, <2>2
  <1>6. sext(v, w) = [data |-> data, node |-> node, stab |-> stab, ls |-> ls]
    BY <1>2 DEF sext
  <1> HIDE DEF m, data, node, stab, ls
  <1>7. data \in Bools(w) /\ node \in Nodes(w) /\ stab \in Bools(w)
    <2>1. data \in Bools(w)
      BY <1>1, <1>2, <1>3, <1>4 DEF Bools
    <2>2. node \in Nodes(w)
      BY <1>1, <1>2, <1>3, <1>4 DEF Nodes
    <2>3. stab \in Bools(w)
      BY <1>1, <1>2, <1>3, <1>4 DEF Bools
    <2> QED BY <2>1, <2>2, <2>3
  <1>8. Wired([data |-> data, node |-> node, stab |-> stab, ls |-> ls], v, m, w)
    BY <1>1, <1>3, <1>5, <1>7, WiredParts
  <1> QED BY <1>1, <1>6, <1>8 DEF m

LEMMA WiredRzext ==
  ASSUME NEW u \in Nat, NEW v \in Values(u), NEW w \in Nat, u <= w
  PROVE  RzextFrom(u, w) \in [1 .. w -> 0 .. u] /\ Wired(rzext(v, w), v, RzextFrom(u, w), w)
  <1> DEFINE m == RzextFrom(u, w)
             data == [i \in 1 .. w |-> IF i > w - u THEN v.data[i - (w - u)] ELSE FALSE]
             node == [i \in 1 .. w |-> IF i > w - u THEN v.node[i - (w - u)] ELSE {}]
             stab == [i \in 1 .. w |-> IF i > w - u THEN v.stab[i - (w - u)] ELSE TRUE]
             ls == rextend(v.ls, w)
  <1>1. /\ m \in [1 .. w -> 0 .. u]
        /\ \A i \in 1 .. w : (i > w - u => m[i] = i - (w - u) /\ m[i] \in 1 .. u /\ m[i] # 0)
                             /\ (~(i > w - u) => m[i] = 0)
    BY DEF RzextFrom
  <1>2. /\ v.data \in [1 .. u -> BOOLEAN] /\ v.node \in [1 .. u -> SUBSET Env]
        /\ v.stab \in [1 .. u -> BOOLEAN] /\ v.ls \in LeakSets(u) /\ Width(v) = u
    BY ValueParts DEF Bools, Nodes
  <1>3. data \in Bools(w) /\ \A i \in 1 .. w : (i > w - u => data[i] = v.data[i - (w - u)]) /\ (~(i > w - u) => ~data[i])
    <2>1. \A i \in 1 .. w : i > w - u => data[i] = v.data[i - (w - u)]
      OBVIOUS
    <2>2. \A i \in 1 .. w : ~(i > w - u) => ~data[i]
      OBVIOUS
    <2>3. \A i \in 1 .. w : i > w - u => v.data[i - (w - u)] \in BOOLEAN
      BY <1>2
    <2>4. data = [i \in 1 .. w |-> data[i]]
      OBVIOUS
    <2>5. ASSUME NEW i \in 1 .. w, ~(i > w - u) PROVE data[i] \in BOOLEAN
      BY <2>5
    <2> HIDE DEF data
    <2>6. \A i \in 1 .. w : data[i] \in BOOLEAN
      BY <2>1, <2>3, <2>5
    <2> QED BY <2>1, <2>2, <2>4, <2>6 DEF Bools
  <1>4. node \in Nodes(w) /\ \A i \in 1 .. w : (i > w - u => node[i] = v.node[i - (w - u)])
                                               /\ (~(i > w - u) => node[i] = {})
    BY <1>2 DEF Nodes
  <1>5. stab \in Bools(w) /\ \A i \in 1 .. w : (i > w - u => stab[i] = v.stab[i - (w - u)]) /\ (~(i > w - u) => stab[i])
    <2>1. \A i \in 1 .. w : i > w - u => stab[i] = v.stab[i - (w - u)]
      OBVIOUS
    <2>2. \A i \in 1 .. w : ~(i > w - u) => stab[i]
      OBVIOUS
    <2>3. \A i \in 1 .. w : i > w - u => v.stab[i - (w - u)] \in BOOLEAN
      BY <1>2
    <2>4. stab = [i \in 1 .. w |-> stab[i]]
      OBVIOUS
    <2>5. ASSUME NEW i \in 1 .. w, ~(i > w - u) PROVE stab[i] \in BOOLEAN
      BY <2>5
    <2> HIDE DEF stab
    <2>6. \A i \in 1 .. w : stab[i] \in BOOLEAN
      BY <2>1, <2>3, <2>5
    <2> QED BY <2>1, <2>2, <2>4, <2>6 DEF Bools
  <1>6. (v.ls = NULL /\ ls = NULL) \/ ls = Rewired(v.ls, m, w)
    <2>1. CASE v.ls = NULL
      BY <2>1 DEF rextend
    <2>2. CASE v.ls # NULL
      <3>1. Len(v.ls) = u
        BY <1>2, <2>2, Sequences1 DEF LeakSets, Leaks
      <3>2. ls = [i \in 1 .. w |-> IF i > w - u THEN v.ls[i - (w - u)] ELSE {}]
        BY <2>2, <3>1 DEF rextend
      <3> HIDE DEF m, ls
      <3> QED BY <1>1, <2>2, <3>2 DEF At, Rewired
    <2> QED BY <2>1, <2>2
  <1>7. rzext(v, w) = [data |-> data, node |-> node, stab |-> stab, ls |-> ls]
    BY <1>2 DEF rzext
  <1> HIDE DEF m, data, node, stab, ls
  <1>8. Wired([data |-> data, node |-> node, stab |-> stab, ls |-> ls], v, m, w)
    <2>1. \A i \in 1 .. w : m[i] # 0 => /\ data[i] = v.data[m[i]] /\ node[i] = v.node[m[i]]
                                        /\ stab[i] = v.stab[m[i]]
      BY <1>1, <1>3, <1>4, <1>5
    <2>2. \A i \in 1 .. w : m[i] = 0 => ~data[i] /\ node[i] = {} /\ stab[i]
      BY <1>1, <1>3, <1>4, <1>5
    <2> QED BY <1>1, <1>3, <1>4, <1>5, <1>6, <2>1, <2>2, WiredParts
  <1> QED BY <1>1, <1>7, <1>8 DEF m

LEMMA RepeatSound ==
  ASSUME NEW v, Good(v, 1), NEW n \in Nat
  PROVE  Sound1(repeat(v, n), n, [x \in Bools(1) |-> [i \in 1 .. n |-> x[1]]], v)
  <1> DEFINE m == [i \in 1 .. n |-> 1]
             f == [x \in Bools(1) |-> [i \in 1 .. n |-> x[1]]]
             data == AllBits(n, v.data[1])
             node == AllBits(n, v.node[1])
             stab == AllBits(n, v.stab[1])
             ls == replicate(v.ls, n)
  <1>1. m \in [1 .. n -> 0 .. 1] /\ \A i \in 1 .. n : m[i] = 1 /\ m[i] # 0
    OBVIOUS
  <1>2. /\ v.data \in [1 .. 1 -> BOOLEAN] /\ v.node \in [1 .. 1 -> SUBSET Env]
        /\ v.stab \in [1 .. 1 -> BOOLEAN] /\ v.ls \in LeakSets(1)
    BY ValueParts DEF Good, Bools, Nodes
  <1>3. /\ data \in Bools(n) /\ node \in Nodes(n) /\ stab \in Bools(n)
        /\ \A i \in 1 .. n : data[i] = v.data[1] /\ node[i] = v.node[1] /\ stab[i] = v.stab[1]
    <2>1. data \in Bools(n) /\ stab \in Bools(n)
      BY <1>2 DEF AllBits, Bools
    <2>2. node \in Nodes(n)
      BY <1>2 DEF AllBits, Nodes
    <2> QED BY <2>1, <2>2 DEF AllBits
  <1>4. (v.ls = NULL /\ ls = NULL) \/ ls = Rewired(v.ls, m, n)
    <2>1. CASE v.ls = NULL
      BY <2>1 DEF replicate
    <2>2. CASE v.ls # NULL
      BY <1>1, <2>2 DEF replicate, At, Rewired
    <2> QED BY <2>1, <2>2
  <1>5. repeat(v, n) = [data |-> data, node |-> node, stab |-> stab, ls |-> ls]
    BY DEF repeat
  <1>6. f \in Functions1(1, n)
    BY DEF Functions1, Bools
  <1>7. \A x \in Bools(1) : \A i \in 1 .. n : /\ m[i] # 0 => f[x][i] = x[m[i]]
                                              /\ m[i] = 0 => ~f[x][i]
    BY <1>1
  <1> HIDE DEF m, data, node, stab, ls, f
  <1>8. Wired([data |-> data, node |-> node, stab |-> stab, ls |-> ls], v, m, n)
    BY <1>1, <1>3, <1>4, WiredParts DEF Good
  <1>9. Sound1(repeat(v, n), n, f, v)
    BY <1>1, <1>5, <1>6, <1>7, <1>8, WiredSound
  <1> QED BY <1>9 DEF f

CastTable(u, n, signed) == [x \in Bools(u) |-> CastWord(x, n, signed)]
Casted(v, n, signed) == IF signed THEN scast(v, n) ELSE zcast(v, n)

LEMMA CastTableType ==
  ASSUME NEW u \in Nat, u # 0, NEW n \in Nat, NEW signed \in BOOLEAN
  PROVE  CastTable(u, n, signed) \in Functions1(u, n)
  <1>1. ASSUME NEW x \in Bools(u) PROVE CastWord(x, n, signed) \in Bools(n)
    <2>1. Len(x) = u /\ u \in 1 .. u /\ \A i \in 1 .. u : x[i] \in BOOLEAN
      BY Sequences1 DEF Bools
    <2>2. ASSUME NEW i \in 1 .. n
          PROVE  (IF i <= Len(x) THEN x[i] ELSE signed /\ x[Len(x)]) \in BOOLEAN
      <3>1. CASE i <= u
        BY <2>1, <3>1
      <3>2. CASE ~(i <= u)
        BY <2>1, <3>2
      <3> QED BY <3>1, <3>2
    <2> QED BY <2>2 DEF CastWord, Bools
  <1> QED BY <1>1 DEF CastTable, Functions1

LEMMA ZextSound ==
  ASSUME NEW u \in Nat, u # 0, NEW n \in Nat, u <= n, NEW v, Good(v, u)
  PROVE  Sound1(zext(v, n), n, CastTable(u, n, FALSE), v)
  <1> DEFINE m == ZextFrom(u, n)
             f == CastTable(u, n, FALSE)
  <1>1. m \in [1 .. n -> 0 .. u] /\ Wired(zext(v, n), v, m, n)
    BY WiredZext DEF Good
  <1>2. \A i \in 1 .. n : (i <= u => m[i] = i) /\ (~(i <= u) => m[i] = 0)
    BY DEF ZextFrom
  <1>3. f \in Functions1(u, n)
    BY CastTableType
  <1>4. ASSUME NEW x \in Bools(u), NEW i \in 1 .. n
        PROVE  (m[i] # 0 => f[x][i] = x[m[i]]) /\ (m[i] = 0 => ~f[x][i])
    <2>1. Len(x) = u
      BY Sequences1 DEF Bools
    <2>2. f[x] = [l \in 1 .. n |-> IF l <= u THEN x[l] ELSE FALSE /\ x[u]]
      BY <2>1 DEF CastTable, CastWord
    <2> HIDE DEF m, f
    <2>3. CASE i <= u
      BY <1>2, <2>2, <2>3
    <2>4. CASE ~(i <= u)
      BY <1>2, <2>2, <2>4
    <2> QED BY <2>3, <2>4
  <1> HIDE DEF m, f
  <1>5. Sound1(zext(v, n), n, f, v)
    BY <1>1, <1>3, <1>4, WiredSound
  <1> QED BY <1>5 DEF f

LEMMA SextSound ==
  ASSUME NEW u \in Nat, u # 0, NEW n \in Nat, u <= n, NEW v, Good(v, u)
  PROVE  Sound1(sext(v, n), n, CastTable(u, n, TRUE), v)
  <1> DEFINE m == SextFrom(u, n)
             f == CastTable(u, n, TRUE)
  <1>1. m \in [1 .. n -> 0 .. u] /\ Wired(sext(v, n), v, m, n)
    BY WiredSext DEF Good
  <1>2. \A i \in 1 .. n : (i <= u => m[i] = i) /\ (~(i <= u) => m[i] = u) /\ m[i] # 0
    BY DEF SextFrom
  <1>3. f \in Functions1(u, n)
    BY CastTableType
  <1>4. ASSUME NEW x \in Bools(u), NEW i \in 1 .. n
        PROVE  (m[i] # 0 => f[x][i] = x[m[i]]) /\ (m[i] = 0 => ~f[x][i])
    <2>1. Len(x) = u /\ \A l \in 1 .. u : x[l] \in BOOLEAN
      BY Sequences1 DEF Bools
    <2>2. f[x] = [l \in 1 .. n |-> IF l <= u THEN x[l] ELSE TRUE /\ x[u]]
      BY <2>1 DEF CastTable, CastWord
    <2> HIDE DEF m, f
    <2>3. CASE i <= u
      BY <1>2, <2>2, <2>3
    <2>4. CASE ~(i <= u)
      BY <1>2, <2>1, <2>2, <2>4
    <2> QED BY <1>2, <2>3, <2>4
  <1> HIDE DEF m, f
  <1>5. Sound1(sext(v, n), n, f, v)
    BY <1>1, <1>3, <1>4, WiredSound
  <1> QED BY <1>5 DEF f

LEMMA CastSound ==
  ASSUME NEW u \in Nat, u # 0, NEW n \in Nat, n # 0, NEW v, Good(v, u), NEW signed \in BOOLEAN
  PROVE  Sound1(Casted(v, n, signed), n, CastTable(u, n, signed), v)
  <1>1. Width(v) = u
    BY ValueParts DEF Good
  <1>2. CASE n < u
    <2>1. Casted(v, n, signed) = slice(v, 1, n)
      BY <1>1, <1>2 DEF Casted, scast, zcast, trunc
    <2>2. 1 \in 1 .. u /\ n \in 1 .. u /\ n - 1 + 1 = n
      BY <1>2
    <2>3. ASSUME NEW x \in Bools(u) PROVE SubSeq(x, 1, n) = CastWord(x, n, signed)
      <3>1. SubSeq(x, 1, n) = [i \in 1 .. (n - 1 + 1) |-> x[i + 1 - 1]]
        BY <2>2, SubSeqBits DEF Bools
      <3>2. Len(x) = u
        BY Sequences1 DEF Bools
      <3>3. CastWord(x, n, signed) = [i \in 1 .. n |-> x[i]]
        BY <1>2, <3>2 DEF CastWord
      <3>4. [i \in 1 .. (n - 1 + 1) |-> x[i + 1 - 1]] = [i \in 1 .. n |-> x[i]]
        BY <2>2
      <3> QED BY <3>1, <3>3, <3>4
    <2>4. Slices(u, 1, n) = CastTable(u, n, signed)
      BY <2>3 DEF Slices, CastTable
    <2>5. Sound1(slice(v, 1, n), n - 1 + 1, Slices(u, 1, n), v)
      BY <2>2, SliceSound
    <2> QED BY <2>1, <2>2, <2>4, <2>5
  <1>3. CASE u <= n
    <2>1. ~(n < u)
      BY <1>3
    <2>2. Sound1(sext(v, n), n, CastTable(u, n, TRUE), v)
      BY <1>3, SextSound
    <2>3. Sound1(zext(v, n), n, CastTable(u, n, FALSE), v)
      BY <1>3, ZextSound
    <2>4. scast(v, n) = sext(v, n) /\ zcast(v, n) = zext(v, n)
      BY <1>1, <2>1 DEF scast, zcast
    <2>5. CASE signed = TRUE
      BY <2>2, <2>4, <2>5 DEF Casted
    <2>6. CASE signed = FALSE
      BY <2>3, <2>4, <2>6 DEF Casted
    <2> QED BY <2>5, <2>6
  <1>4. n < u \/ u <= n
    OBVIOUS
  <1> QED BY <1>2, <1>3, <1>4

\* Composed tables
Comp1(h, g) == [x \in DOMAIN h |-> g[h[x]]]
Comp2(h, k, g) == [x \in DOMAIN h |-> [y \in DOMAIN k |-> g[h[x]][k[y]]]]
After2(g, k) == [x \in DOMAIN g |-> [y \in DOMAIN g[x] |-> k[g[x][y]]]]

LEMMA Compose1 ==
  ASSUME NEW w \in Nat, NEW u \in Nat, NEW n, NEW a, Good(a, w), NEW U, NEW V,
         NEW h \in Functions1(w, u), NEW g, Sound1(U, u, h, a), Sound1(V, n, g, U)
  PROVE  Sound1(V, n, Comp1(h, g), a)
  <1>1. ASSUME NEW X, Sighted(a, X) PROVE Through1(g, Through1(h, X)) = Through1(Comp1(h, g), X)
    <2>1. \A e \in Env : X[e] \in Bools(w)
      BY <1>1, SightParts
    <2> QED BY <2>1 DEF Through1, Comp1, Functions1
  <1>2. Sighted(a, OwnSight(a))
    BY OwnSighted
  <1> QED BY <1>1, <1>2 DEF Sound1

LEMMA Compose2 ==
  ASSUME NEW w \in Nat, NEW u \in Nat, NEW p \in Nat, NEW q \in Nat, NEW n,
         NEW a, Good(a, w), NEW b, Good(b, u), NEW A, NEW B, NEW V,
         NEW h \in Functions1(w, p), NEW k \in Functions1(u, q), NEW g,
         Sound1(A, p, h, a), Sound1(B, q, k, b), Sound2(V, n, g, A, B)
  PROVE  Sound2(V, n, Comp2(h, k, g), a, b)
  <1>1. ASSUME NEW X, Sighted(a, X), NEW Y, Sighted(b, Y)
        PROVE  Through2(g, Through1(h, X), Through1(k, Y)) = Through2(Comp2(h, k, g), X, Y)
    <2>1. \A e \in Env : X[e] \in Bools(w) /\ Y[e] \in Bools(u)
      BY <1>1, SightParts
    <2> QED BY <2>1 DEF Through1, Through2, Comp2, Functions1
  <1>2. Sighted(a, OwnSight(a)) /\ Sighted(b, OwnSight(b))
    BY OwnSighted
  <1> QED BY <1>1, <1>2 DEF Sound1, Sound2

LEMMA ComposeAfter ==
  ASSUME NEW w \in Nat, NEW u \in Nat, NEW m \in Nat, NEW n,
         NEW a, Good(a, w), NEW b, Good(b, u), NEW U, NEW V,
         NEW g \in Functions2(w, u, m), NEW k, Sound2(U, m, g, a, b), Sound1(V, n, k, U)
  PROVE  Sound2(V, n, After2(g, k), a, b)
  <1>1. ASSUME NEW X, Sighted(a, X), NEW Y, Sighted(b, Y)
        PROVE  Through1(k, Through2(g, X, Y)) = Through2(After2(g, k), X, Y)
    <2>1. \A e \in Env : X[e] \in Bools(w) /\ Y[e] \in Bools(u)
      BY <1>1, SightParts
    <2>2. \A x \in Bools(w) : \A y \in Bools(u) : After2(g, k)[x][y] = k[g[x][y]]
      BY DEF After2, Functions2
    <2> QED BY <2>1, <2>2 DEF Through1, Through2
  <1>2. Sighted(a, OwnSight(a)) /\ Sighted(b, OwnSight(b))
    BY OwnSighted
  <1> QED BY <1>1, <1>2 DEF Sound1, Sound2

\* Bit i of V is bit j of v.
Copied(V, i, v, j) ==
  V.node[i] = v.node[j] /\ V.data[i] = v.data[j] /\ V.stab[i] = v.stab[j] /\ SameLeaks(V, v, i, j)

LEMMA CopiedBit ==
  ASSUME NEW u \in Nat, NEW v, Good(v, u), NEW V, NEW i, NEW j \in 1 .. u, Copied(V, i, v, j)
  PROVE  /\ V.stab[i] => At(V.ls, i) = Own(V.node[i])
         /\ V.data[i] = (Env0 \in V.node[i])
         /\ \A X : Sighted(v, X) =>
              /\ \A e \in Env : V.stab[i] => X[e][j] = (e \in V.node[i])
              /\ \A d, e \in Env : Same(d, e, At(V.ls, i)) => X[d][j] = X[e][j]
         /\ \A e \in Env : OwnSight(v)[e][j] = (e \in V.node[i])
  <1>1. v \in Values(u) /\ DOMAIN v.node = 1 .. u /\ Pure(v) /\ Agrees(v)
    BY ValueParts DEF Good
  <1>2. ASSUME V.stab[i] PROVE At(V.ls, i) = Own(V.node[i])
    <2> DEFINE own == Own(v.node[j])
    <2>1. At(v.ls, j) = own /\ SameLeaks(V, v, i, j)
      BY <1>1, <1>2 DEF Pure, Copied
    <2>2. own = Own(V.node[i]) /\ \A g \in own : ~IsConstBit(g)
      BY DEF Copied, Own
    <2> HIDE DEF own
    <2>3. At(V.ls, i) = own
      BY <2>1, <2>2 DEF SameLeaks
    <2> QED BY <2>2, <2>3
  <1>3. V.data[i] = (Env0 \in V.node[i])
    BY <1>1 DEF Agrees, Copied
  <1>4. ASSUME NEW X, Sighted(v, X), NEW e \in Env, V.stab[i] PROVE X[e][j] = (e \in V.node[i])
    <2>1. v.stab[j] /\ V.node[i] = v.node[j]
      BY <1>4 DEF Copied
    <2>2. X[e][j] = (e \in v.node[j])
      BY <1>4, <2>1, SightParts
    <2> QED BY <2>1, <2>2
  <1>5. ASSUME NEW X, Sighted(v, X), NEW d \in Env, NEW e \in Env, Same(d, e, At(V.ls, i))
        PROVE  X[d][j] = X[e][j]
    <2>1. Same(d, e, At(v.ls, j))
      BY <1>5, SameConst DEF Copied, SameLeaks
    <2> QED BY <1>5, <2>1, SightParts
  <1>6. \A e \in Env : OwnSight(v)[e][j] = (e \in V.node[i])
    BY <1>1, OwnWord DEF Copied
  <1> QED BY <1>2, <1>3, <1>4, <1>5, <1>6

\* A word whose bits are bits of two others
LEMMA JoinedSound ==
  ASSUME NEW w \in Nat, NEW u \in Nat, NEW n \in Nat, NEW a, Good(a, w), NEW b, Good(b, u),
         NEW V \in Values(n), NEW f \in Functions2(w, u, n),
         \A i \in 1 .. n :
           \/ \E j \in 1 .. w : /\ Copied(V, i, a, j)
                                /\ \A x \in Bools(w) : \A y \in Bools(u) : f[x][y][i] = x[j]
           \/ \E j \in 1 .. u : /\ Copied(V, i, b, j)
                                /\ \A x \in Bools(w) : \A y \in Bools(u) : f[x][y][i] = y[j]
  PROVE  Sound2(V, n, f, a, b)
  <1>1. DOMAIN V.node = 1 .. n /\ Width(V) = n
    BY ValueParts
  <1>2. ASSUME NEW i \in 1 .. n
        PROVE  (V.stab[i] => At(V.ls, i) = Own(V.node[i])) /\ V.data[i] = (Env0 \in V.node[i])
    <2>1. CASE \E j \in 1 .. w : Copied(V, i, a, j)
      BY <2>1, CopiedBit
    <2>2. CASE \E j \in 1 .. u : Copied(V, i, b, j)
      BY <2>2, CopiedBit
    <2> QED BY <2>1, <2>2
  <1>3. ASSUME NEW X, Sighted(a, X), NEW Y, Sighted(b, Y)
        PROVE  /\ Sighted(V, Through2(f, X, Y))
               /\ X = OwnSight(a) /\ Y = OwnSight(b) => OwnSight(V) = Through2(f, X, Y)
    <2> DEFINE Z == Through2(f, X, Y)
               Fit(i) == /\ \A e \in Env : V.stab[i] => Z[e][i] = (e \in V.node[i])
                         /\ \A d, e \in Env : Same(d, e, At(V.ls, i)) => Z[d][i] = Z[e][i]
                         /\ X = OwnSight(a) /\ Y = OwnSight(b) =>
                              \A e \in Env : Z[e][i] = (e \in V.node[i])
    <2>1. /\ X \in Sights1(w) /\ Y \in Sights1(u) /\ Z \in Sights1(n)
          /\ \A e \in Env : Z[e] = f[X[e]][Y[e]] /\ X[e] \in Bools(w) /\ Y[e] \in Bools(u)
      <3>1. X \in Sights1(w) /\ Y \in Sights1(u)
        BY <1>3, SightParts
      <3>2. Z \in Sights1(n)
        BY <3>1, ThroughTypes
      <3> QED BY <3>1, <3>2 DEF Through2, Sights1
    <2> HIDE DEF Z
    <2>2. ASSUME NEW i \in 1 .. n
          PROVE  Fit(i)
      <3>1. ASSUME NEW j \in 1 .. w, Copied(V, i, a, j),
                   \A x \in Bools(w) : \A y \in Bools(u) : f[x][y][i] = x[j]
            PROVE  Fit(i)
        <4>1. ASSUME NEW e \in Env PROVE Z[e][i] = X[e][j]
          <5>1. Z[e] = f[X[e]][Y[e]] /\ X[e] \in Bools(w) /\ Y[e] \in Bools(u)
            BY <2>1
          <5>2. f[X[e]][Y[e]][i] = X[e][j]
            BY <3>1, <5>1
          <5> QED BY <5>1, <5>2
        <4> QED BY <1>3, <3>1, <4>1, CopiedBit
      <3>2. ASSUME NEW j \in 1 .. u, Copied(V, i, b, j),
                   \A x \in Bools(w) : \A y \in Bools(u) : f[x][y][i] = y[j]
            PROVE  Fit(i)
        <4>1. ASSUME NEW e \in Env PROVE Z[e][i] = Y[e][j]
          <5>1. Z[e] = f[X[e]][Y[e]] /\ X[e] \in Bools(w) /\ Y[e] \in Bools(u)
            BY <2>1
          <5>2. f[X[e]][Y[e]][i] = Y[e][j]
            BY <3>2, <5>1
          <5> QED BY <5>1, <5>2
        <4> QED BY <1>3, <3>2, <4>1, CopiedBit
      <3> QED BY <3>1, <3>2
    <2>3. Sighted(V, Z)
      BY <1>1, <2>1, <2>2 DEF Sighted
    <2>4. ASSUME X = OwnSight(a), Y = OwnSight(b) PROVE OwnSight(V) = Z
      <3>1. \A e \in Env : \A i \in 1 .. n : OwnSight(V)[e][i] = Z[e][i]
        BY <2>2, <2>4, OwnWord
      <3> QED BY <2>1, <3>1, OwnWord, SameSight
    <2> QED BY <2>3, <2>4 DEF Z
  <1>4. Sighted(a, OwnSight(a)) /\ Sighted(b, OwnSight(b))
    BY OwnSighted
  <1>5. Told(V)
    <2>1. Sighted(V, OwnSight(V))
      BY <1>3, <1>4
    <2> QED BY <1>1, <2>1, OwnWord DEF Sighted, Told
  <1>6. Good(V, n)
    BY <1>1, <1>2, <1>5 DEF Good, Pure, Agrees
  <1> QED BY <1>3, <1>4, <1>6 DEF Sound2

Blits(w, at) == [x \in Bools(w) |-> [y \in Bools(1) |-> [x EXCEPT ![at] = y[1]]]]

LEMMA BlitSound ==
  ASSUME NEW w \in Nat, NEW a, Good(a, w), NEW b, Good(b, 1), NEW at \in 1 .. w
  PROVE  Sound2(blit_value(a, b, at, at), w, Blits(w, at), a, b)
  <1> DEFINE data == [i \in 1 .. w |-> IF i \in at .. at THEN b.data[i - at + 1] ELSE a.data[i]]
             node == [i \in 1 .. w |-> IF i \in at .. at THEN b.node[i - at + 1] ELSE a.node[i]]
             stab == [i \in 1 .. w |-> IF i \in at .. at THEN b.stab[i - at + 1] ELSE a.stab[i]]
             raw == [i \in 1 .. w |-> IF i \in at .. at THEN At(b.ls, i - at + 1) ELSE At(a.ls, i)]
             ls == blit(a.ls, b.ls, at, at, w)
             V == blit_value(a, b, at, at)
             f == Blits(w, at)
  <1>1. /\ a.data \in Bools(w) /\ a.node \in Nodes(w) /\ a.stab \in Bools(w) /\ Width(a) = w
        /\ DOMAIN a.data = 1 .. w /\ DOMAIN a.node = 1 .. w /\ DOMAIN a.stab = 1 .. w
        /\ b.data \in Bools(1) /\ b.node \in Nodes(1) /\ b.stab \in Bools(1)
        /\ a.ls \in LeakSets(w) /\ b.ls \in LeakSets(1) /\ 1 \in 1 .. 1
    BY ValueParts DEF Good
  <1>2. V = [data |-> data, node |-> node, stab |-> stab, ls |-> ls]
    BY <1>1 DEF blit_value
  <1>3. /\ data[at] = b.data[1] /\ node[at] = b.node[1] /\ stab[at] = b.stab[1] /\ raw[at] = At(b.ls, 1)
        /\ \A i \in (1 .. w) \ {at} : /\ data[i] = a.data[i] /\ node[i] = a.node[i]
                                      /\ stab[i] = a.stab[i] /\ raw[i] = At(a.ls, i)
    OBVIOUS
  <1>4. /\ data = [i \in 1 .. w |-> data[i]] /\ node = [i \in 1 .. w |-> node[i]]
        /\ stab = [i \in 1 .. w |-> stab[i]] /\ raw = [i \in 1 .. w |-> raw[i]]
    OBVIOUS
  <1>5. a.ls = NULL /\ b.ls = NULL => ls = NULL
    BY DEF blit
  <1>6. ~(a.ls = NULL /\ b.ls = NULL) => ls = OrNull(raw)
    BY DEF blit
  <1> HIDE DEF data, node, stab, raw, ls
  <1>7. data \in Bools(w) /\ node \in Nodes(w) /\ stab \in Bools(w)
    <2>1. data \in Bools(w)
      BY <1>1, <1>3, <1>4 DEF Bools
    <2>2. node \in Nodes(w)
      BY <1>1, <1>3, <1>4 DEF Nodes
    <2>3. stab \in Bools(w)
      BY <1>1, <1>3, <1>4 DEF Bools
    <2> QED BY <2>1, <2>2, <2>3
  <1>8. raw \in Leaks(w)
    <2>1. At(b.ls, 1) \in SUBSET SUBSET Env /\ \A i \in 1 .. w : At(a.ls, i) \in SUBSET SUBSET Env
      BY <1>1, AtLeaks
    <2> QED BY <1>3, <1>4, <2>1 DEF Leaks
  <1>9. /\ ls \in LeakSets(w)
        /\ \A i \in 1 .. w : At(ls, i) \subseteq raw[i] /\ \A g \in raw[i] : ~IsConstBit(g) => g \in At(ls, i)
    <2>1. CASE a.ls = NULL /\ b.ls = NULL
      <3>1. \A i \in 1 .. w : raw[i] = {} /\ At(ls, i) = {}
        BY <1>3, <1>5, <2>1 DEF At
      <3> QED BY <1>5, <2>1, <3>1 DEF LeakSets
    <2>2. CASE ls = OrNull(raw)
      BY <1>8, <2>2, WiredLeaks
    <2> QED BY <1>6, <2>1, <2>2
  <1>10. V \in Values(w)
    BY <1>2, <1>7, <1>9 DEF Values
  <1>11. Copied(V, at, b, 1)
    BY <1>2, <1>3, <1>9 DEF Copied, SameLeaks
  <1>12. \A i \in (1 .. w) \ {at} : Copied(V, i, a, i)
    BY <1>2, <1>3, <1>9 DEF Copied, SameLeaks
  <1>13. \A x \in Bools(w) : \A y \in Bools(1) :
           /\ f[x][y] \in Bools(w) /\ f[x][y][at] = y[1]
           /\ \A i \in (1 .. w) \ {at} : f[x][y][i] = x[i]
    BY DEF Blits, Bools
  <1>14. f \in Functions2(w, 1, w)
    BY <1>13 DEF Blits, Functions2
  <1> HIDE DEF V, f
  <1>15. \A i \in 1 .. w :
           \/ \E j \in 1 .. w : /\ Copied(V, i, a, j)
                                /\ \A x \in Bools(w) : \A y \in Bools(1) : f[x][y][i] = x[j]
           \/ \E j \in 1 .. 1 : /\ Copied(V, i, b, j)
                                /\ \A x \in Bools(w) : \A y \in Bools(1) : f[x][y][i] = y[j]
    BY <1>1, <1>11, <1>12, <1>13
  <1>16. Sound2(V, w, f, a, b)
    BY <1>10, <1>14, <1>15, JoinedSound
  <1> QED BY <1>16 DEF V, f

RzextTable == [x \in Bools(1) |-> [i \in 1 .. 2 |-> IF i = 1 THEN FALSE ELSE x[1]]]
Joins == [x \in Bools(1) |-> [y \in Bools(1) |-> [i \in 1 .. 2 |-> IF i = 1 THEN y[1] ELSE x[1]]]]

LEMMA ConcatSound ==
  ASSUME NEW a, Good(a, 1), NEW b, Good(b, 1)
  PROVE  Sound2(concat(a, b), 2, Joins, a, b)
  <1> DEFINE m == RzextFrom(1, 2)
             h == RzextTable
             k == CastTable(1, 2, FALSE)
             g == Table2(FOr, 2, 2)
  <1>1. Width(a) = 1 /\ Width(b) = 1
    BY ValueParts DEF Good
  <1>2. concat(a, b) = bit_or(rzext(a, 2), zext(b, 2))
    BY <1>1 DEF concat
  <1>3. Sound1(zext(b, 2), 2, k, b) /\ k \in Functions1(1, 2)
    <2>1. 1 \in Nat /\ 2 \in Nat /\ 1 # 0 /\ 1 <= 2 /\ FALSE \in BOOLEAN
      OBVIOUS
    <2>2. CastTable(1, 2, FALSE) \in Functions1(1, 2)
      BY <2>1, CastTableType
    <2>3. Sound1(zext(b, 2), 2, CastTable(1, 2, FALSE), b)
      BY <2>1, ZextSound
    <2> QED BY <2>2, <2>3
  <1>4. m \in [1 .. 2 -> 0 .. 1] /\ Wired(rzext(a, 2), a, m, 2)
    <2>1. a \in Values(1) /\ 1 \in Nat /\ 2 \in Nat /\ 1 <= 2
      BY DEF Good
    <2> QED BY <2>1, WiredRzext
  <1>5. m[1] = 0 /\ m[2] = 1 /\ 1 .. 2 = {1, 2} /\ 1 .. 1 = {1}
    BY DEF RzextFrom
  <1>6. ASSUME NEW x \in Bools(1)
        PROVE  h[x] \in Bools(2) /\ ~h[x][1] /\ h[x][2] = x[1]
    <2>1. x[1] \in BOOLEAN
      BY <1>5 DEF Bools
    <2>2. h[x] = [i \in 1 .. 2 |-> IF i = 1 THEN FALSE ELSE x[1]]
      BY DEF RzextTable
    <2>3. h[x] \in Bools(2)
      BY <2>1, <2>2 DEF Bools
    <2>4. ~h[x][1]
      BY <1>5, <2>2
    <2>5. h[x][2] = x[1]
      <3>1. CASE x[1]
        BY <1>5, <2>1, <2>2, <3>1
      <3>2. CASE ~x[1]
        BY <1>5, <2>1, <2>2, <3>2
      <3> QED BY <3>1, <3>2
    <2> QED BY <2>3, <2>4, <2>5
  <1>7. h \in Functions1(1, 2)
    BY <1>6 DEF RzextTable, Functions1
  <1>8. Sound1(rzext(a, 2), 2, h, a)
    <2>1. \A x \in Bools(1) : \A i \in 1 .. 2 : /\ m[i] # 0 => h[x][i] = x[m[i]]
                                                /\ m[i] = 0 => ~h[x][i]
      BY <1>5, <1>6
    <2>2. 1 \in Nat /\ 2 \in Nat
      OBVIOUS
    <2> HIDE DEF m, h
    <2> QED BY ZenonT(40), <1>4, <1>7, <2>1, <2>2, WiredSound
  <1>9. Sound2(concat(a, b), 2, Comp2(h, k, g), a, b)
    <2>1. Good(rzext(a, 2), 2) /\ Good(zext(b, 2), 2)
      BY <1>3, <1>8 DEF Sound1
    <2>2. Sound2(concat(a, b), 2, g, rzext(a, 2), zext(b, 2))
      BY <1>2, <2>1, OrSound
    <2> HIDE DEF h, k, g
    <2> QED BY <1>3, <1>7, <1>8, <2>2, Compose2
  <1>10. ASSUME NEW x \in Bools(1), NEW y \in Bools(1) 
        PROVE  g[h[x]][k[y]] = [i \in 1 .. 2 |-> IF i = 1 THEN y[1] ELSE x[1]]
    <2>1. k[y] = [i \in 1 .. 2 |-> IF i <= 1 THEN y[i] ELSE FALSE /\ y[1]] /\ k[y] \in Bools(2)
      <3>1. Len(y) = 1
        BY Sequences1 DEF Bools
      <3> QED BY <1>3, <3>1 DEF CastTable, CastWord, Functions1
    <2>2. k[y][1] = y[1] /\ ~k[y][2] /\ x[1] \in BOOLEAN /\ y[1] \in BOOLEAN
      <3>1. x[1] \in BOOLEAN /\ y[1] \in BOOLEAN
        BY <1>5 DEF Bools
      <3> HIDE DEF k
      <3>2. k[y][1] = y[1]
        BY <1>5, <2>1
      <3>3. ~k[y][2]
        <4>1. k[y][2] = IF 2 <= 1 THEN y[2] ELSE FALSE /\ y[1]
          BY <1>5, <2>1
        <4>2. ~(2 <= 1)
          OBVIOUS
        <4> QED BY <4>1, <4>2
      <3> QED BY <3>1, <3>2, <3>3
    <2>3. g[h[x]][k[y]] = [i \in 1 .. 2 |-> h[x][i] \/ k[y][i]]
      BY <1>6, <2>1 DEF Table2, FOr, Bools
    <2> HIDE DEF g, h, k
    <2>4. (h[x][1] \/ k[y][1]) = y[1] /\ (h[x][2] \/ k[y][2]) = x[1]
      BY <1>6, <2>2
    <2>5. [i \in 1 .. 2 |-> h[x][i] \/ k[y][i]] = [i \in 1 .. 2 |-> IF i = 1 THEN y[1] ELSE x[1]]
      BY <1>5, <2>4
    <2> QED BY <2>3, <2>5
  <1>11. Comp2(h, k, g) = Joins
    <2>1. DOMAIN h = Bools(1) /\ DOMAIN k = Bools(1)
      BY DEF RzextTable, CastTable
    <2> HIDE DEF h, k, g
    <2> QED BY <1>10, <2>1 DEF Comp2, Joins
  <1> QED BY <1>9, <1>11

-----------------------------------------------------------------------------
(* One-bit results                                                         *)

\* When no operand leaks, the result is a constant: it has nothing to leak.
LEMMA PredicateMade ==
  ASSUME NEW at \in Sights1(1), NEW stable \in BOOLEAN, NEW leaks,
         leaks = NULL => \A d, e \in Env : at[d][1] = at[e][1]
  PROVE  Predicate(Fresh(at), stable, leaks) = Made(at, << stable >>, leaks)
  <1>1. CASE leaks # NULL
    BY <1>1, StabilizedFresh DEF Predicate
  <1>2. CASE leaks = NULL
    <2> DEFINE node == NodeOf(at)
               stab == << stable >>
    <2>1. /\ node \in Nodes(1) /\ DOMAIN node = 1 .. 1 /\ 1 .. 1 = {1}
          /\ \A e \in Env : e \in node[1] <=> at[e][1]
      <3>1. 1 .. 1 = {1} /\ 1 \in Nat
        OBVIOUS
      <3>2. /\ node \in Nodes(1) /\ DOMAIN node = 1 .. 1
            /\ \A e \in Env : \A i \in 1 .. 1 : e \in node[i] <=> at[e][i]
        BY <3>1, NodeOfTable
      <3> HIDE DEF node
      <3> QED BY <3>1, <3>2
    <2> HIDE DEF node
    <2>2. IsConstBit(node[1])
      <3>1. \A d, e \in Env : d \in node[1] <=> e \in node[1]
        BY <1>2, <2>1
      <3>2. node[1] \in SUBSET Env
        BY <2>1 DEF Nodes
      <3> QED BY <3>1, <3>2 DEF IsConstBit
    <2>3. \A i \in DOMAIN node : (IF stab[i] THEN Own(node[i]) ELSE At(NULL, i)) = {}
      BY <2>1, <2>2 DEF Own, At
    <2>4. partial_stabilize(NULL, node, stab) = NULL
      <3> DEFINE r == [i \in DOMAIN node |-> IF stab[i] THEN Own(node[i]) ELSE At(NULL, i)]
      <3>1. \A i \in DOMAIN r : r[i] = {}
        BY <2>3
      <3>2. partial_stabilize(NULL, node, stab) = OrNull(r)
        BY DEF partial_stabilize
      <3> HIDE DEF r
      <3>3. ~is_ls_real(r)
        BY <3>1 DEF is_ls_real
      <3> QED BY <3>2, <3>3 DEF OrNull
    <2>5. Made(at, stab, leaks) = [data |-> at[Env0], node |-> node, stab |-> stab, ls |-> NULL]
      BY <1>2, <2>4 DEF Made, node
    <2>6. Fresh(at) = [data |-> at[Env0], node |-> node,
                       stab |-> AllBits(Len(at[Env0]), FALSE), ls |-> NULL]
      BY DEF Fresh, node
    <2> HIDE DEF stab
    <2>7. [Fresh(at) EXCEPT !.stab = stab] = [data |-> at[Env0], node |-> node, stab |-> stab, ls |-> NULL]
      BY <2>6
    <2> QED BY <1>2, <2>5, <2>7 DEF Predicate, stab
  <1> QED BY <1>1, <1>2

LEMMA OneBitType ==
  ASSUME NEW b \in BOOLEAN
  PROVE  << b >> \in Bools(1) /\ << b >>[1] = b
  BY DEF Bools

LEMMA PredicateSound1 ==
  ASSUME NEW w \in Nat, NEW a, Good(a, w), NEW f \in Functions1(w, 1),
         NEW stable \in BOOLEAN, NEW leaks \in LeakSets(1),
         flatten(a.ls) \subseteq At(leaks, 1),
         NEW at, at = Through1(f, OwnSight(a)),
         stable => \A X : Sighted(a, X) => Through1(f, X) = at
  PROVE  Sound1(Predicate(Fresh(at), stable, leaks), 1, f, a)
  <1> DEFINE stab == << stable >>
  <1>1. stab \in Bools(1) /\ stab[1] = stable /\ 1 .. 1 = {1}
    BY OneBitType
  <1>2. OwnSight(a) \in Sights1(w) /\ Sighted(a, OwnSight(a))
    BY OwnSighted, OwnWord DEF Good
  <1>3. at \in Sights1(1)
    BY <1>2, ThroughTypes
  <1>4. ASSUME NEW X, Sighted(a, X), NEW d \in Env, NEW e \in Env, Same(d, e, At(leaks, 1))
        PROVE  Through1(f, X)[d] = Through1(f, X)[e]
    <2>1. X[d] = X[e]
      BY <1>4, AllTold DEF Same
    <2> QED BY <2>1 DEF Through1
  <1>5. leaks = NULL => \A d, e \in Env : at[d][1] = at[e][1]
    BY <1>2, <1>4 DEF At, Same
  <1>6. Predicate(Fresh(at), stable, leaks) = Made(at, stab, leaks)
    BY <1>3, <1>5, PredicateMade
  <1> HIDE DEF stab
  <1>7. ASSUME NEW X, Sighted(a, X) PROVE Fits(Through1(f, X), at, stab, leaks, 1)
    <2>1. Through1(f, X) \in Sights1(1)
      BY <1>7, SightParts, ThroughTypes
    <2> QED BY <1>1, <1>4, <1>7, <2>1 DEF Fits
  <1>8. Sound1(Made(at, stab, leaks), 1, f, a)
    BY <1>1, <1>7, MadeSound1
  <1> QED BY <1>6, <1>8

LEMMA PredicateSound2 ==
  ASSUME NEW w \in Nat, NEW u \in Nat, NEW a, Good(a, w), NEW b, Good(b, u),
         NEW f \in Functions2(w, u, 1),
         NEW stable \in BOOLEAN, NEW leaks \in LeakSets(1),
         flatten(a.ls) \subseteq At(leaks, 1), flatten(b.ls) \subseteq At(leaks, 1),
         NEW at, at = Through2(f, OwnSight(a), OwnSight(b)),
         stable => \A X, Y : Sighted(a, X) /\ Sighted(b, Y) => Through2(f, X, Y) = at
  PROVE  Sound2(Predicate(Fresh(at), stable, leaks), 1, f, a, b)
  <1> DEFINE stab == << stable >>
  <1>1. stab \in Bools(1) /\ stab[1] = stable /\ 1 .. 1 = {1}
    BY OneBitType
  <1>2. /\ OwnSight(a) \in Sights1(w) /\ Sighted(a, OwnSight(a))
        /\ OwnSight(b) \in Sights1(u) /\ Sighted(b, OwnSight(b))
    BY OwnSighted, OwnWord DEF Good
  <1>3. at \in Sights1(1)
    BY <1>2, ThroughTypes
  <1>4. ASSUME NEW X, Sighted(a, X), NEW Y, Sighted(b, Y), NEW d \in Env, NEW e \in Env,
               Same(d, e, At(leaks, 1))
        PROVE  Through2(f, X, Y)[d] = Through2(f, X, Y)[e]
    <2>1. X[d] = X[e]
      BY <1>4, AllTold DEF Same
    <2>2. Y[d] = Y[e]
      BY <1>4, AllTold DEF Same
    <2> QED BY <2>1, <2>2 DEF Through2
  <1>5. leaks = NULL => \A d, e \in Env : at[d][1] = at[e][1]
    BY <1>2, <1>4 DEF At, Same
  <1>6. Predicate(Fresh(at), stable, leaks) = Made(at, stab, leaks)
    BY <1>3, <1>5, PredicateMade
  <1> HIDE DEF stab
  <1>7. ASSUME NEW X, Sighted(a, X), NEW Y, Sighted(b, Y)
        PROVE  Fits(Through2(f, X, Y), at, stab, leaks, 1)
    <2>1. Through2(f, X, Y) \in Sights1(1)
      BY <1>7, SightParts, ThroughTypes
    <2> QED BY <1>1, <1>4, <1>7, <2>1 DEF Fits
  <1>8. Sound2(Made(at, stab, leaks), 1, f, a, b)
    BY <1>1, <1>7, MadeSound2
  <1> QED BY <1>6, <1>8

LEMMA ReduceAt ==
  ASSUME NEW w \in Nat, NEW ls \in LeakSets(w)
  PROVE  reduce(ls) \in LeakSets(1) /\ flatten(ls) \subseteq At(reduce(ls), 1)
  <1>1. CASE ls = NULL
    BY <1>1 DEF reduce, At, LeakSets, flatten
  <1>2. CASE ls # NULL
    <2> DEFINE r == << flatten(ls) >>
    <2>1. r \in Leaks(1) /\ r[1] = flatten(ls)
      BY FlattenType DEF Leaks
    <2>2. r # NULL /\ reduce(ls) = r
      BY <1>2, <2>1, LeaksReal DEF reduce
    <2> HIDE DEF r
    <2> QED BY <2>1, <2>2 DEF At, LeakSets
  <1> QED BY <1>1, <1>2

LEMMA ReduceMergeAt ==
  ASSUME NEW w \in Nat, NEW u \in Nat, NEW p \in LeakSets(w), NEW q \in LeakSets(u)
  PROVE  /\ reduce_and_merge(p, q) \in LeakSets(1)
         /\ flatten(p) \subseteq At(reduce_and_merge(p, q), 1)
         /\ flatten(q) \subseteq At(reduce_and_merge(p, q), 1)
  <1>1. CASE p = NULL /\ q = NULL
    BY <1>1 DEF reduce_and_merge, At, LeakSets, flatten
  <1>2. CASE ~(p = NULL /\ q = NULL)
    <2> DEFINE r == << flatten(p) \union flatten(q) >>
    <2>1. flatten(p) \union flatten(q) \in SUBSET SUBSET Env
      BY FlattenType
    <2>2. r \in Leaks(1) /\ r[1] = flatten(p) \union flatten(q)
      BY <2>1 DEF Leaks
    <2>3. r # NULL /\ reduce_and_merge(p, q) = r
      BY <1>2, <2>2, LeaksReal DEF reduce_and_merge
    <2> HIDE DEF r
    <2> QED BY <2>2, <2>3 DEF At, LeakSets
  <1> QED BY <1>1, <1>2

\* A stable constant bit is seen in any sight of a word.
LEMMA HasStableSeen ==
  ASSUME NEW w \in Nat, NEW v, Good(v, w), NEW X, Sighted(v, X), NEW e \in Env
  PROVE  /\ DOMAIN X[e] = 1 .. w
         /\ HasStable(v, TRUE) => \E i \in 1 .. w : X[e][i] /\ OwnSight(v)[e][i]
         /\ HasStable(v, FALSE) => \E i \in 1 .. w : ~X[e][i] /\ ~OwnSight(v)[e][i]
  <1>1. DOMAIN v.stab = 1 .. w /\ DOMAIN X[e] = 1 .. w /\ Sighted(v, OwnSight(v))
    BY OwnSighted, SightParts, ValueParts DEF Good
  <1> QED BY <1>1, ConstantSeen DEF HasStable

LEMMA LogicNotSound ==
  ASSUME NEW w \in Nat, NEW a, Good(a, w)
  PROVE  Sound1(logic_not(a), 1, Table1(FLogicNot, w), a)
  <1> DEFINE f == Table1(FLogicNot, w)
             at == Through1(f, OwnSight(a))
             stable == SettledTrue(a)
             leaks == reduce(a.ls)
  <1>1. Compute(FLogicNot, << a >>) = Fresh(at)
    <2>1. FLogicNot(DataOf(<< a >>)) = at[Env0]
      BY Operands1 DEF Through1, Table1, Sights1
    <2>2. [e \in Env |-> FLogicNot(WordsAt(NodesOf(<< a >>), e))] = at
      BY Operands1 DEF Through1, Table1, Sights1
    <2> QED BY <2>1, <2>2 DEF Compute, Lift, Fresh
  <1>2. \A x \in Bools(w) : f[x] = << ~Any(x) >>
    BY DEF Table1, FLogicNot
  <1>3. f \in Functions1(w, 1)
    <2>1. \A x \in Bools(w) : (~Any(x)) \in BOOLEAN
      BY DEF Any, Every
    <2> HIDE DEF f
    <2>2. \A x \in Bools(w) : f[x] \in Bools(1)
      BY <1>2, <2>1, OneBitType
    <2> QED BY <2>2 DEF Functions1, Table1, f
  <1>4. ASSUME stable, NEW X, Sighted(a, X) PROVE Through1(f, X) = at
    <2>1. CASE is_fully_stable(a)
      <3>1. \A e \in Env : X[e] = OwnSight(a)[e]
        BY <1>4, <2>1, WholeStable
      <3> QED BY <3>1 DEF Through1
    <2>2. CASE HasStable(a, TRUE)
      <3>1. ASSUME NEW e \in Env PROVE f[X[e]] = f[OwnSight(a)[e]]
        <4>1. PICK i \in 1 .. w : X[e][i] /\ OwnSight(a)[e][i]
          BY <1>4, <2>2, HasStableSeen
        <4>2. X[e] \in Bools(w) /\ OwnSight(a)[e] \in Bools(w)
          BY <1>4, SightParts, OwnSighted
        <4>3. Any(X[e]) /\ Any(OwnSight(a)[e])
          BY <4>1, <4>2 DEF Any, Bools
        <4> HIDE DEF f
        <4>4. Any(X[e]) = Any(OwnSight(a)[e])
          BY <4>3 DEF Any
        <4> QED BY <1>2, <4>2, <4>4
      <3> HIDE DEF f
      <3> QED BY <3>1 DEF Through1
    <2> QED BY <1>4, <2>1, <2>2 DEF SettledTrue
  <1>5. leaks \in LeakSets(1) /\ flatten(a.ls) \subseteq At(leaks, 1)
    BY ReduceAt, ValueParts DEF Good
  <1>6. stable \in BOOLEAN
    BY DEF is_fully_stable, HasStable, SettledTrue
  <1>7. logic_not(a) = Predicate(Fresh(at), stable, leaks)
    BY <1>1 DEF logic_not
  <1> HIDE DEF f, at, stable, leaks
  <1>8. at = Through1(f, OwnSight(a))
    BY DEF at
  <1>9. Sound1(logic_not(a), 1, f, a)
    BY <1>3, <1>4, <1>5, <1>6, <1>7, <1>8, PredicateSound1
  <1> QED BY <1>9 DEF f

LEMMA ReduceAndSound ==
  ASSUME NEW w \in Nat, NEW a, Good(a, w)
  PROVE  Sound1(reduce_and(a), 1, Table1(FReduceAnd, w), a)
  <1> DEFINE f == Table1(FReduceAnd, w)
             at == Through1(f, OwnSight(a))
             stable == is_fully_stable(a) \/ HasStable(a, FALSE)
             leaks == reduce(a.ls)
  <1>1. Compute(FReduceAnd, << a >>) = Fresh(at)
    <2>1. FReduceAnd(DataOf(<< a >>)) = at[Env0]
      BY Operands1 DEF Through1, Table1, Sights1
    <2>2. [e \in Env |-> FReduceAnd(WordsAt(NodesOf(<< a >>), e))] = at
      BY Operands1 DEF Through1, Table1, Sights1
    <2> QED BY <2>1, <2>2 DEF Compute, Lift, Fresh
  <1>2. \A x \in Bools(w) : f[x] = << Every(x) >>
    BY DEF Table1, FReduceAnd
  <1>3. f \in Functions1(w, 1)
    <2>1. \A x \in Bools(w) : (Every(x)) \in BOOLEAN
      BY DEF Any, Every
    <2> HIDE DEF f
    <2>2. \A x \in Bools(w) : f[x] \in Bools(1)
      BY <1>2, <2>1, OneBitType
    <2> QED BY <2>2 DEF Functions1, Table1, f
  <1>4. ASSUME stable, NEW X, Sighted(a, X) PROVE Through1(f, X) = at
    <2>1. CASE is_fully_stable(a)
      <3>1. \A e \in Env : X[e] = OwnSight(a)[e]
        BY <1>4, <2>1, WholeStable
      <3> QED BY <3>1 DEF Through1
    <2>2. CASE HasStable(a, FALSE)
      <3>1. ASSUME NEW e \in Env PROVE f[X[e]] = f[OwnSight(a)[e]]
        <4>1. PICK i \in 1 .. w : ~X[e][i] /\ ~OwnSight(a)[e][i]
          BY <1>4, <2>2, HasStableSeen
        <4>2. X[e] \in Bools(w) /\ OwnSight(a)[e] \in Bools(w)
          BY <1>4, SightParts, OwnSighted
        <4>3. ~Every(X[e]) /\ ~Every(OwnSight(a)[e])
          BY <4>1, <4>2 DEF Every, Bools
        <4> HIDE DEF f
        <4>4. Every(X[e]) = Every(OwnSight(a)[e])
          BY <4>3 DEF Every
        <4> QED BY <1>2, <4>2, <4>4
      <3> HIDE DEF f
      <3> QED BY <3>1 DEF Through1
    <2> QED BY <1>4, <2>1, <2>2
  <1>5. leaks \in LeakSets(1) /\ flatten(a.ls) \subseteq At(leaks, 1)
    BY ReduceAt, ValueParts DEF Good
  <1>6. stable \in BOOLEAN
    BY DEF is_fully_stable, HasStable, SettledTrue
  <1>7. reduce_and(a) = Predicate(Fresh(at), stable, leaks)
    BY <1>1 DEF reduce_and
  <1> HIDE DEF f, at, stable, leaks
  <1>8. at = Through1(f, OwnSight(a))
    BY DEF at
  <1>9. Sound1(reduce_and(a), 1, f, a)
    BY <1>3, <1>4, <1>5, <1>6, <1>7, <1>8, PredicateSound1
  <1> QED BY <1>9 DEF f

LEMMA ReduceOrSound ==
  ASSUME NEW w \in Nat, NEW a, Good(a, w)
  PROVE  Sound1(reduce_or(a), 1, Table1(FReduceOr, w), a)
  <1> DEFINE f == Table1(FReduceOr, w)
             at == Through1(f, OwnSight(a))
             stable == SettledTrue(a)
             leaks == reduce(a.ls)
  <1>1. Compute(FReduceOr, << a >>) = Fresh(at)
    <2>1. FReduceOr(DataOf(<< a >>)) = at[Env0]
      BY Operands1 DEF Through1, Table1, Sights1
    <2>2. [e \in Env |-> FReduceOr(WordsAt(NodesOf(<< a >>), e))] = at
      BY Operands1 DEF Through1, Table1, Sights1
    <2> QED BY <2>1, <2>2 DEF Compute, Lift, Fresh
  <1>2. \A x \in Bools(w) : f[x] = << Any(x) >>
    BY DEF Table1, FReduceOr
  <1>3. f \in Functions1(w, 1)
    <2>1. \A x \in Bools(w) : (Any(x)) \in BOOLEAN
      BY DEF Any, Every
    <2> HIDE DEF f
    <2>2. \A x \in Bools(w) : f[x] \in Bools(1)
      BY <1>2, <2>1, OneBitType
    <2> QED BY <2>2 DEF Functions1, Table1, f
  <1>4. ASSUME stable, NEW X, Sighted(a, X) PROVE Through1(f, X) = at
    <2>1. CASE is_fully_stable(a)
      <3>1. \A e \in Env : X[e] = OwnSight(a)[e]
        BY <1>4, <2>1, WholeStable
      <3> QED BY <3>1 DEF Through1
    <2>2. CASE HasStable(a, TRUE)
      <3>1. ASSUME NEW e \in Env PROVE f[X[e]] = f[OwnSight(a)[e]]
        <4>1. PICK i \in 1 .. w : X[e][i] /\ OwnSight(a)[e][i]
          BY <1>4, <2>2, HasStableSeen
        <4>2. X[e] \in Bools(w) /\ OwnSight(a)[e] \in Bools(w)
          BY <1>4, SightParts, OwnSighted
        <4>3. Any(X[e]) /\ Any(OwnSight(a)[e])
          BY <4>1, <4>2 DEF Any, Bools
        <4> HIDE DEF f
        <4>4. Any(X[e]) = Any(OwnSight(a)[e])
          BY <4>3 DEF Any
        <4> QED BY <1>2, <4>2, <4>4
      <3> HIDE DEF f
      <3> QED BY <3>1 DEF Through1
    <2> QED BY <1>4, <2>1, <2>2 DEF SettledTrue
  <1>5. leaks \in LeakSets(1) /\ flatten(a.ls) \subseteq At(leaks, 1)
    BY ReduceAt, ValueParts DEF Good
  <1>6. stable \in BOOLEAN
    BY DEF is_fully_stable, HasStable, SettledTrue
  <1>7. reduce_or(a) = Predicate(Fresh(at), stable, leaks)
    BY <1>1 DEF reduce_or
  <1> HIDE DEF f, at, stable, leaks
  <1>8. at = Through1(f, OwnSight(a))
    BY DEF at
  <1>9. Sound1(reduce_or(a), 1, f, a)
    BY <1>3, <1>4, <1>5, <1>6, <1>7, <1>8, PredicateSound1
  <1> QED BY <1>9 DEF f

LEMMA ReduceXorSound ==
  ASSUME NEW w \in Nat, NEW a, Good(a, w), a.ls = NULL
  PROVE  Sound1(reduce_xor(a), 1, Table1(FReduceXor, w), a)
  <1> DEFINE f == Table1(FReduceXor, w)
             at == Through1(f, OwnSight(a))
             stable == is_fully_stable(a)
             leaks == a.ls
  <1>1. Compute(FReduceXor, << a >>) = Fresh(at)
    <2>1. FReduceXor(DataOf(<< a >>)) = at[Env0]
      BY Operands1 DEF Through1, Table1, Sights1
    <2>2. [e \in Env |-> FReduceXor(WordsAt(NodesOf(<< a >>), e))] = at
      BY Operands1 DEF Through1, Table1, Sights1
    <2> QED BY <2>1, <2>2 DEF Compute, Lift, Fresh
  <1>2. \A x \in Bools(w) : f[x] = << Cardinality({i \in DOMAIN x : x[i]}) % 2 = 1 >>
    BY DEF Table1, FReduceXor
  <1>3. f \in Functions1(w, 1)
    <2>1. \A x \in Bools(w) : (Cardinality({i \in DOMAIN x : x[i]}) % 2 = 1) \in BOOLEAN
      OBVIOUS
    <2> HIDE DEF f
    <2>2. \A x \in Bools(w) : f[x] \in Bools(1)
      BY <1>2, <2>1, OneBitType
    <2> QED BY <2>2 DEF Functions1, Table1, f
  <1>4. ASSUME stable, NEW X, Sighted(a, X) PROVE Through1(f, X) = at
    <2>1. \A e \in Env : X[e] = OwnSight(a)[e]
      BY <1>4, WholeStable
    <2> QED BY <2>1 DEF Through1
  <1>5. leaks \in LeakSets(1) /\ flatten(a.ls) \subseteq At(leaks, 1)
    BY DEF LeakSets, flatten
  <1>6. stable \in BOOLEAN
    BY DEF is_fully_stable, HasStable, SettledTrue
  <1>7. reduce_xor(a) = Predicate(Fresh(at), stable, leaks)
    BY <1>1 DEF reduce_xor, OneBit, Predicate
  <1> HIDE DEF f, at, stable, leaks
  <1>8. at = Through1(f, OwnSight(a))
    BY DEF at
  <1>9. Sound1(reduce_xor(a), 1, f, a)
    BY <1>3, <1>4, <1>5, <1>6, <1>7, <1>8, PredicateSound1
  <1> QED BY <1>9 DEF f

LEMMA ReduceXnorSound ==
  ASSUME NEW w \in Nat, NEW a, Good(a, w), a.ls = NULL
  PROVE  Sound1(reduce_xnor(a), 1, Table1(FReduceXnor, w), a)
  <1> DEFINE f == Table1(FReduceXnor, w)
             at == Through1(f, OwnSight(a))
             stable == is_fully_stable(a)
  <1>1. OneBit(FReduceXnor, << a >>, stable) = [Fresh(at) EXCEPT !.stab = << stable >>]
    <2>1. FReduceXnor(DataOf(<< a >>)) = at[Env0]
      BY Operands1 DEF Through1, Table1, Sights1
    <2>2. [e \in Env |-> FReduceXnor(WordsAt(NodesOf(<< a >>), e))] = at
      BY Operands1 DEF Through1, Table1, Sights1
    <2> QED BY <2>1, <2>2 DEF Compute, Lift, Fresh, OneBit
  <1>2. reduce_xnor(a) = OneBit(FReduceXnor, << a >>, stable)
    BY DEF reduce_xnor, OneBit, Compute, Lift, FReduceXnor
  <1>3. f \in Functions1(w, 1)
    <2>1. ASSUME NEW x \in Bools(w) PROVE FReduceXnor(<< x >>) \in Bools(1)
      <3> DEFINE q == FReduceXor(<< x >>)
      <3>1. DOMAIN q = 1 .. 1
        BY DEF FReduceXor
      <3> HIDE DEF q
      <3>2. FNot(<< q >>) = [i \in 1 .. 1 |-> ~q[i]]
        BY <3>1 DEF FNot
      <3>3. FNot(<< q >>) \in Bools(1)
        BY <3>2 DEF Bools
      <3> QED BY <3>3 DEF FReduceXnor, q
    <2> QED BY <2>1 DEF Functions1, Table1
  <1>4. ASSUME stable, NEW X, Sighted(a, X) PROVE Through1(f, X) = at
    <2>1. \A e \in Env : X[e] = OwnSight(a)[e]
      BY <1>4, WholeStable
    <2> QED BY <2>1 DEF Through1
  <1>5. NULL \in LeakSets(1) /\ flatten(a.ls) \subseteq At(NULL, 1)
    BY DEF LeakSets, flatten
  <1>6. stable \in BOOLEAN
    BY DEF is_fully_stable
  <1>7. reduce_xnor(a) = Predicate(Fresh(at), stable, NULL)
    BY <1>1, <1>2 DEF Predicate
  <1> HIDE DEF f, at, stable
  <1>8. at = Through1(f, OwnSight(a))
    BY DEF at
  <1>9. Sound1(reduce_xnor(a), 1, f, a)
    BY <1>3, <1>4, <1>5, <1>6, <1>7, <1>8, PredicateSound1
  <1> QED BY <1>9 DEF f

\* A constant word is its data in every valuation.
LEMMA ConstOwn ==
  ASSUME NEW w \in Nat, NEW v, Good(v, w), IsConst(v.node), NEW e \in Env
  PROVE  OwnSight(v)[e] = OwnSight(v)[Env0]
  <1>1. /\ DOMAIN v.node = 1 .. w /\ v.node \in Nodes(w) /\ OwnSight(v) \in Sights1(w) /\ Env0 \in Env
        /\ \A d \in Env : \A i \in 1 .. w : OwnSight(v)[d][i] = (d \in v.node[i])
    BY BoundAssumption, ValueParts, OwnWord DEF Good
  <1>2. \A i \in 1 .. w : e \in v.node[i] <=> Env0 \in v.node[i]
    BY <1>1 DEF IsConst, IsConstBit
  <1>3. \A i \in 1 .. w : OwnSight(v)[e][i] = OwnSight(v)[Env0][i]
    BY <1>1, <1>2
  <1>4. OwnSight(v)[e] \in Bools(w) /\ OwnSight(v)[Env0] \in Bools(w)
    BY <1>1 DEF Sights1
  <1> QED BY <1>3, <1>4 DEF Bools

\* Widths to which words of w and of u bits are extended
Extents(w, u) == {m \in Nat : m # 0 /\ w <= m /\ u <= m}

LEMMA Wider ==
  ASSUME NEW w \in Nat, w # 0, NEW u \in Nat, u # 0, NEW a, Good(a, w), NEW b, Good(b, u)
  PROVE  BitsExt(a, b) \in Nat /\ BitsExt(a, b) \in Extents(w, u)
  <1>1. Width(a) = w /\ Width(b) = u
    BY ValueParts DEF Good
  <1> QED BY <1>1 DEF BitsExt, Extents

LEMMA ExtendCasts ==
  ASSUME NEW w \in Nat, NEW v, Good(v, w), NEW m \in Nat, w <= m
  PROVE  zext(v, m) = Casted(v, m, FALSE) /\ sext(v, m) = Casted(v, m, TRUE)
  <1>1. Width(v) = w /\ ~(m < w)
    BY ValueParts DEF Good
  <1> QED BY <1>1 DEF Casted, zcast, scast

\* Two words that differ in stable constant bits differ in whatever is seen.
LEMMA DifferSeen ==
  ASSUME NEW w \in Nat, w # 0, NEW u \in Nat, u # 0, NEW a, Good(a, w), NEW b, Good(b, u),
         NEW m \in Nat, m \in Extents(w, u), NEW signed \in BOOLEAN,
         Differ(a, b, Casted(a, m, signed), Casted(b, m, signed)),
         NEW X, Sighted(a, X), NEW Y, Sighted(b, Y), NEW e \in Env
  PROVE  \E i \in 1 .. m : CastTable(w, m, signed)[X[e]][i] # CastTable(u, m, signed)[Y[e]][i]
  <1> DEFINE h == CastTable(w, m, signed)
             k == CastTable(u, m, signed)
             A == Casted(a, m, signed)
             B == Casted(b, m, signed)
  <1>1. Sound1(A, m, h, a) /\ Sound1(B, m, k, b)
    BY CastSound DEF Extents
  <1>2. X[e] \in Bools(w) /\ Y[e] \in Bools(u)
    BY SightParts
  <1>3. CASE IsConst(a.node) /\ IsConst(b.node)
    <2> HIDE DEF h, k, A, B
    <2>1. Good(A, m) /\ Good(B, m) /\ Sighted(A, Through1(h, X)) /\ Sighted(B, Through1(k, Y))
      BY <1>1 DEF Sound1
    <2>2. Env0 \in Env /\ OwnSight(a)[e] = OwnSight(a)[Env0] /\ OwnSight(b)[e] = OwnSight(b)[Env0]
      BY <1>3, BoundAssumption, ConstOwn
    <2>3. OwnSight(A)[e] = OwnSight(A)[Env0]
      <3>1. OwnSight(A) = Through1(h, OwnSight(a))
        BY <1>1 DEF Sound1
      <3> QED BY <2>2, <3>1 DEF Through1
    <2>4. OwnSight(B)[e] = OwnSight(B)[Env0]
      <3>1. OwnSight(B) = Through1(k, OwnSight(b))
        BY <1>1 DEF Sound1
      <3> QED BY <2>2, <3>1 DEF Through1
    <2>5. PICK i \in DOMAIN A.stab : A.stab[i] /\ B.stab[i] /\ A.data[i] # B.data[i]
      BY <1>3 DEF Differ, A, B
    <2>6. i \in 1 .. m
      BY <2>1, <2>5, ValueParts DEF Good
    <2>7. Through1(h, X)[e][i] = A.data[i]
      <3>1. Through1(h, X)[e][i] = (e \in A.node[i])
        BY <2>1, <2>5, <2>6, SightParts
      <3>2. OwnSight(A)[e][i] = (e \in A.node[i]) /\ A.data = OwnSight(A)[Env0]
        BY <2>1, <2>6, OwnWord, ConcreteWord DEF Good
      <3> QED BY <2>3, <3>1, <3>2
    <2>8. Through1(k, Y)[e][i] = B.data[i]
      <3>1. Through1(k, Y)[e][i] = (e \in B.node[i])
        BY <2>1, <2>5, <2>6, SightParts
      <3>2. OwnSight(B)[e][i] = (e \in B.node[i]) /\ B.data = OwnSight(B)[Env0]
        BY <2>1, <2>6, OwnWord, ConcreteWord DEF Good
      <3> QED BY <2>4, <3>1, <3>2
    <2>9. h[X[e]][i] # k[Y[e]][i]
      BY <2>5, <2>7, <2>8 DEF Through1
    <2> QED BY <2>6, <2>9 DEF h, k
  <1>4. CASE ~(IsConst(a.node) /\ IsConst(b.node))
    <2>1. PICK i \in DOMAIN a.stab \cap DOMAIN b.stab :
            /\ a.stab[i] /\ b.stab[i]
            /\ IsConstBit(a.node[i]) /\ IsConstBit(b.node[i]) /\ a.node[i] # b.node[i]
      BY <1>4 DEF Differ
    <2>2. i \in 1 .. w /\ i \in 1 .. u
      BY <2>1, ValueParts DEF Good
    <2>3. X[e][i] = (e \in a.node[i]) /\ Y[e][i] = (e \in b.node[i])
      BY <2>1, <2>2, SightParts
    <2>4. (e \in a.node[i]) # (e \in b.node[i])
      BY <2>1 DEF IsConstBit
    <2>5. i \in 1 .. m /\ i <= w /\ i <= u
      BY <2>2 DEF Extents
    <2>6. Len(X[e]) = w /\ Len(Y[e]) = u
      BY <1>2, Sequences1 DEF Bools
    <2>7. h[X[e]][i] = X[e][i]
      BY <1>2, <2>5, <2>6 DEF CastTable, CastWord
    <2>8. k[Y[e]][i] = Y[e][i]
      BY <1>2, <2>5, <2>6 DEF CastTable, CastWord
    <2> HIDE DEF h, k
    <2>9. h[X[e]][i] # k[Y[e]][i]
      BY <2>3, <2>4, <2>7, <2>8
    <2> QED BY <2>5, <2>9 DEF h, k
  <1> QED BY <1>3, <1>4

\* The comparison g of words cast to m bits
Compares(w, u, m, signed, g) == Comp2(CastTable(w, m, signed), CastTable(u, m, signed), g)
\* g gives the same result to any two words that differ.
Blind(g, m) == \A x, y, z, t \in Bools(m) : x # y /\ z # t => g[x][y] = g[z][t]

\* A comparison of two words extended to the wider one
LEMMA CompareSound ==
  ASSUME NEW w \in Nat, w # 0, NEW u \in Nat, u # 0, NEW a, Good(a, w), NEW b, Good(b, u),
         NEW m \in Nat, m \in Extents(w, u), NEW signed \in BOOLEAN,
         NEW A, A = Casted(a, m, signed), NEW B, B = Casted(b, m, signed),
         NEW g \in Functions2(m, m, 1), NEW stable \in BOOLEAN, NEW leaks \in LeakSets(1),
         flatten(a.ls) \subseteq At(leaks, 1), flatten(b.ls) \subseteq At(leaks, 1),
         NEW at, at = Through2(g, OwnSight(A), OwnSight(B)),
         stable => \/ BothStable(a, b)
                   \/ Differ(a, b, A, B) /\ Blind(g, m)
  PROVE  Sound2(Predicate(Fresh(at), stable, leaks), 1, Compares(w, u, m, signed, g), a, b)
  <1> DEFINE h == CastTable(w, m, signed)
             k == CastTable(u, m, signed)
             f == Comp2(h, k, g)
  <1>1. Sound1(A, m, h, a) /\ Sound1(B, m, k, b)
    BY CastSound DEF Extents
  <1>2. h \in Functions1(w, m) /\ k \in Functions1(u, m)
    BY CastTableType
  <1> HIDE DEF h, k
  <1>3. \A x \in Bools(w) : \A y \in Bools(u) : f[x][y] = g[h[x]][k[y]] /\ h[x] \in Bools(m) /\ k[y] \in Bools(m)
    BY <1>2 DEF Comp2, Functions1
  <1>4. f \in Functions2(w, u, 1)
    BY <1>2 DEF Comp2, Functions1, Functions2
  <1> HIDE DEF f
  <1>5. ASSUME NEW X, Sighted(a, X), NEW Y, Sighted(b, Y)
        PROVE  /\ \A e \in Env : X[e] \in Bools(w) /\ Y[e] \in Bools(u)
               /\ Through2(g, Through1(h, X), Through1(k, Y)) = Through2(f, X, Y)
    <2>1. \A e \in Env : X[e] \in Bools(w) /\ Y[e] \in Bools(u)
      BY <1>5, SightParts
    <2> QED BY <1>3, <2>1 DEF Through1, Through2
  <1>6. Sighted(a, OwnSight(a)) /\ Sighted(b, OwnSight(b))
    BY OwnSighted
  <1>7. at = Through2(f, OwnSight(a), OwnSight(b))
    BY <1>1, <1>5, <1>6 DEF Sound1
  <1>8. ASSUME stable, NEW X, Sighted(a, X), NEW Y, Sighted(b, Y) PROVE Through2(f, X, Y) = at
    <2>1. CASE BothStable(a, b)
      <3>1. \A e \in Env : X[e] = OwnSight(a)[e] /\ Y[e] = OwnSight(b)[e]
        BY <1>8, <2>1, WholeStable DEF BothStable
      <3> QED BY <1>7, <3>1 DEF Through2
    <2>2. CASE Differ(a, b, A, B) /\ Blind(g, m)
      <3>1. ASSUME NEW e \in Env
            PROVE  h[X[e]] # k[Y[e]] /\ h[OwnSight(a)[e]] # k[OwnSight(b)[e]]
        <4>1. \E i \in 1 .. m : h[X[e]][i] # k[Y[e]][i]
          BY <1>8, <2>2, DifferSeen DEF h, k
        <4>2. \E i \in 1 .. m : h[OwnSight(a)[e]][i] # k[OwnSight(b)[e]][i]
          BY <1>6, <2>2, DifferSeen DEF h, k
        <4> QED BY <4>1, <4>2
      <3>2. ASSUME NEW e \in Env PROVE f[X[e]][Y[e]] = f[OwnSight(a)[e]][OwnSight(b)[e]]
        <4>1. /\ X[e] \in Bools(w) /\ Y[e] \in Bools(u)
              /\ OwnSight(a)[e] \in Bools(w) /\ OwnSight(b)[e] \in Bools(u)
          BY <1>5, <1>6, <1>8
        <4>2. /\ h[X[e]] \in Bools(m) /\ k[Y[e]] \in Bools(m)
              /\ h[OwnSight(a)[e]] \in Bools(m) /\ k[OwnSight(b)[e]] \in Bools(m)
          BY <1>3, <4>1
        <4>3. g[h[X[e]]][k[Y[e]]] = g[h[OwnSight(a)[e]]][k[OwnSight(b)[e]]]
          BY <2>2, <3>1, <4>2 DEF Blind
        <4> QED BY <1>3, <4>1, <4>3
      <3> QED BY <1>7, <3>2 DEF Through2
    <2> QED BY <1>8, <2>1, <2>2
  <1>9. Sound2(Predicate(Fresh(at), stable, leaks), 1, f, a, b)
    BY <1>4, <1>7, <1>8, PredicateSound2
  <1> QED BY <1>9 DEF f, h, k, Compares

LEMMA EqSound ==
  ASSUME NEW w \in Nat, w # 0, NEW u \in Nat, u # 0, NEW a, Good(a, w), NEW b, Good(b, u)
  PROVE  Sound2(eq_uu(a, b), 1, Compares(w, u, BitsExt(a, b), FALSE, Table2(FEq, BitsExt(a, b), BitsExt(a, b))), a, b)
  <1> DEFINE m == BitsExt(a, b)
             A == zext(a, m)
             B == zext(b, m)
             g == Table2(FEq, m, m)
             at == Through2(g, OwnSight(A), OwnSight(B))
             stable == Settled(a, b)
             leaks == reduce_and_merge(a.ls, b.ls)
  <1>1. /\ m \in Nat /\ m \in Extents(w, u)
        /\ A = Casted(a, m, FALSE) /\ B = Casted(b, m, FALSE)
    <2>1. BitsExt(a, b) \in Nat /\ BitsExt(a, b) \in Extents(w, u)
      BY Wider
    <2>2. w <= m /\ u <= m
      BY <2>1 DEF Extents
    <2> HIDE DEF m
    <2>3. zext(a, m) = Casted(a, m, FALSE)
      BY <2>1, <2>2, ExtendCasts DEF m
    <2>4. zext(b, m) = Casted(b, m, FALSE)
      BY <2>1, <2>2, ExtendCasts DEF m
    <2> QED BY <2>1, <2>3, <2>4 DEF m
  <1> HIDE DEF m, A, B
  <1>2. m \in Nat /\ Good(A, m) /\ Good(B, m)
    BY <1>1, CastSound DEF Sound1, Extents
  <1>3. Compute(FEq, << A, B >>) = Fresh(at)
    <2>1. FEq(DataOf(<< A, B >>)) = at[Env0]
      BY <1>2, Operands2 DEF Through2, Table2, Sights1
    <2>2. at = [e \in Env |-> FEq(<< OwnSight(A)[e], OwnSight(B)[e] >>)]
      <3>1. \A e \in Env : OwnSight(A)[e] \in Bools(m) /\ OwnSight(B)[e] \in Bools(m)
        BY <1>2, Operands2 DEF Sights1
      <3> QED BY <3>1 DEF Through2, Table2
    <2>3. \A e \in Env : WordsAt(NodesOf(<< A, B >>), e) = << OwnSight(A)[e], OwnSight(B)[e] >>
      BY <1>2, Operands2
    <2> HIDE DEF at
    <2>4. [e \in Env |-> FEq(WordsAt(NodesOf(<< A, B >>), e))] = at
      BY <2>2, <2>3
    <2> QED BY <2>1, <2>4 DEF Compute, Lift, Fresh
  <1>4. \A x, y \in Bools(m) : g[x][y] = << x = y >>
    BY DEF Table2, FEq
  <1>5. g \in Functions2(m, m, 1)
    <2>1. ASSUME NEW x \in Bools(m), NEW y \in Bools(m) PROVE g[x][y] \in Bools(1)
      <3> DEFINE b1 == x = y
      <3>1. b1 \in BOOLEAN
        OBVIOUS
      <3>2. g[x][y] = << b1 >>
        BY <1>4
      <3> HIDE DEF b1, g
      <3> QED BY <3>1, <3>2, OneBitType
    <2> QED BY <2>1 DEF Functions2, Table2
  <1>6. stable => \/ BothStable(a, b)
                  \/ Differ(a, b, A, B) /\ Blind(g, m)
    <2>1. Blind(g, m)
      BY <1>4 DEF Blind
    <2> HIDE DEF g
    <2> QED BY <2>1 DEF Settled, A, B, m
  <1>7. stable \in BOOLEAN
    BY DEF BothStable, is_fully_stable, Differ, Settled, SettledSigned
  <1>8. leaks \in LeakSets(1) /\ flatten(a.ls) \subseteq At(leaks, 1) /\ flatten(b.ls) \subseteq At(leaks, 1)
    BY ReduceMergeAt, ValueParts DEF Good
  <1>9. eq_uu(a, b) = Predicate(Fresh(at), stable, leaks)
    BY <1>3 DEF eq_uu, Unsigned, A, B, m
  <1> HIDE DEF g, at, stable, leaks
  <1>10. at = Through2(g, OwnSight(A), OwnSight(B)) /\ FALSE \in BOOLEAN
    BY DEF at
  <1>11. Sound2(Predicate(Fresh(at), stable, leaks), 1, Compares(w, u, m, FALSE, g), a, b)
    BY <1>1, <1>5, <1>6, <1>7, <1>8, <1>10, CompareSound
  <1> QED BY <1>9, <1>11 DEF g, m

LEMMA NeSound ==
  ASSUME NEW w \in Nat, w # 0, NEW u \in Nat, u # 0, NEW a, Good(a, w), NEW b, Good(b, u)
  PROVE  Sound2(ne_uu(a, b), 1, Compares(w, u, BitsExt(a, b), FALSE, Table2(FNe, BitsExt(a, b), BitsExt(a, b))), a, b)
  <1> DEFINE m == BitsExt(a, b)
             A == zext(a, m)
             B == zext(b, m)
             g == Table2(FNe, m, m)
             at == Through2(g, OwnSight(A), OwnSight(B))
             stable == Settled(a, b)
             leaks == reduce_and_merge(a.ls, b.ls)
  <1>1. /\ m \in Nat /\ m \in Extents(w, u)
        /\ A = Casted(a, m, FALSE) /\ B = Casted(b, m, FALSE)
    <2>1. BitsExt(a, b) \in Nat /\ BitsExt(a, b) \in Extents(w, u)
      BY Wider
    <2>2. w <= m /\ u <= m
      BY <2>1 DEF Extents
    <2> HIDE DEF m
    <2>3. zext(a, m) = Casted(a, m, FALSE)
      BY <2>1, <2>2, ExtendCasts DEF m
    <2>4. zext(b, m) = Casted(b, m, FALSE)
      BY <2>1, <2>2, ExtendCasts DEF m
    <2> QED BY <2>1, <2>3, <2>4 DEF m
  <1> HIDE DEF m, A, B
  <1>2. m \in Nat /\ Good(A, m) /\ Good(B, m)
    BY <1>1, CastSound DEF Sound1, Extents
  <1>3. Compute(FNe, << A, B >>) = Fresh(at)
    <2>1. FNe(DataOf(<< A, B >>)) = at[Env0]
      BY <1>2, Operands2 DEF Through2, Table2, Sights1
    <2>2. at = [e \in Env |-> FNe(<< OwnSight(A)[e], OwnSight(B)[e] >>)]
      <3>1. \A e \in Env : OwnSight(A)[e] \in Bools(m) /\ OwnSight(B)[e] \in Bools(m)
        BY <1>2, Operands2 DEF Sights1
      <3> QED BY <3>1 DEF Through2, Table2
    <2>3. \A e \in Env : WordsAt(NodesOf(<< A, B >>), e) = << OwnSight(A)[e], OwnSight(B)[e] >>
      BY <1>2, Operands2
    <2> HIDE DEF at
    <2>4. [e \in Env |-> FNe(WordsAt(NodesOf(<< A, B >>), e))] = at
      BY <2>2, <2>3
    <2> QED BY <2>1, <2>4 DEF Compute, Lift, Fresh
  <1>4. \A x, y \in Bools(m) : g[x][y] = << x # y >>
    BY DEF Table2, FNe
  <1>5. g \in Functions2(m, m, 1)
    <2>1. ASSUME NEW x \in Bools(m), NEW y \in Bools(m) PROVE g[x][y] \in Bools(1)
      <3> DEFINE b1 == x # y
      <3>1. b1 \in BOOLEAN
        OBVIOUS
      <3>2. g[x][y] = << b1 >>
        BY <1>4
      <3> HIDE DEF b1, g
      <3> QED BY <3>1, <3>2, OneBitType
    <2> QED BY <2>1 DEF Functions2, Table2
  <1>6. stable => \/ BothStable(a, b)
                  \/ Differ(a, b, A, B) /\ Blind(g, m)
    <2>1. Blind(g, m)
      BY <1>4 DEF Blind
    <2> HIDE DEF g
    <2> QED BY <2>1 DEF Settled, A, B, m
  <1>7. stable \in BOOLEAN
    BY DEF BothStable, is_fully_stable, Differ, Settled, SettledSigned
  <1>8. leaks \in LeakSets(1) /\ flatten(a.ls) \subseteq At(leaks, 1) /\ flatten(b.ls) \subseteq At(leaks, 1)
    BY ReduceMergeAt, ValueParts DEF Good
  <1>9. ne_uu(a, b) = Predicate(Fresh(at), stable, leaks)
    BY <1>3 DEF ne_uu, Unsigned, A, B, m
  <1> HIDE DEF g, at, stable, leaks
  <1>10. at = Through2(g, OwnSight(A), OwnSight(B)) /\ FALSE \in BOOLEAN
    BY DEF at
  <1>11. Sound2(Predicate(Fresh(at), stable, leaks), 1, Compares(w, u, m, FALSE, g), a, b)
    BY <1>1, <1>5, <1>6, <1>7, <1>8, <1>10, CompareSound
  <1> QED BY <1>9, <1>11 DEF g, m

LEMMA LtSound ==
  ASSUME NEW w \in Nat, w # 0, NEW u \in Nat, u # 0, NEW a, Good(a, w), NEW b, Good(b, u)
  PROVE  Sound2(lt_uu(a, b), 1, Compares(w, u, BitsExt(a, b), FALSE, Table2(FLt, BitsExt(a, b), BitsExt(a, b))), a, b)
  <1> DEFINE m == BitsExt(a, b)
             A == zext(a, m)
             B == zext(b, m)
             g == Table2(FLt, m, m)
             at == Through2(g, OwnSight(A), OwnSight(B))
             stable == BothStable(a, b)
             leaks == reduce_and_merge(a.ls, b.ls)
  <1>1. /\ m \in Nat /\ m \in Extents(w, u)
        /\ A = Casted(a, m, FALSE) /\ B = Casted(b, m, FALSE)
    <2>1. BitsExt(a, b) \in Nat /\ BitsExt(a, b) \in Extents(w, u)
      BY Wider
    <2>2. w <= m /\ u <= m
      BY <2>1 DEF Extents
    <2> HIDE DEF m
    <2>3. zext(a, m) = Casted(a, m, FALSE)
      BY <2>1, <2>2, ExtendCasts DEF m
    <2>4. zext(b, m) = Casted(b, m, FALSE)
      BY <2>1, <2>2, ExtendCasts DEF m
    <2> QED BY <2>1, <2>3, <2>4 DEF m
  <1> HIDE DEF m, A, B
  <1>2. m \in Nat /\ Good(A, m) /\ Good(B, m)
    BY <1>1, CastSound DEF Sound1, Extents
  <1>3. Compute(FLt, << A, B >>) = Fresh(at)
    <2>1. FLt(DataOf(<< A, B >>)) = at[Env0]
      BY <1>2, Operands2 DEF Through2, Table2, Sights1
    <2>2. at = [e \in Env |-> FLt(<< OwnSight(A)[e], OwnSight(B)[e] >>)]
      <3>1. \A e \in Env : OwnSight(A)[e] \in Bools(m) /\ OwnSight(B)[e] \in Bools(m)
        BY <1>2, Operands2 DEF Sights1
      <3> QED BY <3>1 DEF Through2, Table2
    <2>3. \A e \in Env : WordsAt(NodesOf(<< A, B >>), e) = << OwnSight(A)[e], OwnSight(B)[e] >>
      BY <1>2, Operands2
    <2> HIDE DEF at
    <2>4. [e \in Env |-> FLt(WordsAt(NodesOf(<< A, B >>), e))] = at
      BY <2>2, <2>3
    <2> QED BY <2>1, <2>4 DEF Compute, Lift, Fresh
  <1>4. \A x, y \in Bools(m) : g[x][y] = << Less(x, y) >>
    BY DEF Table2, FLt
  <1>5. g \in Functions2(m, m, 1)
    <2>1. ASSUME NEW x \in Bools(m), NEW y \in Bools(m) PROVE g[x][y] \in Bools(1)
      <3> DEFINE b1 == Less(x, y)
      <3>1. b1 \in BOOLEAN
        BY DEF Less
      <3>2. g[x][y] = << b1 >>
        BY <1>4
      <3> HIDE DEF b1, g
      <3> QED BY <3>1, <3>2, OneBitType
    <2> QED BY <2>1 DEF Functions2, Table2
  <1>6. stable => BothStable(a, b)
    OBVIOUS
  <1>7. stable \in BOOLEAN
    BY DEF BothStable, is_fully_stable, Differ, Settled, SettledSigned
  <1>8. leaks \in LeakSets(1) /\ flatten(a.ls) \subseteq At(leaks, 1) /\ flatten(b.ls) \subseteq At(leaks, 1)
    BY ReduceMergeAt, ValueParts DEF Good
  <1>9. lt_uu(a, b) = Predicate(Fresh(at), stable, leaks)
    BY <1>3 DEF lt_uu, Unsigned, A, B, m
  <1> HIDE DEF g, at, stable, leaks
  <1>10. at = Through2(g, OwnSight(A), OwnSight(B)) /\ FALSE \in BOOLEAN
    BY DEF at
  <1>11. Sound2(Predicate(Fresh(at), stable, leaks), 1, Compares(w, u, m, FALSE, g), a, b)
    BY <1>1, <1>5, <1>6, <1>7, <1>8, <1>10, CompareSound
  <1> QED BY <1>9, <1>11 DEF g, m

LEMMA GtSound ==
  ASSUME NEW w \in Nat, w # 0, NEW u \in Nat, u # 0, NEW a, Good(a, w), NEW b, Good(b, u)
  PROVE  Sound2(gt_uu(a, b), 1, Compares(w, u, BitsExt(a, b), FALSE, Table2(FGt, BitsExt(a, b), BitsExt(a, b))), a, b)
  <1> DEFINE m == BitsExt(a, b)
             A == zext(a, m)
             B == zext(b, m)
             g == Table2(FGt, m, m)
             at == Through2(g, OwnSight(A), OwnSight(B))
             stable == BothStable(a, b)
             leaks == reduce_and_merge(a.ls, b.ls)
  <1>1. /\ m \in Nat /\ m \in Extents(w, u)
        /\ A = Casted(a, m, FALSE) /\ B = Casted(b, m, FALSE)
    <2>1. BitsExt(a, b) \in Nat /\ BitsExt(a, b) \in Extents(w, u)
      BY Wider
    <2>2. w <= m /\ u <= m
      BY <2>1 DEF Extents
    <2> HIDE DEF m
    <2>3. zext(a, m) = Casted(a, m, FALSE)
      BY <2>1, <2>2, ExtendCasts DEF m
    <2>4. zext(b, m) = Casted(b, m, FALSE)
      BY <2>1, <2>2, ExtendCasts DEF m
    <2> QED BY <2>1, <2>3, <2>4 DEF m
  <1> HIDE DEF m, A, B
  <1>2. m \in Nat /\ Good(A, m) /\ Good(B, m)
    BY <1>1, CastSound DEF Sound1, Extents
  <1>3. Compute(FGt, << A, B >>) = Fresh(at)
    <2>1. FGt(DataOf(<< A, B >>)) = at[Env0]
      BY <1>2, Operands2 DEF Through2, Table2, Sights1
    <2>2. at = [e \in Env |-> FGt(<< OwnSight(A)[e], OwnSight(B)[e] >>)]
      <3>1. \A e \in Env : OwnSight(A)[e] \in Bools(m) /\ OwnSight(B)[e] \in Bools(m)
        BY <1>2, Operands2 DEF Sights1
      <3> QED BY <3>1 DEF Through2, Table2
    <2>3. \A e \in Env : WordsAt(NodesOf(<< A, B >>), e) = << OwnSight(A)[e], OwnSight(B)[e] >>
      BY <1>2, Operands2
    <2> HIDE DEF at
    <2>4. [e \in Env |-> FGt(WordsAt(NodesOf(<< A, B >>), e))] = at
      BY <2>2, <2>3
    <2> QED BY <2>1, <2>4 DEF Compute, Lift, Fresh
  <1>4. \A x, y \in Bools(m) : g[x][y] = << Less(y, x) >>
    BY DEF Table2, FGt
  <1>5. g \in Functions2(m, m, 1)
    <2>1. ASSUME NEW x \in Bools(m), NEW y \in Bools(m) PROVE g[x][y] \in Bools(1)
      <3> DEFINE b1 == Less(y, x)
      <3>1. b1 \in BOOLEAN
        BY DEF Less
      <3>2. g[x][y] = << b1 >>
        BY <1>4
      <3> HIDE DEF b1, g
      <3> QED BY <3>1, <3>2, OneBitType
    <2> QED BY <2>1 DEF Functions2, Table2
  <1>6. stable => BothStable(a, b)
    OBVIOUS
  <1>7. stable \in BOOLEAN
    BY DEF BothStable, is_fully_stable, Differ, Settled, SettledSigned
  <1>8. leaks \in LeakSets(1) /\ flatten(a.ls) \subseteq At(leaks, 1) /\ flatten(b.ls) \subseteq At(leaks, 1)
    BY ReduceMergeAt, ValueParts DEF Good
  <1>9. gt_uu(a, b) = Predicate(Fresh(at), stable, leaks)
    BY <1>3 DEF gt_uu, Unsigned, A, B, m
  <1> HIDE DEF g, at, stable, leaks
  <1>10. at = Through2(g, OwnSight(A), OwnSight(B)) /\ FALSE \in BOOLEAN
    BY DEF at
  <1>11. Sound2(Predicate(Fresh(at), stable, leaks), 1, Compares(w, u, m, FALSE, g), a, b)
    BY <1>1, <1>5, <1>6, <1>7, <1>8, <1>10, CompareSound
  <1> QED BY <1>9, <1>11 DEF g, m

LEMMA LeSound ==
  ASSUME NEW w \in Nat, w # 0, NEW u \in Nat, u # 0, NEW a, Good(a, w), NEW b, Good(b, u),
         Concrete(a), Concrete(b)
  PROVE  Sound2(le_uu(a, b), 1, Compares(w, u, BitsExt(a, b), FALSE, Table2(FLe, BitsExt(a, b), BitsExt(a, b))), a, b)
  <1> DEFINE m == BitsExt(a, b)
             A == zext(a, m)
             B == zext(b, m)
             g == Table2(FLe, m, m)
             at == Through2(g, OwnSight(A), OwnSight(B))
             stable == BothStable(a, b)
             leaks == NULL
  <1>1. /\ m \in Nat /\ m \in Extents(w, u)
        /\ A = Casted(a, m, FALSE) /\ B = Casted(b, m, FALSE)
    <2>1. BitsExt(a, b) \in Nat /\ BitsExt(a, b) \in Extents(w, u)
      BY Wider
    <2>2. w <= m /\ u <= m
      BY <2>1 DEF Extents
    <2> HIDE DEF m
    <2>3. zext(a, m) = Casted(a, m, FALSE)
      BY <2>1, <2>2, ExtendCasts DEF m
    <2>4. zext(b, m) = Casted(b, m, FALSE)
      BY <2>1, <2>2, ExtendCasts DEF m
    <2> QED BY <2>1, <2>3, <2>4 DEF m
  <1> HIDE DEF m, A, B
  <1>2. m \in Nat /\ Good(A, m) /\ Good(B, m)
    BY <1>1, CastSound DEF Sound1, Extents
  <1>3. Compute(FLe, << A, B >>) = Fresh(at)
    <2>1. FLe(DataOf(<< A, B >>)) = at[Env0]
      BY <1>2, Operands2 DEF Through2, Table2, Sights1
    <2>2. at = [e \in Env |-> FLe(<< OwnSight(A)[e], OwnSight(B)[e] >>)]
      <3>1. \A e \in Env : OwnSight(A)[e] \in Bools(m) /\ OwnSight(B)[e] \in Bools(m)
        BY <1>2, Operands2 DEF Sights1
      <3> QED BY <3>1 DEF Through2, Table2
    <2>3. \A e \in Env : WordsAt(NodesOf(<< A, B >>), e) = << OwnSight(A)[e], OwnSight(B)[e] >>
      BY <1>2, Operands2
    <2> HIDE DEF at
    <2>4. [e \in Env |-> FLe(WordsAt(NodesOf(<< A, B >>), e))] = at
      BY <2>2, <2>3
    <2> QED BY <2>1, <2>4 DEF Compute, Lift, Fresh
  <1>5. g \in Functions2(m, m, 1)
    <2>1. ASSUME NEW x \in Bools(m), NEW y \in Bools(m) PROVE FLe(<< x, y >>) \in Bools(1)
      <3> DEFINE q == FGt(<< x, y >>)
      <3>1. DOMAIN q = 1 .. 1
        BY DEF FGt
      <3> HIDE DEF q
      <3>2. FNot(<< q >>) = [i \in 1 .. 1 |-> ~q[i]]
        BY <3>1 DEF FNot
      <3>3. FNot(<< q >>) \in Bools(1)
        BY <3>2 DEF Bools
      <3> QED BY <3>3 DEF FLe, q
    <2> QED BY <2>1 DEF Functions2, Table2
  <1>6. stable => BothStable(a, b)
    OBVIOUS
  <1>7. stable \in BOOLEAN
    BY DEF BothStable, is_fully_stable, Differ, Settled, SettledSigned
  <1>8. leaks \in LeakSets(1) /\ flatten(a.ls) \subseteq At(leaks, 1) /\ flatten(b.ls) \subseteq At(leaks, 1)
    BY DEF LeakSets, flatten, Concrete
  <1>9. le_uu(a, b) = Predicate(Fresh(at), stable, leaks)
    <2>1. [Compute(FLe, << A, B >>) EXCEPT !.stab = << stable >>] = Predicate(Fresh(at), stable, leaks)
      BY <1>3 DEF Predicate
    <2> QED BY <2>1 DEF le_uu, Unsigned, FLe, Compute, Lift, A, B, m
  <1> HIDE DEF g, at, stable, leaks
  <1>10. at = Through2(g, OwnSight(A), OwnSight(B)) /\ FALSE \in BOOLEAN
    BY DEF at
  <1>11. Sound2(Predicate(Fresh(at), stable, leaks), 1, Compares(w, u, m, FALSE, g), a, b)
    BY <1>1, <1>5, <1>6, <1>7, <1>8, <1>10, CompareSound
  <1> QED BY <1>9, <1>11 DEF g, m

LEMMA EqSignedSound ==
  ASSUME NEW w \in Nat, w # 0, NEW u \in Nat, u # 0, NEW a, Good(a, w), NEW b, Good(b, u),
         Concrete(a), Concrete(b)
  PROVE  Sound2(eq_ss(a, b), 1, Compares(w, u, BitsExt(a, b), TRUE, Table2(FEq, BitsExt(a, b), BitsExt(a, b))), a, b)
  <1> DEFINE m == BitsExt(a, b)
             A == sext(a, m)
             B == sext(b, m)
             g == Table2(FEq, m, m)
             at == Through2(g, OwnSight(A), OwnSight(B))
             stable == SettledSigned(a, b)
             leaks == NULL
  <1>1. /\ m \in Nat /\ m \in Extents(w, u)
        /\ A = Casted(a, m, TRUE) /\ B = Casted(b, m, TRUE)
    <2>1. BitsExt(a, b) \in Nat /\ BitsExt(a, b) \in Extents(w, u)
      BY Wider
    <2>2. w <= m /\ u <= m
      BY <2>1 DEF Extents
    <2> HIDE DEF m
    <2>3. sext(a, m) = Casted(a, m, TRUE)
      BY <2>1, <2>2, ExtendCasts DEF m
    <2>4. sext(b, m) = Casted(b, m, TRUE)
      BY <2>1, <2>2, ExtendCasts DEF m
    <2> QED BY <2>1, <2>3, <2>4 DEF m
  <1> HIDE DEF m, A, B
  <1>2. m \in Nat /\ Good(A, m) /\ Good(B, m)
    BY <1>1, CastSound DEF Sound1, Extents
  <1>3. Compute(FEq, << A, B >>) = Fresh(at)
    <2>1. FEq(DataOf(<< A, B >>)) = at[Env0]
      BY <1>2, Operands2 DEF Through2, Table2, Sights1
    <2>2. at = [e \in Env |-> FEq(<< OwnSight(A)[e], OwnSight(B)[e] >>)]
      <3>1. \A e \in Env : OwnSight(A)[e] \in Bools(m) /\ OwnSight(B)[e] \in Bools(m)
        BY <1>2, Operands2 DEF Sights1
      <3> QED BY <3>1 DEF Through2, Table2
    <2>3. \A e \in Env : WordsAt(NodesOf(<< A, B >>), e) = << OwnSight(A)[e], OwnSight(B)[e] >>
      BY <1>2, Operands2
    <2> HIDE DEF at
    <2>4. [e \in Env |-> FEq(WordsAt(NodesOf(<< A, B >>), e))] = at
      BY <2>2, <2>3
    <2> QED BY <2>1, <2>4 DEF Compute, Lift, Fresh
  <1>4. \A x, y \in Bools(m) : g[x][y] = << x = y >>
    BY DEF Table2, FEq
  <1>5. g \in Functions2(m, m, 1)
    <2>1. ASSUME NEW x \in Bools(m), NEW y \in Bools(m) PROVE g[x][y] \in Bools(1)
      <3> DEFINE b1 == x = y
      <3>1. b1 \in BOOLEAN
        OBVIOUS
      <3>2. g[x][y] = << b1 >>
        BY <1>4
      <3> HIDE DEF b1, g
      <3> QED BY <3>1, <3>2, OneBitType
    <2> QED BY <2>1 DEF Functions2, Table2
  <1>6. stable => \/ BothStable(a, b)
                  \/ Differ(a, b, A, B) /\ Blind(g, m)
    <2>1. Blind(g, m)
      BY <1>4 DEF Blind
    <2> HIDE DEF g
    <2> QED BY <2>1 DEF SettledSigned, A, B, m
  <1>7. stable \in BOOLEAN
    BY DEF BothStable, is_fully_stable, Differ, Settled, SettledSigned
  <1>8. leaks \in LeakSets(1) /\ flatten(a.ls) \subseteq At(leaks, 1) /\ flatten(b.ls) \subseteq At(leaks, 1)
    BY DEF LeakSets, flatten, Concrete
  <1>9. eq_ss(a, b) = Predicate(Fresh(at), stable, leaks)
    <2>1. [Compute(FEq, << A, B >>) EXCEPT !.stab = << stable >>] = Predicate(Fresh(at), stable, leaks)
      BY <1>3 DEF Predicate
    <2>2. IsConst(a.node) /\ IsConst(b.node)
      BY DEF Concrete
    <2> QED BY <2>1, <2>2 DEF eq_ss, SignedConst, Signed, FEq, Compute, Lift, A, B, m
  <1> HIDE DEF g, at, stable, leaks
  <1>10. at = Through2(g, OwnSight(A), OwnSight(B)) /\ TRUE \in BOOLEAN
    BY DEF at
  <1>11. Sound2(Predicate(Fresh(at), stable, leaks), 1, Compares(w, u, m, TRUE, g), a, b)
    BY <1>1, <1>5, <1>6, <1>7, <1>8, <1>10, CompareSound
  <1> QED BY <1>9, <1>11 DEF g, m

LEMMA NeSignedSound ==
  ASSUME NEW w \in Nat, w # 0, NEW u \in Nat, u # 0, NEW a, Good(a, w), NEW b, Good(b, u),
         Concrete(a), Concrete(b)
  PROVE  Sound2(ne_ss(a, b), 1, Compares(w, u, BitsExt(a, b), TRUE, Table2(FNe, BitsExt(a, b), BitsExt(a, b))), a, b)
  <1> DEFINE m == BitsExt(a, b)
             A == sext(a, m)
             B == sext(b, m)
             g == Table2(FNe, m, m)
             at == Through2(g, OwnSight(A), OwnSight(B))
             stable == SettledSigned(a, b)
             leaks == NULL
  <1>1. /\ m \in Nat /\ m \in Extents(w, u)
        /\ A = Casted(a, m, TRUE) /\ B = Casted(b, m, TRUE)
    <2>1. BitsExt(a, b) \in Nat /\ BitsExt(a, b) \in Extents(w, u)
      BY Wider
    <2>2. w <= m /\ u <= m
      BY <2>1 DEF Extents
    <2> HIDE DEF m
    <2>3. sext(a, m) = Casted(a, m, TRUE)
      BY <2>1, <2>2, ExtendCasts DEF m
    <2>4. sext(b, m) = Casted(b, m, TRUE)
      BY <2>1, <2>2, ExtendCasts DEF m
    <2> QED BY <2>1, <2>3, <2>4 DEF m
  <1> HIDE DEF m, A, B
  <1>2. m \in Nat /\ Good(A, m) /\ Good(B, m)
    BY <1>1, CastSound DEF Sound1, Extents
  <1>3. Compute(FNe, << A, B >>) = Fresh(at)
    <2>1. FNe(DataOf(<< A, B >>)) = at[Env0]
      BY <1>2, Operands2 DEF Through2, Table2, Sights1
    <2>2. at = [e \in Env |-> FNe(<< OwnSight(A)[e], OwnSight(B)[e] >>)]
      <3>1. \A e \in Env : OwnSight(A)[e] \in Bools(m) /\ OwnSight(B)[e] \in Bools(m)
        BY <1>2, Operands2 DEF Sights1
      <3> QED BY <3>1 DEF Through2, Table2
    <2>3. \A e \in Env : WordsAt(NodesOf(<< A, B >>), e) = << OwnSight(A)[e], OwnSight(B)[e] >>
      BY <1>2, Operands2
    <2> HIDE DEF at
    <2>4. [e \in Env |-> FNe(WordsAt(NodesOf(<< A, B >>), e))] = at
      BY <2>2, <2>3
    <2> QED BY <2>1, <2>4 DEF Compute, Lift, Fresh
  <1>4. \A x, y \in Bools(m) : g[x][y] = << x # y >>
    BY DEF Table2, FNe
  <1>5. g \in Functions2(m, m, 1)
    <2>1. ASSUME NEW x \in Bools(m), NEW y \in Bools(m) PROVE g[x][y] \in Bools(1)
      <3> DEFINE b1 == x # y
      <3>1. b1 \in BOOLEAN
        OBVIOUS
      <3>2. g[x][y] = << b1 >>
        BY <1>4
      <3> HIDE DEF b1, g
      <3> QED BY <3>1, <3>2, OneBitType
    <2> QED BY <2>1 DEF Functions2, Table2
  <1>6. stable => \/ BothStable(a, b)
                  \/ Differ(a, b, A, B) /\ Blind(g, m)
    <2>1. Blind(g, m)
      BY <1>4 DEF Blind
    <2> HIDE DEF g
    <2> QED BY <2>1 DEF SettledSigned, A, B, m
  <1>7. stable \in BOOLEAN
    BY DEF BothStable, is_fully_stable, Differ, Settled, SettledSigned
  <1>8. leaks \in LeakSets(1) /\ flatten(a.ls) \subseteq At(leaks, 1) /\ flatten(b.ls) \subseteq At(leaks, 1)
    BY DEF LeakSets, flatten, Concrete
  <1>9. ne_ss(a, b) = Predicate(Fresh(at), stable, leaks)
    <2>1. [Compute(FNe, << A, B >>) EXCEPT !.stab = << stable >>] = Predicate(Fresh(at), stable, leaks)
      BY <1>3 DEF Predicate
    <2>2. IsConst(a.node) /\ IsConst(b.node)
      BY DEF Concrete
    <2> QED BY <2>1, <2>2 DEF ne_ss, SignedConst, Signed, FNe, Compute, Lift, A, B, m
  <1> HIDE DEF g, at, stable, leaks
  <1>10. at = Through2(g, OwnSight(A), OwnSight(B)) /\ TRUE \in BOOLEAN
    BY DEF at
  <1>11. Sound2(Predicate(Fresh(at), stable, leaks), 1, Compares(w, u, m, TRUE, g), a, b)
    BY <1>1, <1>5, <1>6, <1>7, <1>8, <1>10, CompareSound
  <1> QED BY <1>9, <1>11 DEF g, m

LEMMA LeSignedSound ==
  ASSUME NEW w \in Nat, w # 0, NEW u \in Nat, u # 0, NEW a, Good(a, w), NEW b, Good(b, u),
         Concrete(a), Concrete(b)
  PROVE  Sound2(le_ss(a, b), 1, Compares(w, u, BitsExt(a, b), TRUE, Table2(FLeSigned, BitsExt(a, b), BitsExt(a, b))), a, b)
  <1> DEFINE m == BitsExt(a, b)
             A == sext(a, m)
             B == sext(b, m)
             g == Table2(FLeSigned, m, m)
             at == Through2(g, OwnSight(A), OwnSight(B))
             stable == BothStable(a, b)
             leaks == NULL
  <1>1. /\ m \in Nat /\ m \in Extents(w, u)
        /\ A = Casted(a, m, TRUE) /\ B = Casted(b, m, TRUE)
    <2>1. BitsExt(a, b) \in Nat /\ BitsExt(a, b) \in Extents(w, u)
      BY Wider
    <2>2. w <= m /\ u <= m
      BY <2>1 DEF Extents
    <2> HIDE DEF m
    <2>3. sext(a, m) = Casted(a, m, TRUE)
      BY <2>1, <2>2, ExtendCasts DEF m
    <2>4. sext(b, m) = Casted(b, m, TRUE)
      BY <2>1, <2>2, ExtendCasts DEF m
    <2> QED BY <2>1, <2>3, <2>4 DEF m
  <1> HIDE DEF m, A, B
  <1>2. m \in Nat /\ Good(A, m) /\ Good(B, m)
    BY <1>1, CastSound DEF Sound1, Extents
  <1>3. Compute(FLeSigned, << A, B >>) = Fresh(at)
    <2>1. FLeSigned(DataOf(<< A, B >>)) = at[Env0]
      BY <1>2, Operands2 DEF Through2, Table2, Sights1
    <2>2. at = [e \in Env |-> FLeSigned(<< OwnSight(A)[e], OwnSight(B)[e] >>)]
      <3>1. \A e \in Env : OwnSight(A)[e] \in Bools(m) /\ OwnSight(B)[e] \in Bools(m)
        BY <1>2, Operands2 DEF Sights1
      <3> QED BY <3>1 DEF Through2, Table2
    <2>3. \A e \in Env : WordsAt(NodesOf(<< A, B >>), e) = << OwnSight(A)[e], OwnSight(B)[e] >>
      BY <1>2, Operands2
    <2> HIDE DEF at
    <2>4. [e \in Env |-> FLeSigned(WordsAt(NodesOf(<< A, B >>), e))] = at
      BY <2>2, <2>3
    <2> QED BY <2>1, <2>4 DEF Compute, Lift, Fresh
  <1>5. g \in Functions2(m, m, 1)
    <2>1. ASSUME NEW x \in Bools(m), NEW y \in Bools(m) PROVE FLeSigned(<< x, y >>) \in Bools(1)
      <3> DEFINE q == FGtSigned(<< x, y >>)
      <3>1. DOMAIN q = 1 .. 1
        BY DEF FGtSigned
      <3> HIDE DEF q
      <3>2. FNot(<< q >>) = [i \in 1 .. 1 |-> ~q[i]]
        BY <3>1 DEF FNot
      <3>3. FNot(<< q >>) \in Bools(1)
        BY <3>2 DEF Bools
      <3> QED BY <3>3 DEF FLeSigned, q
    <2> QED BY <2>1 DEF Functions2, Table2
  <1>6. stable => BothStable(a, b)
    OBVIOUS
  <1>7. stable \in BOOLEAN
    BY DEF BothStable, is_fully_stable, Differ, Settled, SettledSigned
  <1>8. leaks \in LeakSets(1) /\ flatten(a.ls) \subseteq At(leaks, 1) /\ flatten(b.ls) \subseteq At(leaks, 1)
    BY DEF LeakSets, flatten, Concrete
  <1>9. le_ss(a, b) = Predicate(Fresh(at), stable, leaks)
    <2>1. [Compute(FLeSigned, << A, B >>) EXCEPT !.stab = << stable >>] = Predicate(Fresh(at), stable, leaks)
      BY <1>3 DEF Predicate
    <2>2. IsConst(a.node) /\ IsConst(b.node)
      BY DEF Concrete
    <2> QED BY <2>1, <2>2 DEF le_ss, SignedConst, Signed, FLeSigned, Compute, Lift, A, B, m
  <1> HIDE DEF g, at, stable, leaks
  <1>10. at = Through2(g, OwnSight(A), OwnSight(B)) /\ TRUE \in BOOLEAN
    BY DEF at
  <1>11. Sound2(Predicate(Fresh(at), stable, leaks), 1, Compares(w, u, m, TRUE, g), a, b)
    BY <1>1, <1>5, <1>6, <1>7, <1>8, <1>10, CompareSound
  <1> QED BY <1>9, <1>11 DEF g, m

LEMMA GeSound ==
  ASSUME NEW w \in Nat, w # 0, NEW u \in Nat, u # 0, NEW a, Good(a, w), NEW b, Good(b, u),
         NEW m, m = BitsExt(a, b), NEW g, g = Compares(w, u, m, FALSE, Table2(FLt, m, m))
  PROVE  /\ g \in Functions2(w, u, 1)
         /\ Sound2(ge_uu(a, b), 1, After2(g, Table1(FNot, 1)), a, b)
  <1>1. m \in Nat
    BY Wider
  <1>2. Sound2(lt_uu(a, b), 1, g, a, b)
    BY LtSound
  <1>3. g \in Functions2(w, u, 1)
    <2> DEFINE h == CastTable(w, m, FALSE)
               k == CastTable(u, m, FALSE)
               t == Table2(FLt, m, m)
    <2>1. h \in Functions1(w, m) /\ k \in Functions1(u, m)
      BY <1>1, CastTableType
    <2>2. ASSUME NEW x \in Bools(m), NEW y \in Bools(m) PROVE t[x][y] \in Bools(1)
      <3> DEFINE b1 == Less(x, y)
      <3>1. b1 \in BOOLEAN
        BY DEF Less
      <3>2. t[x][y] = << b1 >>
        BY DEF Table2, FLt
      <3> HIDE DEF b1, t
      <3> QED BY <3>1, <3>2, OneBitType
    <2>3. g = Comp2(h, k, t)
      BY DEF Compares
    <2>4. t \in Functions2(m, m, 1)
      BY <2>2 DEF Functions2, Table2
    <2> HIDE DEF h, k, t
    <2>5. Comp2(h, k, t) \in Functions2(w, u, 1)
      BY <1>1, <2>1, <2>4 DEF Comp2, Functions1, Functions2
    <2> QED BY <2>3, <2>5
  <1>4. Sound1(bit_not(lt_uu(a, b)), 1, Table1(FNot, 1), lt_uu(a, b))
    BY <1>2, NotSound DEF Sound2
  <1>5. Sound2(ge_uu(a, b), 1, After2(g, Table1(FNot, 1)), a, b)
    BY <1>2, <1>3, <1>4, ComposeAfter DEF ge_uu
  <1> QED BY <1>3, <1>5

\* Between words of one bit the expression lt_ss and gt_ss build is the order.
LEMMA OneBitOrder ==
  ASSUME NEW x \in Bools(1), NEW y \in Bools(1)
  PROVE  SignedLessNode(x, y) = SignedLess(x, y) /\ SignedLess(x, y) \in BOOLEAN
  <1>1. Len(x) = 1 /\ DOMAIN x = 1 .. 1 /\ x[1] \in BOOLEAN /\ y[1] \in BOOLEAN
    BY Sequences1 DEF Bools
  <1>2. 1 .. 1 = {1} /\ 1 .. (1 - 2) = {} /\ ~(1 > 1)
    OBVIOUS
  <1>3. Less(x, y) <=> (y[1] /\ ~x[1])
    BY <1>1, <1>2 DEF Less
  <1>4. SignedLess(x, y) <=> (x[1] /\ ~y[1])
    BY <1>1, <1>3 DEF SignedLess
  <1>5. SignedLessNode(x, y) <=> (x[1] /\ ~y[1])
    BY <1>1, <1>2 DEF SignedLessNode
  <1>6. SignedLess(x, y) \in BOOLEAN /\ SignedLessNode(x, y) \in BOOLEAN
    BY DEF SignedLess, SignedLessNode, Less
  <1> QED BY <1>4, <1>5, <1>6

LEMMA LtSignedSound ==
  ASSUME NEW a, Good(a, 1), NEW b, Good(b, 1)
  PROVE  Sound2(lt_ss(a, b), 1, Compares(1, 1, 1, TRUE, Table2(FLtSigned, 1, 1)), a, b)
  <1> DEFINE A == sext(a, 1)
             B == sext(b, 1)
             g == Table2(FLtSigned, 1, 1)
             at == Through2(g, OwnSight(A), OwnSight(B))
             stable == BothStable(a, b)
             leaks == reduce_and_merge(a.ls, b.ls)
  <1>1. /\ 1 \in Nat /\ 1 # 0 /\ 1 \in Extents(1, 1) /\ BitsExt(a, b) = 1
        /\ A = Casted(a, 1, TRUE) /\ B = Casted(b, 1, TRUE)
    <2>1. 1 \in Nat /\ 1 # 0 /\ 1 <= 1
      OBVIOUS
    <2>2. BitsExt(a, b) = 1
      BY <2>1, ValueParts DEF Good, BitsExt
    <2>3. 1 \in Extents(1, 1)
      BY <2>1 DEF Extents
    <2>4. sext(a, 1) = Casted(a, 1, TRUE) /\ sext(b, 1) = Casted(b, 1, TRUE)
      BY <2>1, ExtendCasts
    <2> QED BY <2>1, <2>2, <2>3, <2>4
  <1> HIDE DEF A, B
  <1>2. Good(A, 1) /\ Good(B, 1)
    BY <1>1, CastSound DEF Sound1, Extents
  <1>3. /\ Compute(FLtSigned, << A, B >>) = Fresh(at)
        /\ Compute(FLtSignedNode, << A, B >>).node = Fresh(at).node
    <2>0. /\ OwnSight(A) \in Sights1(1) /\ OwnSight(B) \in Sights1(1) /\ Env0 \in Env
          /\ DataOf(<< A, B >>) = << OwnSight(A)[Env0], OwnSight(B)[Env0] >>
          /\ \A e \in Env : WordsAt(NodesOf(<< A, B >>), e) = << OwnSight(A)[e], OwnSight(B)[e] >>
      <3> DEFINE m == 1
      <3>1. m \in Nat /\ Good(A, m) /\ Good(B, m)
        BY <1>2
      <3> HIDE DEF m
      <3>2. OwnSight(A) \in Sights1(m) /\ OwnSight(B) \in Sights1(m)
        BY <3>1, Operands2
      <3>3. /\ Env0 \in Env /\ DataOf(<< A, B >>) = << OwnSight(A)[Env0], OwnSight(B)[Env0] >>
            /\ \A e \in Env : WordsAt(NodesOf(<< A, B >>), e) = << OwnSight(A)[e], OwnSight(B)[e] >>
        BY <3>1, Operands2
      <3> QED BY <3>2, <3>3 DEF m
    <2>1. \A e \in Env : OwnSight(A)[e] \in Bools(1) /\ OwnSight(B)[e] \in Bools(1)
      BY <2>0 DEF Sights1
    <2>2. FLtSigned(DataOf(<< A, B >>)) = at[Env0]
      <3>1. at[Env0] = g[OwnSight(A)[Env0]][OwnSight(B)[Env0]]
        BY <2>0 DEF Through2
      <3>2. g[OwnSight(A)[Env0]][OwnSight(B)[Env0]] = FLtSigned(<< OwnSight(A)[Env0], OwnSight(B)[Env0] >>)
        BY <2>0, <2>1 DEF Table2
      <3> HIDE DEF at, g
      <3> QED BY <2>0, <3>1, <3>2
    <2>3. /\ at = [e \in Env |-> FLtSigned(<< OwnSight(A)[e], OwnSight(B)[e] >>)]
          /\ at = [e \in Env |-> FLtSignedNode(<< OwnSight(A)[e], OwnSight(B)[e] >>)]
      <3>1. at = [e \in Env |-> FLtSigned(<< OwnSight(A)[e], OwnSight(B)[e] >>)]
        BY <2>1 DEF Through2, Table2
      <3>2. ASSUME NEW x \in Bools(1), NEW y \in Bools(1)
            PROVE  FLtSigned(<< x, y >>) = FLtSignedNode(<< x, y >>)
        BY OneBitOrder DEF FLtSigned, FLtSignedNode
      <3>3. \A e \in Env : FLtSigned(<< OwnSight(A)[e], OwnSight(B)[e] >>)
                             = FLtSignedNode(<< OwnSight(A)[e], OwnSight(B)[e] >>)
        BY <2>1, <3>2
      <3> QED BY <3>1, <3>3
    <2> HIDE DEF at
    <2>5. /\ [e \in Env |-> FLtSigned(WordsAt(NodesOf(<< A, B >>), e))] = at
          /\ [e \in Env |-> FLtSignedNode(WordsAt(NodesOf(<< A, B >>), e))] = at
      BY <2>0, <2>3
    <2>6. Compute(FLtSigned, << A, B >>) = Fresh(at)
      BY <2>2, <2>5 DEF Compute, Lift, Fresh
    <2>7. Compute(FLtSignedNode, << A, B >>).node = Fresh(at).node
      BY <2>5 DEF Compute, Lift, Fresh
    <2> QED BY <2>6, <2>7
  <1>4. g \in Functions2(1, 1, 1)
    <2>1. ASSUME NEW x \in Bools(1), NEW y \in Bools(1) PROVE FLtSigned(<< x, y >>) \in Bools(1)
      BY OneBitOrder, OneBitType DEF FLtSigned
    <2> QED BY <2>1 DEF Functions2, Table2
  <1>5. stable \in BOOLEAN
    BY DEF BothStable, is_fully_stable
  <1>6. leaks \in LeakSets(1) /\ flatten(a.ls) \subseteq At(leaks, 1) /\ flatten(b.ls) \subseteq At(leaks, 1)
    BY <1>1, ReduceMergeAt, ValueParts DEF Good
  <1>7. lt_ss(a, b) = Predicate(Fresh(at), stable, leaks)
    <2>1. Signed(FLtSigned, FLtSignedNode, a, b)
            = IF IsConst(a.node) /\ IsConst(b.node) THEN Compute(FLtSigned, << A, B >>)
              ELSE [Compute(FLtSigned, << A, B >>) EXCEPT !.node = Compute(FLtSignedNode, << A, B >>).node]
      BY <1>1 DEF Signed, A, B
    <2>2. [Fresh(at) EXCEPT !.node = Fresh(at).node] = Fresh(at)
      BY DEF Fresh
    <2> HIDE DEF at
    <2>3. Signed(FLtSigned, FLtSignedNode, a, b) = Fresh(at)
      BY <1>3, <2>1, <2>2
    <2> QED BY <2>3 DEF lt_ss
  <1> HIDE DEF g, at, stable, leaks
  <1>8. at = Through2(g, OwnSight(A), OwnSight(B)) /\ TRUE \in BOOLEAN
    BY DEF at
  <1>9. stable => BothStable(a, b)
    BY DEF stable
  <1>10. Sound2(Predicate(Fresh(at), stable, leaks), 1, Compares(1, 1, 1, TRUE, g), a, b)
    BY <1>1, <1>4, <1>5, <1>6, <1>8, <1>9, CompareSound
  <1> QED BY <1>7, <1>10 DEF g

LEMMA GtSignedSound ==
  ASSUME NEW a, Good(a, 1), NEW b, Good(b, 1)
  PROVE  Sound2(gt_ss(a, b), 1, Compares(1, 1, 1, TRUE, Table2(FGtSigned, 1, 1)), a, b)
  <1> DEFINE A == sext(a, 1)
             B == sext(b, 1)
             g == Table2(FGtSigned, 1, 1)
             at == Through2(g, OwnSight(A), OwnSight(B))
             stable == BothStable(a, b)
             leaks == reduce_and_merge(a.ls, b.ls)
  <1>1. /\ 1 \in Nat /\ 1 # 0 /\ 1 \in Extents(1, 1) /\ BitsExt(a, b) = 1
        /\ A = Casted(a, 1, TRUE) /\ B = Casted(b, 1, TRUE)
    <2>1. 1 \in Nat /\ 1 # 0 /\ 1 <= 1
      OBVIOUS
    <2>2. BitsExt(a, b) = 1
      BY <2>1, ValueParts DEF Good, BitsExt
    <2>3. 1 \in Extents(1, 1)
      BY <2>1 DEF Extents
    <2>4. sext(a, 1) = Casted(a, 1, TRUE) /\ sext(b, 1) = Casted(b, 1, TRUE)
      BY <2>1, ExtendCasts
    <2> QED BY <2>1, <2>2, <2>3, <2>4
  <1> HIDE DEF A, B
  <1>2. Good(A, 1) /\ Good(B, 1)
    BY <1>1, CastSound DEF Sound1, Extents
  <1>3. /\ Compute(FGtSigned, << A, B >>) = Fresh(at)
        /\ Compute(FGtSignedNode, << A, B >>).node = Fresh(at).node
    <2>0. /\ OwnSight(A) \in Sights1(1) /\ OwnSight(B) \in Sights1(1) /\ Env0 \in Env
          /\ DataOf(<< A, B >>) = << OwnSight(A)[Env0], OwnSight(B)[Env0] >>
          /\ \A e \in Env : WordsAt(NodesOf(<< A, B >>), e) = << OwnSight(A)[e], OwnSight(B)[e] >>
      <3> DEFINE m == 1
      <3>1. m \in Nat /\ Good(A, m) /\ Good(B, m)
        BY <1>2
      <3> HIDE DEF m
      <3>2. OwnSight(A) \in Sights1(m) /\ OwnSight(B) \in Sights1(m)
        BY <3>1, Operands2
      <3>3. /\ Env0 \in Env /\ DataOf(<< A, B >>) = << OwnSight(A)[Env0], OwnSight(B)[Env0] >>
            /\ \A e \in Env : WordsAt(NodesOf(<< A, B >>), e) = << OwnSight(A)[e], OwnSight(B)[e] >>
        BY <3>1, Operands2
      <3> QED BY <3>2, <3>3 DEF m
    <2>1. \A e \in Env : OwnSight(A)[e] \in Bools(1) /\ OwnSight(B)[e] \in Bools(1)
      BY <2>0 DEF Sights1
    <2>2. FGtSigned(DataOf(<< A, B >>)) = at[Env0]
      <3>1. at[Env0] = g[OwnSight(A)[Env0]][OwnSight(B)[Env0]]
        BY <2>0 DEF Through2
      <3>2. g[OwnSight(A)[Env0]][OwnSight(B)[Env0]] = FGtSigned(<< OwnSight(A)[Env0], OwnSight(B)[Env0] >>)
        BY <2>0, <2>1 DEF Table2
      <3> HIDE DEF at, g
      <3> QED BY <2>0, <3>1, <3>2
    <2>3. /\ at = [e \in Env |-> FGtSigned(<< OwnSight(A)[e], OwnSight(B)[e] >>)]
          /\ at = [e \in Env |-> FGtSignedNode(<< OwnSight(A)[e], OwnSight(B)[e] >>)]
      <3>1. at = [e \in Env |-> FGtSigned(<< OwnSight(A)[e], OwnSight(B)[e] >>)]
        BY <2>1 DEF Through2, Table2
      <3>2. ASSUME NEW x \in Bools(1), NEW y \in Bools(1)
            PROVE  FGtSigned(<< x, y >>) = FGtSignedNode(<< x, y >>)
        BY OneBitOrder DEF FGtSigned, FGtSignedNode
      <3>3. \A e \in Env : FGtSigned(<< OwnSight(A)[e], OwnSight(B)[e] >>)
                             = FGtSignedNode(<< OwnSight(A)[e], OwnSight(B)[e] >>)
        BY <2>1, <3>2
      <3> QED BY <3>1, <3>3
    <2> HIDE DEF at
    <2>5. /\ [e \in Env |-> FGtSigned(WordsAt(NodesOf(<< A, B >>), e))] = at
          /\ [e \in Env |-> FGtSignedNode(WordsAt(NodesOf(<< A, B >>), e))] = at
      BY <2>0, <2>3
    <2>6. Compute(FGtSigned, << A, B >>) = Fresh(at)
      BY <2>2, <2>5 DEF Compute, Lift, Fresh
    <2>7. Compute(FGtSignedNode, << A, B >>).node = Fresh(at).node
      BY <2>5 DEF Compute, Lift, Fresh
    <2> QED BY <2>6, <2>7
  <1>4. g \in Functions2(1, 1, 1)
    <2>1. ASSUME NEW x \in Bools(1), NEW y \in Bools(1) PROVE FGtSigned(<< x, y >>) \in Bools(1)
      BY OneBitOrder, OneBitType DEF FGtSigned
    <2> QED BY <2>1 DEF Functions2, Table2
  <1>5. stable \in BOOLEAN
    BY DEF BothStable, is_fully_stable
  <1>6. leaks \in LeakSets(1) /\ flatten(a.ls) \subseteq At(leaks, 1) /\ flatten(b.ls) \subseteq At(leaks, 1)
    BY <1>1, ReduceMergeAt, ValueParts DEF Good
  <1>7. gt_ss(a, b) = Predicate(Fresh(at), stable, leaks)
    <2>1. Signed(FGtSigned, FGtSignedNode, a, b)
            = IF IsConst(a.node) /\ IsConst(b.node) THEN Compute(FGtSigned, << A, B >>)
              ELSE [Compute(FGtSigned, << A, B >>) EXCEPT !.node = Compute(FGtSignedNode, << A, B >>).node]
      BY <1>1 DEF Signed, A, B
    <2>2. [Fresh(at) EXCEPT !.node = Fresh(at).node] = Fresh(at)
      BY DEF Fresh
    <2> HIDE DEF at
    <2>3. Signed(FGtSigned, FGtSignedNode, a, b) = Fresh(at)
      BY <1>3, <2>1, <2>2
    <2> QED BY <2>3 DEF gt_ss
  <1> HIDE DEF g, at, stable, leaks
  <1>8. at = Through2(g, OwnSight(A), OwnSight(B)) /\ TRUE \in BOOLEAN
    BY DEF at
  <1>9. stable => BothStable(a, b)
    BY DEF stable
  <1>10. Sound2(Predicate(Fresh(at), stable, leaks), 1, Compares(1, 1, 1, TRUE, g), a, b)
    BY <1>1, <1>4, <1>5, <1>6, <1>8, <1>9, CompareSound
  <1> QED BY <1>7, <1>10 DEF g

LEMMA GeSignedSound ==
  ASSUME NEW a, Good(a, 1), NEW b, Good(b, 1), NEW g, g = Compares(1, 1, 1, TRUE, Table2(FLtSigned, 1, 1))
  PROVE  /\ g \in Functions2(1, 1, 1)
         /\ Sound2(ge_ss(a, b), 1, After2(g, Table1(FNot, 1)), a, b)
  <1>1. 1 \in Nat /\ 1 # 0 /\ TRUE \in BOOLEAN
    OBVIOUS
  <1>2. Sound2(lt_ss(a, b), 1, g, a, b)
    BY LtSignedSound
  <1>3. g \in Functions2(1, 1, 1)
    <2> DEFINE h == CastTable(1, 1, TRUE)
               t == Table2(FLtSigned, 1, 1)
    <2>1. h \in Functions1(1, 1)
      BY <1>1, CastTableType
    <2>2. ASSUME NEW x \in Bools(1), NEW y \in Bools(1) PROVE FLtSigned(<< x, y >>) \in Bools(1)
      BY OneBitOrder, OneBitType DEF FLtSigned
    <2>3. t \in Functions2(1, 1, 1)
      BY <2>2 DEF Functions2, Table2
    <2>4. g = Comp2(h, h, t)
      BY DEF Compares
    <2> HIDE DEF h, t
    <2>5. Comp2(h, h, t) \in Functions2(1, 1, 1)
      BY <1>1, <2>1, <2>3 DEF Comp2, Functions1, Functions2
    <2> QED BY <2>4, <2>5
  <1>4. Sound1(bit_not(lt_ss(a, b)), 1, Table1(FNot, 1), lt_ss(a, b))
    BY <1>1, <1>2, NotSound DEF Sound2
  <1>5. Sound2(ge_ss(a, b), 1, After2(g, Table1(FNot, 1)), a, b)
    BY <1>1, <1>2, <1>3, <1>4, ComposeAfter DEF ge_ss
  <1> QED BY <1>3, <1>5

\* Whether a settled word is null is seen in any sight.
LEMMA SettledSeen ==
  ASSUME NEW w \in Nat, NEW v, Good(v, w), SettledTrue(v), NEW X, Sighted(v, X), NEW e \in Env
  PROVE  Any(X[e]) = Any(OwnSight(v)[e])
  <1>1. CASE is_fully_stable(v)
    BY <1>1, WholeStable
  <1>2. CASE HasStable(v, TRUE)
    <2>1. PICK i \in 1 .. w : X[e][i] /\ OwnSight(v)[e][i]
      BY <1>2, HasStableSeen
    <2>2. DOMAIN X[e] = 1 .. w /\ DOMAIN OwnSight(v)[e] = 1 .. w
      BY HasStableSeen, OwnSighted
    <2>3. Any(X[e]) /\ Any(OwnSight(v)[e])
      BY <2>1, <2>2 DEF Any
    <2> QED BY <2>3 DEF Any
  <1> QED BY <1>1, <1>2 DEF SettledTrue

LEMMA LogicAndSound ==
  ASSUME NEW w \in Nat, NEW u \in Nat, NEW a, Good(a, w), NEW b, Good(b, u)
  PROVE  Sound2(logic_and(a, b), 1, Table2(FLogicAnd, w, u), a, b)
  <1> DEFINE f == Table2(FLogicAnd, w, u)
             at == Through2(f, OwnSight(a), OwnSight(b))
             stable == SettledTrue(a) /\ SettledTrue(b)
             leaks == reduce_and_merge(a.ls, b.ls)
  <1>1. Compute(FLogicAnd, << a, b >>) = Fresh(at)
    <2>1. FLogicAnd(DataOf(<< a, b >>)) = at[Env0]
      BY Operands2 DEF Through2, Table2, Sights1
    <2>2. at = [e \in Env |-> FLogicAnd(<< OwnSight(a)[e], OwnSight(b)[e] >>)]
      <3>1. \A e \in Env : OwnSight(a)[e] \in Bools(w) /\ OwnSight(b)[e] \in Bools(u)
        BY Operands2 DEF Sights1
      <3> QED BY <3>1 DEF Through2, Table2
    <2>3. \A e \in Env : WordsAt(NodesOf(<< a, b >>), e) = << OwnSight(a)[e], OwnSight(b)[e] >>
      BY Operands2
    <2> HIDE DEF at
    <2>4. [e \in Env |-> FLogicAnd(WordsAt(NodesOf(<< a, b >>), e))] = at
      BY <2>2, <2>3
    <2> QED BY <2>1, <2>4 DEF Compute, Lift, Fresh
  <1>2. \A x \in Bools(w) : \A y \in Bools(u) : f[x][y] = << Any(x) /\ Any(y) >>
    BY DEF Table2, FLogicAnd
  <1>3. f \in Functions2(w, u, 1)
    <2>1. ASSUME NEW x \in Bools(w), NEW y \in Bools(u) PROVE f[x][y] \in Bools(1)
      <3> DEFINE b1 == Any(x) /\ Any(y)
      <3>1. b1 \in BOOLEAN
        OBVIOUS
      <3>2. f[x][y] = << b1 >>
        BY <1>2
      <3> HIDE DEF b1, f
      <3> QED BY <3>1, <3>2, OneBitType
    <2> QED BY <2>1 DEF Functions2, Table2
  <1>4. ASSUME stable, NEW X, Sighted(a, X), NEW Y, Sighted(b, Y) PROVE Through2(f, X, Y) = at
    <2>1. ASSUME NEW e \in Env PROVE f[X[e]][Y[e]] = f[OwnSight(a)[e]][OwnSight(b)[e]]
      <3>1. /\ X[e] \in Bools(w) /\ Y[e] \in Bools(u)
            /\ OwnSight(a)[e] \in Bools(w) /\ OwnSight(b)[e] \in Bools(u)
            /\ Sighted(a, OwnSight(a)) /\ Sighted(b, OwnSight(b))
        BY <1>4, SightParts, OwnSighted
      <3> DEFINE p == Any(X[e]) /\ Any(Y[e])
                 q == Any(OwnSight(a)[e]) /\ Any(OwnSight(b)[e])
      <3>2. p = q
        <4>1. Any(X[e]) = Any(OwnSight(a)[e]) /\ Any(Y[e]) = Any(OwnSight(b)[e])
          BY <1>4, SettledSeen
        <4> QED BY <4>1
      <3>3. f[X[e]][Y[e]] = << p >> /\ f[OwnSight(a)[e]][OwnSight(b)[e]] = << q >>
        BY <1>2, <3>1
      <3> HIDE DEF p, q, f
      <3> QED BY <3>2, <3>3
    <2> HIDE DEF f
    <2> QED BY <2>1 DEF Through2
  <1>5. leaks \in LeakSets(1) /\ flatten(a.ls) \subseteq At(leaks, 1) /\ flatten(b.ls) \subseteq At(leaks, 1)
    BY ReduceMergeAt, ValueParts DEF Good
  <1>6. stable \in BOOLEAN
    BY DEF is_fully_stable, HasStable, SettledTrue
  <1>7. logic_and(a, b) = Predicate(Fresh(at), stable, leaks)
    BY <1>1 DEF logic_and
  <1> HIDE DEF f, at, stable, leaks
  <1>8. at = Through2(f, OwnSight(a), OwnSight(b))
    BY DEF at
  <1>9. Sound2(Predicate(Fresh(at), stable, leaks), 1, f, a, b)
    BY <1>3, <1>4, <1>5, <1>6, <1>8, PredicateSound2
  <1> QED BY <1>7, <1>9 DEF f

LEMMA LogicOrSound ==
  ASSUME NEW w \in Nat, NEW u \in Nat, NEW a, Good(a, w), NEW b, Good(b, u)
  PROVE  Sound2(logic_or(a, b), 1, Table2(FLogicOr, w, u), a, b)
  <1> DEFINE f == Table2(FLogicOr, w, u)
             at == Through2(f, OwnSight(a), OwnSight(b))
             stable == \/ is_fully_stable(a) /\ is_fully_stable(b)
                       \/ HasStable(a, TRUE) \/ HasStable(b, TRUE)
             leaks == reduce_and_merge(a.ls, b.ls)
  <1>1. Compute(FLogicOr, << a, b >>) = Fresh(at)
    <2>1. FLogicOr(DataOf(<< a, b >>)) = at[Env0]
      BY Operands2 DEF Through2, Table2, Sights1
    <2>2. at = [e \in Env |-> FLogicOr(<< OwnSight(a)[e], OwnSight(b)[e] >>)]
      <3>1. \A e \in Env : OwnSight(a)[e] \in Bools(w) /\ OwnSight(b)[e] \in Bools(u)
        BY Operands2 DEF Sights1
      <3> QED BY <3>1 DEF Through2, Table2
    <2>3. \A e \in Env : WordsAt(NodesOf(<< a, b >>), e) = << OwnSight(a)[e], OwnSight(b)[e] >>
      BY Operands2
    <2> HIDE DEF at
    <2>4. [e \in Env |-> FLogicOr(WordsAt(NodesOf(<< a, b >>), e))] = at
      BY <2>2, <2>3
    <2> QED BY <2>1, <2>4 DEF Compute, Lift, Fresh
  <1>2. \A x \in Bools(w) : \A y \in Bools(u) : f[x][y] = << Any(x) \/ Any(y) >>
    BY DEF Table2, FLogicOr
  <1>3. f \in Functions2(w, u, 1)
    <2>1. ASSUME NEW x \in Bools(w), NEW y \in Bools(u) PROVE f[x][y] \in Bools(1)
      <3> DEFINE b1 == Any(x) \/ Any(y)
      <3>1. b1 \in BOOLEAN
        OBVIOUS
      <3>2. f[x][y] = << b1 >>
        BY <1>2
      <3> HIDE DEF b1, f
      <3> QED BY <3>1, <3>2, OneBitType
    <2> QED BY <2>1 DEF Functions2, Table2
  <1>4. ASSUME stable, NEW X, Sighted(a, X), NEW Y, Sighted(b, Y) PROVE Through2(f, X, Y) = at
    <2>1. ASSUME NEW e \in Env PROVE f[X[e]][Y[e]] = f[OwnSight(a)[e]][OwnSight(b)[e]]
      <3>1. /\ X[e] \in Bools(w) /\ Y[e] \in Bools(u)
            /\ OwnSight(a)[e] \in Bools(w) /\ OwnSight(b)[e] \in Bools(u)
            /\ Sighted(a, OwnSight(a)) /\ Sighted(b, OwnSight(b))
        BY <1>4, SightParts, OwnSighted
      <3> DEFINE p == Any(X[e]) \/ Any(Y[e])
                 q == Any(OwnSight(a)[e]) \/ Any(OwnSight(b)[e])
      <3>2. p = q
        <4>1. CASE is_fully_stable(a) /\ is_fully_stable(b)
          <5>1. X[e] = OwnSight(a)[e] /\ Y[e] = OwnSight(b)[e]
            BY <1>4, <4>1, WholeStable
          <5> QED BY <5>1
        <4>2. CASE HasStable(a, TRUE)
          <5>1. PICK i \in 1 .. w : X[e][i] /\ OwnSight(a)[e][i]
            BY <1>4, <4>2, HasStableSeen
          <5>2. Any(X[e]) /\ Any(OwnSight(a)[e])
            BY <3>1, <5>1 DEF Any, Bools
          <5> QED BY <5>2
        <4>3. CASE HasStable(b, TRUE)
          <5>1. PICK i \in 1 .. u : Y[e][i] /\ OwnSight(b)[e][i]
            BY <1>4, <4>3, HasStableSeen
          <5>2. Any(Y[e]) /\ Any(OwnSight(b)[e])
            BY <3>1, <5>1 DEF Any, Bools
          <5> QED BY <5>2
        <4> QED BY <1>4, <4>1, <4>2, <4>3
      <3>3. f[X[e]][Y[e]] = << p >> /\ f[OwnSight(a)[e]][OwnSight(b)[e]] = << q >>
        BY <1>2, <3>1
      <3> HIDE DEF p, q, f
      <3> QED BY <3>2, <3>3
    <2> HIDE DEF f
    <2> QED BY <2>1 DEF Through2
  <1>5. leaks \in LeakSets(1) /\ flatten(a.ls) \subseteq At(leaks, 1) /\ flatten(b.ls) \subseteq At(leaks, 1)
    BY ReduceMergeAt, ValueParts DEF Good
  <1>6. stable \in BOOLEAN
    BY DEF is_fully_stable, HasStable, SettledTrue
  <1>7. logic_or(a, b) = Predicate(Fresh(at), stable, leaks)
    BY <1>1 DEF logic_or
  <1> HIDE DEF f, at, stable, leaks
  <1>8. at = Through2(f, OwnSight(a), OwnSight(b))
    BY DEF at
  <1>9. Sound2(Predicate(Fresh(at), stable, leaks), 1, f, a, b)
    BY <1>3, <1>4, <1>5, <1>6, <1>8, PredicateSound2
  <1> QED BY <1>7, <1>9 DEF f

LEMMA XnorSound ==
  ASSUME NEW w \in Nat, NEW a, Good(a, w), NEW b, Good(b, w)
  PROVE  Sound2(bit_xnor(a, b), w, After2(Table2(FXor, w, w), Table1(FNot, w)), a, b)
  <1>1. Sound2(bit_xor(a, b), w, Table2(FXor, w, w), a, b)
    BY XorSound
  <1>2. Table2(FXor, w, w) \in Functions2(w, w, w)
    BY DEF Table2, FXor, Functions2, Bools
  <1>3. Sound1(bit_xnor(a, b), w, Table1(FNot, w), bit_xor(a, b))
    BY <1>1, NotSound DEF Sound2, bit_xnor
  <1> QED BY <1>1, <1>2, <1>3, ComposeAfter

LEMMA PosSound ==
  ASSUME NEW w \in Nat, NEW a, Good(a, w)
  PROVE  Sound1(pos(a), w, Table1(FPos, w), a)
  <1>1. ASSUME NEW X, Sighted(a, X) PROVE Through1(Table1(FPos, w), X) = X
    <2>1. X \in [Env -> Bools(w)]
      BY <1>1, SightParts DEF Sights1
    <2> QED BY <2>1 DEF Through1, Table1, FPos
  <1>2. Sighted(a, OwnSight(a))
    BY OwnSighted
  <1> QED BY <1>1, <1>2 DEF Sound1, pos

\* An operand that is constant and stable is its data in any sight: only what f
\* does of this word matters.
LEMMA FixedOperand ==
  ASSUME NEW w \in Nat, NEW u \in Nat, NEW a, Good(a, w), NEW b, Good(b, u),
         IsConst(b.node), is_fully_stable(b), NEW V, NEW n, NEW g, NEW f, Sound2(V, n, g, a, b),
         \A x \in Bools(w) : f[x][b.data] = g[x][b.data]
  PROVE  Sound2(V, n, f, a, b)
  <1>1. ASSUME NEW X, Sighted(a, X), NEW Y, Sighted(b, Y) PROVE Through2(f, X, Y) = Through2(g, X, Y)
    <2>1. ASSUME NEW e \in Env PROVE X[e] \in Bools(w) /\ Y[e] = b.data
      <3>1. Y[e] = OwnSight(b)[e] /\ OwnSight(b)[e] = OwnSight(b)[Env0] /\ b.data = OwnSight(b)[Env0]
        BY <1>1, WholeStable, ConstOwn, ConcreteWord
      <3> QED BY <1>1, <3>1, SightParts
    <2> QED BY <2>1 DEF Through2
  <1>2. Sighted(a, OwnSight(a)) /\ Sighted(b, OwnSight(b))
    BY OwnSighted
  <1> QED BY <1>1, <1>2 DEF Sound2

\* shift_us and shift_ss: a left shift by the opposite of a negative amount
Opposite(u) == Comp1(CastTable(u, u + 1, TRUE), Table1(FNeg, u + 1))
LeftShift(w, u, n, signed) ==
  Comp2(CastTable(w, n, signed), Opposite(u), Table2(FShl, n, u + 1))
RightShift(w, u, n, signed) == After2(Table2(FShr, w, u), CastTable(w, n, signed))

LEMMA ShiftSignedSound ==
  ASSUME NEW w \in Nat, w # 0, NEW u \in Nat, u # 0, NEW n \in Nat, n # 0, NEW signed \in BOOLEAN,
         NEW a, Good(a, w), NEW b, Good(b, u)
  PROVE  /\ Sound2(shl(Casted(a, n, signed), neg(sext(b, u + 1))), n, LeftShift(w, u, n, signed), a, b)
         /\ Sound2(Casted(shr(a, b), n, signed), n, RightShift(w, u, n, signed), a, b)
  <1> DEFINE p == u + 1
             h == CastTable(w, n, signed)
             k == CastTable(u, p, TRUE)
             q == Table1(FNeg, p)
             B == sext(b, p)
  <1>1. p \in Nat /\ p # 0 /\ u <= p
    OBVIOUS
  <1> HIDE DEF p
  <1>2. Sound1(Casted(a, n, signed), n, h, a) /\ h \in Functions1(w, n)
    BY CastSound, CastTableType
  <1>3. Sound1(B, p, k, b) /\ k \in Functions1(u, p)
    BY <1>1, SextSound, CastTableType
  <1>4. Good(B, p) /\ Good(Casted(a, n, signed), n)
    BY <1>2, <1>3 DEF Sound1
  <1> HIDE DEF B, h, k
  <1>5. Sound1(neg(B), p, q, B) /\ q \in Functions1(p, p)
    BY <1>1, <1>4, NegSound
  <1> HIDE DEF q
  <1>6. Sound1(neg(B), p, Comp1(k, q), b)
    BY <1>1, <1>3, <1>5, Compose1
  <1>7. Comp1(k, q) \in Functions1(u, p)
    BY <1>3, <1>5 DEF Comp1, Functions1
  <1>8. Sound2(shl(Casted(a, n, signed), neg(B)), n, Table2(FShl, n, p), Casted(a, n, signed), neg(B))
    <2>1. Good(neg(B), p)
      BY <1>6 DEF Sound1
    <2> QED BY <1>1, <1>4, <2>1, ShlSound
  <1>9. Sound2(shl(Casted(a, n, signed), neg(B)), n, Comp2(h, Comp1(k, q), Table2(FShl, n, p)), a, b)
    BY <1>1, <1>2, <1>6, <1>7, <1>8, Compose2
  <1>10. Sound2(shr(a, b), w, Table2(FShr, w, u), a, b) /\ Table2(FShr, w, u) \in Functions2(w, u, w)
    BY ShrSound
  <1>11. Good(shr(a, b), w)
    BY <1>10 DEF Sound2
  <1>12. Sound1(Casted(shr(a, b), n, signed), n, h, shr(a, b))
    BY <1>11, CastSound DEF h
  <1>13. Sound2(Casted(shr(a, b), n, signed), n, After2(Table2(FShr, w, u), h), a, b)
    BY <1>10, <1>12, ComposeAfter
  <1> QED BY <1>9, <1>13 DEF LeftShift, RightShift, Opposite, B, h, k, q, p

-----------------------------------------------------------------------------
(* The mux                                                                 *)

LEMMA NodeOfOwn ==
  ASSUME NEW w \in Nat, NEW v \in Values(w)
  PROVE  NodeOf(OwnSight(v)) = v.node
  <1> DEFINE X == OwnSight(v)
  <1>1. X \in Sights1(w) /\ \A e \in Env : \A i \in 1 .. w : X[e][i] = (e \in v.node[i])
    BY OwnWord
  <1> HIDE DEF X
  <1>2. /\ NodeOf(X) \in Nodes(w)
        /\ \A e \in Env : \A i \in 1 .. w : e \in NodeOf(X)[i] <=> X[e][i]
    BY <1>1, NodeOfTable
  <1>3. v.node \in Nodes(w)
    BY ValueParts
  <1>4. \A i \in 1 .. w : NodeOf(X)[i] = v.node[i]
    <2>1. \A i \in 1 .. w : NodeOf(X)[i] \in SUBSET Env /\ v.node[i] \in SUBSET Env
      BY <1>2, <1>3 DEF Nodes
    <2>2. ASSUME NEW i \in 1 .. w PROVE \A e \in Env : e \in NodeOf(X)[i] <=> e \in v.node[i]
      BY <1>1, <1>2
    <2> QED BY <2>1, <2>2
  <1>5. NodeOf(X) = v.node
    BY <1>2, <1>3, <1>4 DEF Nodes
  <1> QED BY <1>5 DEF X

Chooses(n) == [x \in Bools(1) |-> [y \in Bools(n) |-> [z \in Bools(n) |-> IF x[1] THEN y ELSE z]]]

\* Under a selector that does not leak, one of the branches is seen, the same in
\* every valuation.
LEMMA ChosenSeen ==
  ASSUME NEW n \in Nat, NEW s, Good(s, 1), NEW b, Good(b, n), NEW c, Good(c, n),
         IsConst(s.node), s.ls = NULL,
         NEW X, Sighted(s, X), NEW Y, Sighted(b, Y), NEW Z, Sighted(c, Z)
  PROVE  /\ Through3(Chooses(n), X, Y, Z) = Y \/ Through3(Chooses(n), X, Y, Z) = Z
         /\ s.stab[1] \/ X = OwnSight(s) =>
              Through3(Chooses(n), X, Y, Z) = IF s.data[1] THEN Y ELSE Z
  <1> DEFINE T == Through3(Chooses(n), X, Y, Z)
  <1>1. /\ Y \in [Env -> Bools(n)] /\ Z \in [Env -> Bools(n)] /\ Env0 \in Env
        /\ \A e \in Env : X[e] \in Bools(1) /\ X[e][1] \in BOOLEAN
    <2>1. 1 \in 1 .. 1 /\ 1 \in Nat
      OBVIOUS
    <2>2. X \in Sights1(1) /\ Y \in Sights1(n) /\ Z \in Sights1(n)
      BY <2>1, SightParts
    <2> QED BY <2>1, <2>2, BoundAssumption DEF Sights1, Bools
  <1>2. \A e \in Env : X[e][1] = X[Env0][1]
    <2>1. 1 \in 1 .. 1 /\ 1 \in Nat
      OBVIOUS
    <2>2. \A e \in Env : Same(e, Env0, At(s.ls, 1))
      BY DEF At, Same
    <2>3. \A d, e \in Env : Same(d, e, At(s.ls, 1)) => X[d][1] = X[e][1]
      BY <2>1, SightParts
    <2> QED BY <1>1, <2>2, <2>3
  <1>3. \A e \in Env : T[e] = IF X[e][1] THEN Y[e] ELSE Z[e]
    BY <1>1 DEF Through3, Chooses
  <1>4. T = [e \in Env |-> T[e]]
    BY DEF Through3
  <1> HIDE DEF T
  <1>5. X[Env0][1] => T = Y
    BY <1>1, <1>2, <1>3, <1>4
  <1>6. ~X[Env0][1] => T = Z
    <2>1. ASSUME ~X[Env0][1] PROVE \A e \in Env : T[e] = Z[e]
      BY <1>1, <1>2, <1>3, <2>1
    <2> QED BY <1>1, <1>4, <2>1
  <1>7. ASSUME s.stab[1] \/ X = OwnSight(s) PROVE X[Env0][1] = s.data[1]
    <2>1. 1 \in 1 .. 1 /\ 1 \in Nat
      OBVIOUS
    <2>2. s.data = OwnSight(s)[Env0] /\ s \in Values(1)
      BY <2>1, ConcreteWord DEF Good
    <2>3. OwnSight(s)[Env0][1] = (Env0 \in s.node[1])
      BY <1>1, <2>1, <2>2, OwnWord
    <2>4. s.stab[1] => X[Env0][1] = (Env0 \in s.node[1])
      BY <1>1, <2>1, SightParts
    <2> QED BY <1>7, <2>2, <2>3, <2>4
  <1> QED BY <1>5, <1>6, <1>7 DEF T

LEMMA AgreeingBits ==
  ASSUME NEW n \in Nat, NEW b, Good(b, n), NEW c, Good(c, n)
  PROVE  /\ Agreeing(b, c) \in Bools(n)
         /\ \A i \in 1 .. n : Agreeing(b, c)[i] =>
              b.stab[i] /\ c.stab[i] /\ \A e \in Env : OwnSight(b)[e][i] = OwnSight(c)[e][i]
  <1>1. /\ DOMAIN b.stab = 1 .. n /\ b.stab \in Bools(n) /\ c.stab \in Bools(n)
        /\ b \in Values(n) /\ c \in Values(n)
    BY ValueParts DEF Good
  <1>2. Agreeing(b, c) \in Bools(n)
    BY <1>1 DEF Agreeing, Bools
  <1>3. ASSUME NEW i \in 1 .. n, Agreeing(b, c)[i], NEW e \in Env
        PROVE  OwnSight(b)[e][i] = OwnSight(c)[e][i]
    <2>1. CASE IsConst(b.node) /\ IsConst(c.node)
      <3>1. b.data[i] = c.data[i]
        BY <1>1, <1>3, <2>1 DEF Agreeing
      <3>2. OwnSight(b)[e] = b.data /\ OwnSight(c)[e] = c.data
        BY <2>1, ConstOwn, ConcreteWord
      <3> QED BY <3>1, <3>2
    <2>2. CASE ~(IsConst(b.node) /\ IsConst(c.node))
      <3>1. b.node[i] = c.node[i]
        BY <1>1, <1>3, <2>2 DEF Agreeing
      <3> QED BY <1>1, <3>1, OwnWord
    <2> QED BY <2>1, <2>2
  <1>4. \A i \in 1 .. n : Agreeing(b, c)[i] => b.stab[i] /\ c.stab[i]
    BY <1>1 DEF Agreeing
  <1> QED BY <1>2, <1>3, <1>4

LEMMA MuxSound ==
  ASSUME NEW n \in Nat, NEW s, Good(s, 1), NEW b, Good(b, n), NEW c, Good(c, n),
         IsConst(s.node), s.ls = NULL
  PROVE  Sound3(symb_mux(s, b, c), n, Chooses(n), s, b, c)
  <1> DEFINE f == Chooses(n)
             v == IF s.data[1] THEN b ELSE c
             V == symb_mux(s, b, c)
             ls == IF s.stab[1] THEN v.ls ELSE merge(b.ls, c.ls)
             node == MuxNode(s, b, c)
             res == [v EXCEPT !.node = node, !.ls = MuxLeaks(s, b, c, node)]
             own == OwnSight(v)
  <1>1. v \in Values(n) /\ Good(v, n)
    BY DEF Good
  <1>2. node = v.node
    BY DEF MuxNode
  <1>3. MuxLeaks(s, b, c, v.node) = ls
    BY DEF MuxLeaks
  <1>4. V = IF s.stab[1] THEN res ELSE Stabilized(res, Agreeing(b, c), res.ls)
    BY DEF symb_mux
  <1>5. Sighted(s, OwnSight(s)) /\ Sighted(b, OwnSight(b)) /\ Sighted(c, OwnSight(c))
    <2>1. 1 \in Nat
      OBVIOUS
    <2> QED BY <2>1, OwnSighted
  <1>6. Through3(f, OwnSight(s), OwnSight(b), OwnSight(c)) = own
    BY <1>5, ChosenSeen
  <1>7. CASE s.stab[1]
    <2>1. V = v
      <3>1. V = res
        BY <1>4, <1>7
      <3>2. MuxLeaks(s, b, c, node) = v.ls
        BY <1>2, <1>3, <1>7
      <3> HIDE DEF V, v, node
      <3>3. V = [[v EXCEPT !.node = v.node] EXCEPT !.ls = v.ls]
        BY <1>2, <3>1, <3>2, Zenon
      <3> QED BY <1>1, <3>3 DEF Values
    <2>2. ASSUME NEW X, Sighted(s, X), NEW Y, Sighted(b, Y), NEW Z, Sighted(c, Z)
          PROVE  Sighted(v, Through3(f, X, Y, Z))
      <3>1. Through3(f, X, Y, Z) = IF s.data[1] THEN Y ELSE Z
        BY <1>7, <2>2, ChosenSeen
      <3> QED BY <2>2, <3>1
    <2> HIDE DEF v, V, f
    <2> QED BY <1>1, <1>6, <2>1, <2>2 DEF Sound3, V, f
  <1>8. CASE ~s.stab[1]
    <2> DEFINE stab == Agreeing(b, c)
               leaks == merge(b.ls, c.ls)
    <2>1. /\ stab \in Bools(n) /\ leaks \in LeakSets(n)
          /\ \A i \in 1 .. n : At(leaks, i) = At(b.ls, i) \union At(c.ls, i)
      BY AgreeingBits, MergeAt, ValueParts DEF Good
    <2>2. V = Made(own, stab, leaks)
      <3>1. NodeOf(own) = v.node /\ own[Env0] = v.data
        BY <1>1, NodeOfOwn, ConcreteWord
      <3>2. res = [data |-> v.data, node |-> v.node, stab |-> v.stab, ls |-> leaks]
        <4>1. MuxLeaks(s, b, c, node) = leaks
          BY <1>2, <1>3, <1>8
        <4> HIDE DEF v, node, leaks
        <4>2. res = [[v EXCEPT !.node = v.node] EXCEPT !.ls = leaks]
          BY <1>2, <4>1, Zenon
        <4>3. v = [data |-> v.data, node |-> v.node, stab |-> v.stab, ls |-> v.ls]
          BY <1>1 DEF Values
        <4>4. [v EXCEPT !.node = v.node] = v
          BY <1>1 DEF Values
        <4>5. [v EXCEPT !.ls = leaks] = [data |-> v.data, node |-> v.node, stab |-> v.stab, ls |-> leaks]
          BY <4>3
        <4> QED BY <4>2, <4>4, <4>5
      <3>3. V = Stabilized(res, stab, leaks)
        BY <1>4, <1>8, <3>2
      <3> HIDE DEF res, V, own, v, stab, leaks, node
      <3> DEFINE p == partial_stabilize(leaks, v.node, stab)
      <3>4. V = [res EXCEPT !.stab = stab, !.ls = p]
        BY <3>2, <3>3 DEF Stabilized
      <3>5. Made(own, stab, leaks) = [data |-> v.data, node |-> v.node, stab |-> stab, ls |-> p]
        BY <3>1 DEF Made
      <3> HIDE DEF p
      <3>6. V = [[res EXCEPT !.stab = stab] EXCEPT !.ls = p]
        BY <3>4, Zenon
      <3>7. [res EXCEPT !.stab = stab] = [data |-> v.data, node |-> v.node, stab |-> stab, ls |-> leaks]
        BY <3>2
      <3>8. [[data |-> v.data, node |-> v.node, stab |-> stab, ls |-> leaks] EXCEPT !.ls = p]
               = [data |-> v.data, node |-> v.node, stab |-> stab, ls |-> p]
        OBVIOUS
      <3> QED BY <3>5, <3>6, <3>7, <3>8, Zenon
    <2>3. ASSUME NEW X, Sighted(s, X), NEW Y, Sighted(b, Y), NEW Z, Sighted(c, Z)
          PROVE  Fits(Through3(f, X, Y, Z), own, stab, leaks, n)
      <3> DEFINE T == Through3(f, X, Y, Z)
      <3>1. T = Y \/ T = Z
        BY <2>3, ChosenSeen
      <3> HIDE DEF T
      <3>2. T \in Sights1(n)
        BY <2>3, <3>1, SightParts
      <3>3. ASSUME NEW i \in 1 .. n, NEW e \in Env, stab[i] PROVE T[e][i] = own[e][i]
        <4>1. b.stab[i] /\ c.stab[i] /\ OwnSight(b)[e][i] = OwnSight(c)[e][i]
          BY <3>3, AgreeingBits
        <4>2. Y[e][i] = OwnSight(b)[e][i] /\ Z[e][i] = OwnSight(c)[e][i]
          BY <2>3, <4>1, SightParts, OwnWord DEF Good
        <4>3. own = OwnSight(b) \/ own = OwnSight(c)
          OBVIOUS
        <4> HIDE DEF own
        <4> QED BY <3>1, <4>1, <4>2, <4>3
      <3>4. ASSUME NEW i \in 1 .. n, NEW d \in Env, NEW e \in Env, Same(d, e, At(leaks, i))
            PROVE  T[d][i] = T[e][i]
        <4>1. Same(d, e, At(b.ls, i)) /\ Same(d, e, At(c.ls, i))
          BY <2>1, <3>4, SameUnion
        <4>2. Y[d][i] = Y[e][i]
          BY <2>3, <4>1, SightParts
        <4>3. Z[d][i] = Z[e][i]
          BY <2>3, <4>1, SightParts
        <4> QED BY <3>1, <4>2, <4>3
      <3> HIDE DEF own, stab, leaks
      <3> QED BY <3>2, <3>3, <3>4 DEF Fits, T
    <2>4. Fits(own, own, stab, leaks, n)
      BY <1>5, <1>6, <2>3
    <2> HIDE DEF stab, leaks, own, V, f
    <2>5. /\ Good(V, n) /\ OwnSight(V) = own
          /\ \A Z : Fits(Z, own, stab, leaks, n) => Sighted(V, Z)
      BY <2>1, <2>2, <2>4, MadeSound
    <2>6. Sound3(V, n, f, s, b, c)
      BY <1>6, <2>3, <2>5 DEF Sound3
    <2> QED BY <2>6 DEF V, f
  <1> QED BY <1>7, <1>8

-----------------------------------------------------------------------------
(* Cells: a value with what its bits show                                  *)

\* What a bit shows is its expression when it is stable, and told by its leaks.
Shows(o, w) ==
  /\ w \in Nat /\ w # 0 /\ Good(o.val, w) /\ o.shown \in Leaks(w)
  /\ \A i \in 1 .. w : o.val.node[i] \in o.shown[i]
  /\ \A i \in 1 .. w : \A g \in o.shown[i] :
       /\ o.val.stab[i] => g = o.val.node[i]
       /\ \A d, e \in Env : Same(d, e, At(o.val.ls, i)) => (d \in g <=> e \in g)

SightOf(x) == [e \in Env |-> Word(x, e)]

LEMMA SightShown ==
  ASSUME NEW w, NEW o, Shows(o, w), NEW x \in Sights(o.shown)
  PROVE  /\ Sighted(o.val, SightOf(x)) /\ SightOf(x) \in Sights1(w)
         /\ \A e \in Env : Word(x, e) \in Bools(w) /\ SightOf(x)[e] = Word(x, e)
  <1>1. /\ w \in Nat /\ Good(o.val, w) /\ Width(o.val) = w /\ DOMAIN o.val.node = 1 .. w
        /\ DOMAIN o.shown = 1 .. w
    BY ValueParts DEF Shows, Good, Leaks
  <1>2. DOMAIN x = 1 .. w /\ \A i \in 1 .. w : x[i] \in o.shown[i]
    BY <1>1 DEF Sights
  <1>3. ASSUME NEW e \in Env
        PROVE  Word(x, e) \in Bools(w) /\ \A i \in 1 .. w : Word(x, e)[i] = (e \in x[i])
    BY <1>2 DEF Word, Bools
  <1>4. SightOf(x) \in Sights1(w)
    BY <1>3 DEF SightOf, Sights1
  <1>5. \A e \in Env : SightOf(x)[e] = Word(x, e)
    BY DEF SightOf
  <1>6. \A i \in 1 .. w : \A e \in Env : o.val.stab[i] => SightOf(x)[e][i] = (e \in o.val.node[i])
    BY <1>2, <1>3, <1>5 DEF Shows
  <1>7. \A i \in 1 .. w : \A d, e \in Env :
          Same(d, e, At(o.val.ls, i)) => SightOf(x)[d][i] = SightOf(x)[e][i]
    <2> SUFFICES ASSUME NEW i \in 1 .. w, NEW d \in Env, NEW e \in Env, Same(d, e, At(o.val.ls, i))
                 PROVE  (d \in x[i]) = (e \in x[i])
      BY <1>3, <1>5
    <2>1. d \in x[i] <=> e \in x[i]
      BY <1>2 DEF Shows
    <2> QED BY <2>1
  <1> QED BY <1>1, <1>3, <1>4, <1>5, <1>6, <1>7 DEF Sighted

LEMMA OwnShown ==
  ASSUME NEW w, NEW o, Shows(o, w)
  PROVE  o.val.node \in Sights(o.shown) /\ SightOf(o.val.node) = OwnSight(o.val)
  <1>1. DOMAIN o.val.node = 1 .. w /\ DOMAIN o.shown = 1 .. w /\ o.val.node = [i \in 1 .. w |-> o.val.node[i]]
    BY ValueParts DEF Shows, Good, Leaks, Nodes
  <1>2. \A i \in 1 .. w : o.val.node[i] \in o.shown[i]
    BY DEF Shows
  <1>3. o.val.node \in Sights(o.shown)
    <2>1. \A i \in 1 .. w : o.val.node[i] \in UNION {o.shown[k] : k \in DOMAIN o.shown}
      BY <1>1, <1>2
    <2> QED BY <1>1, <1>2, <2>1 DEF Sights
  <1> QED BY <1>3 DEF SightOf, OwnSight

\* A cell shows what its function makes of any sight of the operands.
LEMMA CellShows ==
  ASSUME NEW n \in Nat, n # 0, NEW V, Good(V, n), NEW nodes, V.node \in nodes,
         \A g \in nodes : \E Z : Sighted(V, Z) /\ g = NodeOf(Z)
  PROVE  Shows([val |-> V, shown |-> ShownOf(nodes)], n)
  <1>1. ASSUME NEW g \in nodes
        PROVE  /\ g \in Nodes(n) /\ DOMAIN g = 1 .. n
               /\ \A i \in 1 .. n : V.stab[i] => g[i] = V.node[i]
               /\ \A i \in 1 .. n : \A d, e \in Env : Same(d, e, At(V.ls, i)) => (d \in g[i] <=> e \in g[i])
    <2>1. PICK Z : Sighted(V, Z) /\ g = NodeOf(Z)
      BY <1>1
    <2>2. /\ Z \in Sights1(n)
          /\ \A i \in 1 .. n : \A e \in Env : V.stab[i] => Z[e][i] = (e \in V.node[i])
          /\ \A i \in 1 .. n : \A d, e \in Env : Same(d, e, At(V.ls, i)) => Z[d][i] = Z[e][i]
      BY <2>1, SightParts
    <2>3. g \in Nodes(n) /\ DOMAIN g = 1 .. n /\ \A e \in Env : \A i \in 1 .. n : e \in g[i] <=> Z[e][i]
      BY <2>1, <2>2, NodeOfTable
    <2>4. ASSUME NEW i \in 1 .. n, V.stab[i] PROVE g[i] = V.node[i]
      <3>1. g[i] \in SUBSET Env /\ V.node[i] \in SUBSET Env
        BY <2>3, ValueParts DEF Good, Nodes
      <3>2. ASSUME NEW e \in Env PROVE e \in g[i] <=> e \in V.node[i]
        <4>1. Z[e][i] = (e \in V.node[i])
          BY <2>2, <2>4
        <4>2. e \in g[i] <=> Z[e][i]
          BY <2>3
        <4> QED BY <4>1, <4>2
      <3> QED BY <3>1, <3>2
    <2>5. ASSUME NEW i \in 1 .. n, NEW d \in Env, NEW e \in Env, Same(d, e, At(V.ls, i))
          PROVE  d \in g[i] <=> e \in g[i]
      <3>1. Z[d][i] = Z[e][i]
        BY <2>2, <2>5
      <3> QED BY <2>3, <3>1
    <2> QED BY <2>3, <2>4, <2>5
  <1>2. (CHOOSE g \in nodes : TRUE) \in nodes
    OBVIOUS
  <1>3. DOMAIN (CHOOSE g \in nodes : TRUE) = 1 .. n
    BY <1>1, <1>2
  <1>4. ShownOf(nodes) = [i \in 1 .. n |-> {g[i] : g \in nodes}]
    BY <1>3 DEF ShownOf
  <1>5. ShownOf(nodes) \in Leaks(n)
    <2>1. \A i \in 1 .. n : {g[i] : g \in nodes} \in SUBSET SUBSET Env
      BY <1>1 DEF Nodes
    <2> QED BY <1>4, <2>1 DEF Leaks
  <1>6. \A i \in 1 .. n : V.node[i] \in ShownOf(nodes)[i]
    BY <1>4
  <1>7. ASSUME NEW i \in 1 .. n, NEW h \in ShownOf(nodes)[i]
        PROVE  /\ V.stab[i] => h = V.node[i]
               /\ \A d, e \in Env : Same(d, e, At(V.ls, i)) => (d \in h <=> e \in h)
    <2>1. PICK g \in nodes : h = g[i]
      BY <1>4
    <2> QED BY <1>1, <2>1
  <1> HIDE DEF ShownOf
  <1> DEFINE o == [val |-> V, shown |-> ShownOf(nodes)]
  <1>8. o.val = V /\ o.shown = ShownOf(nodes)
    OBVIOUS
  <1> HIDE DEF o
  <1>9. Shows(o, n)
    BY <1>5, <1>6, <1>7, <1>8 DEF Shows
  <1> QED BY <1>9 DEF o

\* What f makes of what is seen of one, two or three operands
Seeing1(f, s) == [e \in Env |-> f[WordsAt(s, e)[1]]]
Seeing2(f, s) == [e \in Env |-> f[WordsAt(s, e)[1]][WordsAt(s, e)[2]]]
Seeing3(f, s) == [e \in Env |-> f[WordsAt(s, e)[1]][WordsAt(s, e)[2]][WordsAt(s, e)[3]]]
Shown1(f, o) == {NodeOf(Seeing1(f, s)) : s \in Seen(<< o >>)}
Shown2(f, o, p) == {NodeOf(Seeing2(f, s)) : s \in Seen(<< o, p >>)}
Shown3(f, o, p, q) == {NodeOf(Seeing3(f, s)) : s \in Seen(<< o, p, q >>)}

LEMMA Seen1 ==
  ASSUME NEW w, NEW o, Shows(o, w)
  PROVE  /\ Seen(<< o >>) = {<< x >> : x \in Sights(o.shown)}
         /\ \A s \in Seen(<< o >>) : \A e \in Env :
              \E x \in Bools(w) : WordsAt(s, e) = << x >>
  <1>1. Seen(<< o >>) = {<< x >> : x \in Sights(o.shown)}
    BY DEF Seen
  <1>2. ASSUME NEW x \in Sights(o.shown), NEW e \in Env
        PROVE  WordsAt(<< x >>, e) = << Word(x, e) >> /\ Word(x, e) \in Bools(w)
    BY SightShown DEF WordsAt
  <1> QED BY <1>1, <1>2

LEMMA Cell1 ==
  ASSUME NEW w, NEW o, Shows(o, w), NEW n \in Nat, n # 0, NEW V, NEW f, Sound1(V, n, f, o.val)
  PROVE  Shows([val |-> V, shown |-> ShownOf(Shown1(f, o))], n)
  <1>1. ASSUME NEW x \in Sights(o.shown)
        PROVE  Seeing1(f, << x >>) = Through1(f, SightOf(x))
    <2>1. \A e \in Env : WordsAt(<< x >>, e)[1] = SightOf(x)[e]
      BY SightShown DEF WordsAt
    <2> QED BY <2>1 DEF Seeing1, Through1
  <1>2. ASSUME NEW g \in Shown1(f, o)
        PROVE  \E x \in Sights(o.shown) : g = NodeOf(Through1(f, SightOf(x)))
    <2>1. PICK s \in Seen(<< o >>) : g = NodeOf(Seeing1(f, s))
      BY DEF Shown1
    <2>2. PICK x \in Sights(o.shown) : s = << x >>
      BY <2>1, Seen1
    <2> QED BY <1>1, <2>1, <2>2
  <1>3. V.node = NodeOf(Through1(f, SightOf(o.val.node))) /\ o.val.node \in Sights(o.shown)
    BY OwnShown, NodeOfOwn DEF Sound1, Good
  <1>4. \A x \in Sights(o.shown) : Sighted(V, Through1(f, SightOf(x)))
    BY SightShown DEF Sound1
  <1>5. V.node \in Shown1(f, o)
    <2>1. << o.val.node >> \in Seen(<< o >>)
      BY <1>3, Seen1
    <2> QED BY <1>1, <1>3, <2>1 DEF Shown1
  <1>6. \A g \in Shown1(f, o) : \E Z : Sighted(V, Z) /\ g = NodeOf(Z)
    BY <1>2, <1>4
  <1> QED BY <1>5, <1>6, CellShows DEF Sound1

LEMMA Seen2 ==
  ASSUME NEW w, NEW o, Shows(o, w), NEW u, NEW p, Shows(p, u)
  PROVE  /\ Seen(<< o, p >>) = {<< x, y >> : x \in Sights(o.shown), y \in Sights(p.shown)}
         /\ \A s \in Seen(<< o, p >>) : \A e \in Env :
              \E x \in Bools(w), y \in Bools(u) : WordsAt(s, e) = << x, y >>
  <1>1. Seen(<< o, p >>) = {<< x, y >> : x \in Sights(o.shown), y \in Sights(p.shown)}
    BY DEF Seen
  <1>2. ASSUME NEW x \in Sights(o.shown), NEW y \in Sights(p.shown), NEW e \in Env
        PROVE  /\ WordsAt(<< x, y >>, e) = << Word(x, e), Word(y, e) >>
               /\ Word(x, e) \in Bools(w) /\ Word(y, e) \in Bools(u)
    BY SightShown DEF WordsAt
  <1> QED BY <1>1, <1>2

LEMMA Cell2 ==
  ASSUME NEW w, NEW o, Shows(o, w), NEW u, NEW p, Shows(p, u), NEW n \in Nat, n # 0,
         NEW V, NEW f, Sound2(V, n, f, o.val, p.val)
  PROVE  Shows([val |-> V, shown |-> ShownOf(Shown2(f, o, p))], n)
  <1>1. ASSUME NEW x \in Sights(o.shown), NEW y \in Sights(p.shown)
        PROVE  Seeing2(f, << x, y >>)
                 = Through2(f, SightOf(x), SightOf(y))
    <2>1. \A e \in Env : /\ WordsAt(<< x, y >>, e)[1] = SightOf(x)[e]
                         /\ WordsAt(<< x, y >>, e)[2] = SightOf(y)[e]
      BY SightShown DEF WordsAt
    <2> QED BY <2>1 DEF Seeing2, Through2
  <1>2. ASSUME NEW g \in Shown2(f, o, p)
        PROVE  \E x \in Sights(o.shown), y \in Sights(p.shown) : g = NodeOf(Through2(f, SightOf(x), SightOf(y)))
    <2>1. PICK s \in Seen(<< o, p >>) : g = NodeOf(Seeing2(f, s))
      BY DEF Shown2
    <2>2. PICK x \in Sights(o.shown), y \in Sights(p.shown) : s = << x, y >>
      BY <2>1, Seen2
    <2> QED BY <1>1, <2>1, <2>2
  <1>3. /\ V.node = NodeOf(Through2(f, SightOf(o.val.node), SightOf(p.val.node)))
        /\ o.val.node \in Sights(o.shown) /\ p.val.node \in Sights(p.shown)
    BY OwnShown, NodeOfOwn DEF Sound2, Good
  <1>4. \A x \in Sights(o.shown) : \A y \in Sights(p.shown) :
          Sighted(V, Through2(f, SightOf(x), SightOf(y)))
    BY SightShown DEF Sound2
  <1>5. V.node \in Shown2(f, o, p)
    <2>1. << o.val.node, p.val.node >> \in Seen(<< o, p >>)
      BY <1>3, Seen2
    <2> QED BY <1>1, <1>3, <2>1 DEF Shown2
  <1>6. \A g \in Shown2(f, o, p) : \E Z : Sighted(V, Z) /\ g = NodeOf(Z)
    BY <1>2, <1>4
  <1> QED BY <1>5, <1>6, CellShows DEF Sound2

LEMMA Seen3 ==
  ASSUME NEW w, NEW o, Shows(o, w), NEW u, NEW p, Shows(p, u), NEW t, NEW q, Shows(q, t)
  PROVE  /\ Seen(<< o, p, q >>)
              = {<< x, y, z >> : x \in Sights(o.shown), y \in Sights(p.shown), z \in Sights(q.shown)}
         /\ \A s \in Seen(<< o, p, q >>) : \A e \in Env :
              \E x \in Bools(w), y \in Bools(u), z \in Bools(t) : WordsAt(s, e) = << x, y, z >>
  <1>1. Seen(<< o, p, q >>)
          = {<< x, y, z >> : x \in Sights(o.shown), y \in Sights(p.shown), z \in Sights(q.shown)}
    BY DEF Seen
  <1>2. ASSUME NEW x \in Sights(o.shown), NEW y \in Sights(p.shown), NEW z \in Sights(q.shown),
               NEW e \in Env
        PROVE  /\ WordsAt(<< x, y, z >>, e) = << Word(x, e), Word(y, e), Word(z, e) >>
               /\ Word(x, e) \in Bools(w) /\ Word(y, e) \in Bools(u) /\ Word(z, e) \in Bools(t)
    BY SightShown DEF WordsAt
  <1> QED BY <1>1, <1>2

LEMMA Cell3 ==
  ASSUME NEW w, NEW o, Shows(o, w), NEW u, NEW p, Shows(p, u), NEW t, NEW q, Shows(q, t),
         NEW n \in Nat, n # 0, NEW V, NEW f, Sound3(V, n, f, o.val, p.val, q.val)
  PROVE  Shows([val |-> V, shown |-> ShownOf(Shown3(f, o, p, q))], n)
  <1>1. ASSUME NEW x \in Sights(o.shown), NEW y \in Sights(p.shown), NEW z \in Sights(q.shown)
        PROVE  Seeing3(f, << x, y, z >>)
                 = Through3(f, SightOf(x), SightOf(y), SightOf(z))
    <2>1. \A e \in Env : /\ WordsAt(<< x, y, z >>, e)[1] = SightOf(x)[e]
                         /\ WordsAt(<< x, y, z >>, e)[2] = SightOf(y)[e]
                         /\ WordsAt(<< x, y, z >>, e)[3] = SightOf(z)[e]
      BY SightShown DEF WordsAt
    <2> QED BY <2>1 DEF Seeing3, Through3
  <1>2. ASSUME NEW g \in Shown3(f, o, p, q)
        PROVE  \E x \in Sights(o.shown), y \in Sights(p.shown), z \in Sights(q.shown) : g = NodeOf(Through3(f, SightOf(x), SightOf(y), SightOf(z)))
    <2>1. PICK s \in Seen(<< o, p, q >>) : g = NodeOf(Seeing3(f, s))
      BY DEF Shown3
    <2>2. PICK x \in Sights(o.shown), y \in Sights(p.shown), z \in Sights(q.shown) : s = << x, y, z >>
      BY <2>1, Seen3
    <2> QED BY <1>1, <2>1, <2>2
  <1>3. /\ V.node = NodeOf(Through3(f, SightOf(o.val.node), SightOf(p.val.node), SightOf(q.val.node)))
        /\ o.val.node \in Sights(o.shown) /\ p.val.node \in Sights(p.shown)
        /\ q.val.node \in Sights(q.shown)
    BY OwnShown, NodeOfOwn DEF Sound3, Good
  <1>4. \A x \in Sights(o.shown) : \A y \in Sights(p.shown) : \A z \in Sights(q.shown) :
          Sighted(V, Through3(f, SightOf(x), SightOf(y), SightOf(z)))
    BY SightShown DEF Sound3
  <1>5. V.node \in Shown3(f, o, p, q)
    <2>1. << o.val.node, p.val.node, q.val.node >> \in Seen(<< o, p, q >>)
      BY <1>3, Seen3
    <2> QED BY <1>1, <1>3, <2>1 DEF Shown3
  <1>6. \A g \in Shown3(f, o, p, q) : \E Z : Sighted(V, Z) /\ g = NodeOf(Z)
    BY <1>2, <1>4
  <1> QED BY <1>5, <1>6, CellShows DEF Sound3

-----------------------------------------------------------------------------
(* The invariant                                                           *)

\* The records of the cells, and the ones that show only what is accounted for
CellRecords == UNION {[val : Values(w), shown : Leaks(w)] : w \in Nat}
ShownCells == {o \in CellRecords : \E w \in Nat : Shows(o, w)}

\* The widths of the words of the circuit
Fitting == IF Narrow(circuit) THEN {1} ELSE {w \in Nat : w # 0}

\* Every register and every computed value shows only what is accounted for,
\* what a register may load is sound, and narrow circuits stay narrow.
Inv ==
  /\ circuit \in Circuits /\ cycle \in 0 .. MaxCycles
  /\ \A r \in Regs : Shows(RegCell(r), RegWidths[r]) /\ Good(wires[r].next, RegWidths[r])
  /\ cells \in Seq(ShownCells)
  /\ \A k \in DOMAIN cells : Width(cells[k].val) \in Fitting

LEMMA WidthsFit == 1 \in Fitting /\ (\A n \in Fitting : n \in Nat /\ n # 0)
  BY DEF Fitting

LEMMA JoinFits ==
  ASSUME NEW kind \in {"sext", "zext", "repeat", "concat"}, kind \in Cells
  PROVE  2 \in Fitting
  BY DEF Fitting, Narrow, Cells

LEMMA ShownIn ==
  ASSUME NEW w, NEW V, NEW shown, Shows([val |-> V, shown |-> shown], w)
  PROVE  [val |-> V, shown |-> shown] \in ShownCells
  <1>1. V \in Values(w) /\ shown \in Leaks(w) /\ w \in Nat
    BY DEF Shows, Good
  <1>2. [val |-> V, shown |-> shown] \in [val : Values(w), shown : Leaks(w)]
    BY <1>1
  <1> QED BY <1>1, <1>2 DEF ShownCells, CellRecords

LEMMA RegsAre ==
  ASSUME circuit \in Circuits
  PROVE  /\ RegWidths \in Seq(Nat \ {0}) /\ Len(RegWidths) \in Nat /\ Regs = 1 .. Len(RegWidths)
         /\ \A r \in Regs : RegWidths[r] \in Nat /\ RegWidths[r] # 0
  BY CircuitsAssumption DEF RegWidths, Regs

LEMMA OperandsShow ==
  ASSUME Inv
  PROVE  /\ \A k \in Ids : /\ Shows(Operands[k], Width(Val(k))) /\ Good(Val(k), Width(Val(k)))
                           /\ Width(Val(k)) \in Nat /\ Width(Val(k)) # 0
                           /\ Operands[k].val = Val(k) /\ Width(Val(k)) \in Fitting
         /\ \A w \in Widths : w \in Nat /\ w # 0 /\ w \in Fitting
  <1> DEFINE regs == [r \in Regs |-> RegCell(r)]
  <1>1. Len(RegWidths) \in Nat /\ Regs = 1 .. Len(RegWidths)
    BY RegsAre DEF Inv
  <1>2. \A r \in Regs : RegCell(r) \in ShownCells
    BY ShownIn DEF Inv, RegCell
  <1>3. regs \in Seq(ShownCells)
    BY <1>1, <1>2
  <1>4. Operands \in Seq(ShownCells)
    <2>1. cells \in Seq(ShownCells)
      BY DEF Inv
    <2> HIDE DEF regs
    <2>2. regs \o cells \in Seq(ShownCells)
      BY <1>3, <2>1
    <2> QED BY <2>2 DEF Operands, regs
  <1>5. ASSUME NEW k \in Ids PROVE \E w \in Nat : Shows(Operands[k], w)
    <2>1. Operands[k] \in ShownCells
      BY <1>4 DEF Ids
    <2> QED BY <2>1 DEF ShownCells
  <1>6. ASSUME NEW k \in Ids
        PROVE  /\ Shows(Operands[k], Width(Val(k))) /\ Good(Val(k), Width(Val(k)))
               /\ Width(Val(k)) \in Nat /\ Width(Val(k)) # 0
    <2>1. PICK w \in Nat : Shows(Operands[k], w)
      BY <1>5
    <2>2. w # 0 /\ Good(Val(k), w) /\ Width(Val(k)) = w
      BY <2>1, ValueParts DEF Shows, Good, Val
    <2> QED BY <2>1, <2>2
  <1>7. \A r \in Regs : RegWidths[r] \in Fitting
    BY RegsAre DEF Inv, Fitting, Narrow, Regs, RegWidths
  <1>8. \A w \in Widths : w \in Nat /\ w # 0 /\ w \in Fitting
    BY <1>7, RegsAre DEF Inv, Widths
  <1>9. ASSUME NEW k \in Ids PROVE Width(Val(k)) \in Fitting
    <2>1. /\ regs \in Seq(ShownCells) /\ Len(regs) = Len(RegWidths) /\ cells \in Seq(ShownCells)
          /\ \A r \in 1 .. Len(RegWidths) : regs[r] = RegCell(r)
      BY <1>1, <1>3 DEF Inv
    <2> HIDE DEF regs
    <2>2. /\ Len(regs \o cells) = Len(regs) + Len(cells)
          /\ \A i \in 1 .. Len(regs) + Len(cells) :
               (regs \o cells)[i] = IF i <= Len(regs) THEN regs[i] ELSE cells[i - Len(regs)]
      BY <2>1, ConcatProperties
    <2>3. Operands = regs \o cells
      BY DEF Operands, regs
    <2>4. k \in 1 .. Len(Operands) /\ Len(cells) \in Nat
      BY <1>4, <2>1 DEF Ids
    <2>5. CASE k <= Len(regs)
      <3>1. k \in Regs /\ Operands[k] = RegCell(k)
        BY <1>1, <2>1, <2>2, <2>3, <2>4, <2>5
      <3>2. Width(RegCell(k).val) = RegWidths[k]
        <4>1. Shows(RegCell(k), RegWidths[k]) /\ RegWidths[k] \in Nat
          BY <3>1, RegsAre DEF Inv
        <4> QED BY <4>1, ValueParts DEF Shows, Good
      <3> QED BY <1>7, <3>1, <3>2 DEF Val
    <2>6. CASE ~(k <= Len(regs))
      <3>1. k - Len(regs) \in 1 .. Len(cells) /\ Operands[k] = cells[k - Len(regs)]
        BY <1>1, <2>1, <2>2, <2>3, <2>4, <2>6
      <3> QED BY <2>1, <3>1 DEF Inv, Val
    <2> QED BY <2>5, <2>6
  <1> QED BY <1>6, <1>8, <1>9 DEF Val

\* One cell more, of value V, that is seen as the given nodes
Adds(V, nodes) ==
  /\ cells' = Append(cells, [val |-> V, shown |-> ShownOf(nodes)])
  /\ UNCHANGED << circuit, wires, old, cycle >>

LEMMA Added ==
  ASSUME Inv, NEW V, NEW nodes, NEW n \in Fitting, Shows([val |-> V, shown |-> ShownOf(nodes)], n),
         Adds(V, nodes)
  PROVE  Inv'
  <1>1. cells' \in Seq(ShownCells)
    BY ShownIn DEF Inv, Adds
  <1>2. circuit' = circuit /\ wires' = wires /\ old' = old /\ cycle' = cycle
    BY DEF Adds
  <1>3. \A r \in Regs : RegCell(r)' = RegCell(r)
    BY <1>2 DEF RegCell, RegWidths
  <1>4. Regs' = Regs /\ RegWidths' = RegWidths /\ Fitting' = Fitting
    BY <1>2 DEF Regs, RegWidths, Fitting
  <1>5. \A k \in DOMAIN cells' : Width(cells'[k].val) \in Fitting
    <2> DEFINE o == [val |-> V, shown |-> ShownOf(nodes)]
    <2>1. Width(V) = n
      BY WidthsFit, ValueParts DEF Shows, Good
    <2>2. o.val = V
      OBVIOUS
    <2> HIDE DEF o
    <2>3. /\ cells \in Seq(ShownCells) /\ DOMAIN cells = 1 .. Len(cells)
          /\ cells' = Append(cells, o) /\ Len(cells) \in Nat
      BY DEF Inv, Adds, o
    <2>4. /\ DOMAIN cells' = 1 .. Len(cells) + 1
          /\ \A k \in 1 .. Len(cells) : cells'[k] = cells[k]
          /\ cells'[Len(cells) + 1] = o
      BY <2>3
    <2>5. ASSUME NEW k \in DOMAIN cells' PROVE Width(cells'[k].val) \in Fitting
      <3>1. CASE k \in 1 .. Len(cells)
        BY <2>3, <2>4, <3>1 DEF Inv
      <3>2. CASE k = Len(cells) + 1
        BY <2>1, <2>2, <2>4, <3>2
      <3> QED BY <2>3, <2>4, <2>5, <3>1, <3>2
    <2> QED BY <2>5
  <1> QED BY <1>1, <1>2, <1>3, <1>4, <1>5 DEF Inv

LEMMA Added1 ==
  ASSUME Inv, NEW j \in Ids, NEW n \in Fitting, NEW V, NEW f, Sound1(V, n, f, Val(j)),
         NEW nodes, nodes = Shown1(f, Operands[j]), Adds(V, nodes)
  PROVE  Inv'
  <1>1. Shows(Operands[j], Width(Val(j))) /\ Operands[j].val = Val(j)
    BY OperandsShow
  <1>2. Shows([val |-> V, shown |-> ShownOf(nodes)], n)
    BY <1>1, Cell1, WidthsFit
  <1> QED BY <1>2, Added

LEMMA Added2 ==
  ASSUME Inv, NEW j \in Ids, NEW k \in Ids, NEW n \in Fitting, NEW V, NEW f,
         Sound2(V, n, f, Val(j), Val(k)),
         NEW nodes, nodes = Shown2(f, Operands[j], Operands[k]), Adds(V, nodes)
  PROVE  Inv'
  <1>1. /\ Shows(Operands[j], Width(Val(j))) /\ Operands[j].val = Val(j)
        /\ Shows(Operands[k], Width(Val(k))) /\ Operands[k].val = Val(k)
    BY OperandsShow
  <1>2. Shows([val |-> V, shown |-> ShownOf(nodes)], n)
    BY <1>1, Cell2, WidthsFit
  <1> QED BY <1>2, Added

-----------------------------------------------------------------------------
(* Cells on casted operands                                                *)

\* The words a cast makes of what is seen
Casting1(g, c, s) == [e \in Env |-> g[CastWord(WordsAt(s, e)[1], c.w, c.signed)]]
Casting2(g, c, s) ==
  [e \in Env |-> g[CastWord(WordsAt(s, e)[1], c.w, c.signed)][CastWord(WordsAt(s, e)[2], c.w, c.signed)]]
Casts1(g, c, o) == {NodeOf(Casting1(g, c, s)) : s \in Seen(<< o >>)}
Casts2(g, c, o, p) == {NodeOf(Casting2(g, c, s)) : s \in Seen(<< o, p >>)}

\* A cast to a width
Resizing == [w : Fitting, signed : BOOLEAN]

LEMMA CastParts ==
  ASSUME Inv, NEW S, NEW c \in Casts(S)
  PROVE  c \in Resizing
  <1>1. c \in [w : Widths, signed : BOOLEAN]
    BY DEF Casts
  <1> QED BY <1>1, OperandsShow DEF Resizing

LEMMA CastIs ==
  ASSUME Inv, NEW j \in Ids, NEW c \in Resizing
  PROVE  /\ Sound1(Cast(Val(j), c), c.w, CastTable(Width(Val(j)), c.w, c.signed), Val(j))
         /\ Good(Cast(Val(j), c), c.w) /\ c.w \in Nat /\ c.w # 0 /\ c.signed \in BOOLEAN /\ c.w \in Fitting
         /\ CastTable(Width(Val(j)), c.w, c.signed) \in Functions1(Width(Val(j)), c.w)
         /\ \A x \in Bools(Width(Val(j))) :
              /\ CastTable(Width(Val(j)), c.w, c.signed)[x] = CastWord(x, c.w, c.signed)
              /\ CastWord(x, c.w, c.signed) \in Bools(c.w)
  <1> DEFINE w == Width(Val(j))
             t == CastTable(w, c.w, c.signed)
  <1>1. c.w \in Nat /\ c.w # 0 /\ c.signed \in BOOLEAN /\ c.w \in Fitting
    BY WidthsFit DEF Resizing
  <1>2. w \in Nat /\ w # 0 /\ Good(Val(j), w)
    BY OperandsShow
  <1>3. Cast(Val(j), c) = Casted(Val(j), c.w, c.signed)
    BY DEF Cast, Casted
  <1>4. Sound1(Cast(Val(j), c), c.w, t, Val(j))
    <2> HIDE DEF w
    <2> QED BY <1>1, <1>2, <1>3, CastSound
  <1>5. t \in Functions1(w, c.w)
    <2> HIDE DEF w
    <2> QED BY <1>1, <1>2, CastTableType
  <1>6. \A x \in Bools(w) : t[x] = CastWord(x, c.w, c.signed)
    BY DEF CastTable
  <1>7. \A x \in Bools(w) : CastWord(x, c.w, c.signed) \in Bools(c.w)
    <2> HIDE DEF t, w
    <2> QED BY <1>5, <1>6 DEF Functions1
  <1> QED BY <1>1, <1>4, <1>5, <1>6, <1>7 DEF Sound1

LEMMA CastSeen1 ==
  ASSUME Inv, NEW j \in Ids, NEW c \in Resizing, NEW s \in Seen(<< Operands[j] >>), NEW e \in Env
  PROVE  \E y \in Bools(c.w) : /\ CastWords(WordsAt(s, e), c) = << y >>
                               /\ CastWord(WordsAt(s, e)[1], c.w, c.signed) = y
  <1>1. PICK x \in Bools(Width(Val(j))) : WordsAt(s, e) = << x >>
    BY OperandsShow, Seen1
  <1>2. CastWords(<< x >>, c) = << CastWord(x, c.w, c.signed) >>
    BY DEF CastWords
  <1> QED BY <1>1, <1>2, CastIs

LEMMA CastSeen2 ==
  ASSUME Inv, NEW j \in Ids, NEW k \in Ids, NEW c \in Resizing,
         NEW s \in Seen(<< Operands[j], Operands[k] >>), NEW e \in Env
  PROVE  \E y, z \in Bools(c.w) : /\ CastWords(WordsAt(s, e), c) = << y, z >>
                                  /\ CastWord(WordsAt(s, e)[1], c.w, c.signed) = y
                                  /\ CastWord(WordsAt(s, e)[2], c.w, c.signed) = z
  <1>1. PICK x \in Bools(Width(Val(j))), y \in Bools(Width(Val(k))) : WordsAt(s, e) = << x, y >>
    BY OperandsShow, Seen2
  <1>2. CastWords(<< x, y >>, c) = << CastWord(x, c.w, c.signed), CastWord(y, c.w, c.signed) >>
    BY DEF CastWords
  <1> QED BY <1>1, <1>2, CastIs

LEMMA CastAdded1 ==
  ASSUME Inv, NEW j \in Ids, NEW c \in Resizing, NEW n \in Fitting, NEW V, NEW g,
         Sound1(V, n, g, Cast(Val(j), c)), NEW nodes, nodes = Casts1(g, c, Operands[j]), Adds(V, nodes)
  PROVE  Inv'
  <1> DEFINE w == Width(Val(j))
             h == CastTable(w, c.w, c.signed)
             f == Comp1(h, g)
  <1>1. w \in Nat /\ Good(Val(j), w) /\ Shows(Operands[j], w)
    BY OperandsShow
  <1>2. /\ Sound1(Cast(Val(j), c), c.w, h, Val(j)) /\ c.w \in Nat /\ h \in Functions1(w, c.w)
        /\ \A x \in Bools(w) : h[x] = CastWord(x, c.w, c.signed)
    BY CastIs
  <1> HIDE DEF h, w
  <1>3. Sound1(V, n, f, Val(j))
    BY <1>1, <1>2, Compose1
  <1>4. \A x \in Bools(w) : f[x] = g[CastWord(x, c.w, c.signed)]
    BY <1>2 DEF Comp1, Functions1
  <1> HIDE DEF f
  <1>5. ASSUME NEW s \in Seen(<< Operands[j] >>) PROVE Casting1(g, c, s) = Seeing1(f, s)
    <2>1. ASSUME NEW e \in Env PROVE g[CastWord(WordsAt(s, e)[1], c.w, c.signed)] = f[WordsAt(s, e)[1]]
      <3>1. PICK x \in Bools(w) : WordsAt(s, e) = << x >>
        BY <1>1, Seen1
      <3> QED BY <1>4, <3>1
    <2> QED BY <2>1 DEF Casting1, Seeing1
  <1>6. nodes = Shown1(f, Operands[j])
    BY <1>5 DEF Casts1, Shown1
  <1> QED BY <1>3, <1>6, Added1

LEMMA CastAdded2 ==
  ASSUME Inv, NEW j \in Ids, NEW k \in Ids, NEW c \in Resizing, NEW n \in Fitting, NEW V, NEW g,
         Sound2(V, n, g, Cast(Val(j), c), Cast(Val(k), c)),
         NEW nodes, nodes = Casts2(g, c, Operands[j], Operands[k]), Adds(V, nodes)
  PROVE  Inv'
  <1> DEFINE w == Width(Val(j))
             u == Width(Val(k))
             h == CastTable(w, c.w, c.signed)
             l == CastTable(u, c.w, c.signed)
             f == Comp2(h, l, g)
  <1>1. /\ w \in Nat /\ Good(Val(j), w) /\ Shows(Operands[j], w)
        /\ u \in Nat /\ Good(Val(k), u) /\ Shows(Operands[k], u)
    BY OperandsShow
  <1>2. /\ Sound1(Cast(Val(j), c), c.w, h, Val(j)) /\ c.w \in Nat /\ h \in Functions1(w, c.w)
        /\ \A x \in Bools(w) : h[x] = CastWord(x, c.w, c.signed)
    BY CastIs
  <1>3. /\ Sound1(Cast(Val(k), c), c.w, l, Val(k)) /\ l \in Functions1(u, c.w)
        /\ \A x \in Bools(u) : l[x] = CastWord(x, c.w, c.signed)
    BY CastIs
  <1> HIDE DEF h, w, l, u
  <1>4. Sound2(V, n, f, Val(j), Val(k))
    BY <1>1, <1>2, <1>3, Compose2
  <1>5. \A x \in Bools(w) : \A y \in Bools(u) :
          f[x][y] = g[CastWord(x, c.w, c.signed)][CastWord(y, c.w, c.signed)]
    BY <1>2, <1>3 DEF Comp2, Functions1
  <1> HIDE DEF f
  <1>6. ASSUME NEW s \in Seen(<< Operands[j], Operands[k] >>) PROVE Casting2(g, c, s) = Seeing2(f, s)
    <2>1. ASSUME NEW e \in Env
          PROVE  g[CastWord(WordsAt(s, e)[1], c.w, c.signed)][CastWord(WordsAt(s, e)[2], c.w, c.signed)]
                   = f[WordsAt(s, e)[1]][WordsAt(s, e)[2]]
      <3>1. PICK x \in Bools(w), y \in Bools(u) : WordsAt(s, e) = << x, y >>
        BY <1>1, Seen2
      <3> QED BY <1>5, <3>1
    <2> QED BY <2>1 DEF Casting2, Seeing2
  <1>7. nodes = Shown2(f, Operands[j], Operands[k])
    BY <1>6 DEF Casts2, Shown2
  <1> QED BY <1>4, <1>7, Added2

-----------------------------------------------------------------------------
(* The cells of Unary and Binary                                           *)

LEMMA PosStep ==
  ASSUME Inv, Pos
  PROVE  Inv'
  <1> DEFINE nodes(j, c) == {NodeOf([e \in Env |-> FPos(CastWords(WordsAt(s, e), c))]) :
                               s \in Seen(<< Operands[j] >>)}
  <1>1. \E j \in Ids : \E c \in Casts({j}) : Adds(pos(Cast(Val(j), c)), nodes(j, c))
    BY DEF Pos, Unary, Cell, ShownBy, Lift, Adds
  <1>2. PICK j \in Ids, c \in Resizing : Adds(pos(Cast(Val(j), c)), nodes(j, c))
    BY <1>1, CastParts
  <1> DEFINE g == Table1(FPos, c.w)
  <1>3. Sound1(pos(Cast(Val(j), c)), c.w, g, Cast(Val(j), c)) /\ c.w \in Nat /\ c.w # 0 /\ c.w \in Fitting
    BY CastIs, PosSound
  <1>4. nodes(j, c) = Casts1(g, c, Operands[j])
    <2>1. ASSUME NEW s \in Seen(<< Operands[j] >>), NEW e \in Env
          PROVE  FPos(CastWords(WordsAt(s, e), c)) = g[CastWord(WordsAt(s, e)[1], c.w, c.signed)]
      BY CastSeen1 DEF Table1
    <2> QED BY <2>1 DEF Casts1, Casting1
  <1> HIDE DEF g, nodes
  <1> QED BY <1>2, <1>3, <1>4, CastAdded1

LEMMA BitNotStep ==
  ASSUME Inv, BitNot
  PROVE  Inv'
  <1> DEFINE nodes(j, c) == {NodeOf([e \in Env |-> FNot(CastWords(WordsAt(s, e), c))]) :
                               s \in Seen(<< Operands[j] >>)}
  <1>1. \E j \in Ids : \E c \in Casts({j}) : Adds(bit_not(Cast(Val(j), c)), nodes(j, c))
    BY DEF BitNot, Unary, Cell, ShownBy, Lift, Adds
  <1>2. PICK j \in Ids, c \in Resizing : Adds(bit_not(Cast(Val(j), c)), nodes(j, c))
    BY <1>1, CastParts
  <1> DEFINE g == Table1(FNot, c.w)
  <1>3. Sound1(bit_not(Cast(Val(j), c)), c.w, g, Cast(Val(j), c)) /\ c.w \in Nat /\ c.w # 0 /\ c.w \in Fitting
    BY CastIs, NotSound
  <1>4. nodes(j, c) = Casts1(g, c, Operands[j])
    <2>1. ASSUME NEW s \in Seen(<< Operands[j] >>), NEW e \in Env
          PROVE  FNot(CastWords(WordsAt(s, e), c)) = g[CastWord(WordsAt(s, e)[1], c.w, c.signed)]
      BY CastSeen1 DEF Table1
    <2> QED BY <2>1 DEF Casts1, Casting1
  <1> HIDE DEF g, nodes
  <1> QED BY <1>2, <1>3, <1>4, CastAdded1

LEMMA NegStep ==
  ASSUME Inv, Neg
  PROVE  Inv'
  <1> DEFINE nodes(j, c) == {NodeOf([e \in Env |-> FNeg(CastWords(WordsAt(s, e), c))]) :
                               s \in Seen(<< Operands[j] >>)}
  <1>1. \E j \in Ids : \E c \in Casts({j}) : Adds(neg(Cast(Val(j), c)), nodes(j, c))
    BY DEF Neg, Unary, Cell, ShownBy, Lift, Adds
  <1>2. PICK j \in Ids, c \in Resizing : Adds(neg(Cast(Val(j), c)), nodes(j, c))
    BY <1>1, CastParts
  <1> DEFINE g == Table1(FNeg, c.w)
  <1>3. Sound1(neg(Cast(Val(j), c)), c.w, g, Cast(Val(j), c)) /\ c.w \in Nat /\ c.w # 0 /\ c.w \in Fitting
    BY CastIs, NegSound
  <1>4. nodes(j, c) = Casts1(g, c, Operands[j])
    <2>1. ASSUME NEW s \in Seen(<< Operands[j] >>), NEW e \in Env
          PROVE  FNeg(CastWords(WordsAt(s, e), c)) = g[CastWord(WordsAt(s, e)[1], c.w, c.signed)]
      BY CastSeen1 DEF Table1
    <2> QED BY <2>1 DEF Casts1, Casting1
  <1> HIDE DEF g, nodes
  <1> QED BY <1>2, <1>3, <1>4, CastAdded1

LEMMA BitAndStep ==
  ASSUME Inv, BitAnd
  PROVE  Inv'
  <1> DEFINE nodes(j, k, c) == {NodeOf([e \in Env |-> FAnd(CastWords(WordsAt(s, e), c))]) :
                                  s \in Seen(<< Operands[j], Operands[k] >>)}
  <1>1. \E j, k \in Ids : \E c \in Casts({j, k}) :
          Adds(bit_and(Cast(Val(j), c), Cast(Val(k), c)), nodes(j, k, c))
    BY DEF BitAnd, Binary, Cell, ShownBy, Lift, Adds
  <1>2. PICK j \in Ids, k \in Ids, c \in Resizing :
          Adds(bit_and(Cast(Val(j), c), Cast(Val(k), c)), nodes(j, k, c))
    BY <1>1, CastParts
  <1> DEFINE g == Table2(FAnd, c.w, c.w)
  <1>3. /\ Sound2(bit_and(Cast(Val(j), c), Cast(Val(k), c)), c.w, g, Cast(Val(j), c), Cast(Val(k), c))
        /\ c.w \in Nat /\ c.w # 0 /\ c.w \in Fitting
    BY CastIs, AndSound
  <1>4. nodes(j, k, c) = Casts2(g, c, Operands[j], Operands[k])
    <2>1. ASSUME NEW s \in Seen(<< Operands[j], Operands[k] >>), NEW e \in Env
          PROVE  FAnd(CastWords(WordsAt(s, e), c))
                   = g[CastWord(WordsAt(s, e)[1], c.w, c.signed)][CastWord(WordsAt(s, e)[2], c.w, c.signed)]
      BY CastSeen2 DEF Table2
    <2> QED BY <2>1 DEF Casts2, Casting2
  <1> HIDE DEF g, nodes
  <1> QED BY <1>2, <1>3, <1>4, CastAdded2

LEMMA BitOrStep ==
  ASSUME Inv, BitOr
  PROVE  Inv'
  <1> DEFINE nodes(j, k, c) == {NodeOf([e \in Env |-> FOr(CastWords(WordsAt(s, e), c))]) :
                                  s \in Seen(<< Operands[j], Operands[k] >>)}
  <1>1. \E j, k \in Ids : \E c \in Casts({j, k}) :
          Adds(bit_or(Cast(Val(j), c), Cast(Val(k), c)), nodes(j, k, c))
    BY DEF BitOr, Binary, Cell, ShownBy, Lift, Adds
  <1>2. PICK j \in Ids, k \in Ids, c \in Resizing :
          Adds(bit_or(Cast(Val(j), c), Cast(Val(k), c)), nodes(j, k, c))
    BY <1>1, CastParts
  <1> DEFINE g == Table2(FOr, c.w, c.w)
  <1>3. /\ Sound2(bit_or(Cast(Val(j), c), Cast(Val(k), c)), c.w, g, Cast(Val(j), c), Cast(Val(k), c))
        /\ c.w \in Nat /\ c.w # 0 /\ c.w \in Fitting
    BY CastIs, OrSound
  <1>4. nodes(j, k, c) = Casts2(g, c, Operands[j], Operands[k])
    <2>1. ASSUME NEW s \in Seen(<< Operands[j], Operands[k] >>), NEW e \in Env
          PROVE  FOr(CastWords(WordsAt(s, e), c))
                   = g[CastWord(WordsAt(s, e)[1], c.w, c.signed)][CastWord(WordsAt(s, e)[2], c.w, c.signed)]
      BY CastSeen2 DEF Table2
    <2> QED BY <2>1 DEF Casts2, Casting2
  <1> HIDE DEF g, nodes
  <1> QED BY <1>2, <1>3, <1>4, CastAdded2

LEMMA BitXorStep ==
  ASSUME Inv, BitXor
  PROVE  Inv'
  <1> DEFINE nodes(j, k, c) == {NodeOf([e \in Env |-> FXor(CastWords(WordsAt(s, e), c))]) :
                                  s \in Seen(<< Operands[j], Operands[k] >>)}
  <1>1. \E j, k \in Ids : \E c \in Casts({j, k}) :
          Adds(bit_xor(Cast(Val(j), c), Cast(Val(k), c)), nodes(j, k, c))
    BY DEF BitXor, Binary, Cell, ShownBy, Lift, Adds
  <1>2. PICK j \in Ids, k \in Ids, c \in Resizing :
          Adds(bit_xor(Cast(Val(j), c), Cast(Val(k), c)), nodes(j, k, c))
    BY <1>1, CastParts
  <1> DEFINE g == Table2(FXor, c.w, c.w)
  <1>3. /\ Sound2(bit_xor(Cast(Val(j), c), Cast(Val(k), c)), c.w, g, Cast(Val(j), c), Cast(Val(k), c))
        /\ c.w \in Nat /\ c.w # 0 /\ c.w \in Fitting
    BY CastIs, XorSound
  <1>4. nodes(j, k, c) = Casts2(g, c, Operands[j], Operands[k])
    <2>1. ASSUME NEW s \in Seen(<< Operands[j], Operands[k] >>), NEW e \in Env
          PROVE  FXor(CastWords(WordsAt(s, e), c))
                   = g[CastWord(WordsAt(s, e)[1], c.w, c.signed)][CastWord(WordsAt(s, e)[2], c.w, c.signed)]
      BY CastSeen2 DEF Table2
    <2> QED BY <2>1 DEF Casts2, Casting2
  <1> HIDE DEF g, nodes
  <1> QED BY <1>2, <1>3, <1>4, CastAdded2

LEMMA AddStep ==
  ASSUME Inv, Add
  PROVE  Inv'
  <1> DEFINE nodes(j, k, c) == {NodeOf([e \in Env |-> FAdd(CastWords(WordsAt(s, e), c))]) :
                                  s \in Seen(<< Operands[j], Operands[k] >>)}
  <1>1. \E j, k \in Ids : \E c \in Casts({j, k}) :
          Adds(add(Cast(Val(j), c), Cast(Val(k), c)), nodes(j, k, c))
    BY DEF Add, Binary, Cell, ShownBy, Lift, Adds
  <1>2. PICK j \in Ids, k \in Ids, c \in Resizing :
          Adds(add(Cast(Val(j), c), Cast(Val(k), c)), nodes(j, k, c))
    BY <1>1, CastParts
  <1> DEFINE g == Table2(FAdd, c.w, c.w)
  <1>3. /\ Sound2(add(Cast(Val(j), c), Cast(Val(k), c)), c.w, g, Cast(Val(j), c), Cast(Val(k), c))
        /\ c.w \in Nat /\ c.w # 0 /\ c.w \in Fitting
    BY CastIs, AddSound
  <1>4. nodes(j, k, c) = Casts2(g, c, Operands[j], Operands[k])
    <2>1. ASSUME NEW s \in Seen(<< Operands[j], Operands[k] >>), NEW e \in Env
          PROVE  FAdd(CastWords(WordsAt(s, e), c))
                   = g[CastWord(WordsAt(s, e)[1], c.w, c.signed)][CastWord(WordsAt(s, e)[2], c.w, c.signed)]
      BY CastSeen2 DEF Table2
    <2> QED BY <2>1 DEF Casts2, Casting2
  <1> HIDE DEF g, nodes
  <1> QED BY <1>2, <1>3, <1>4, CastAdded2

LEMMA SubStep ==
  ASSUME Inv, Sub
  PROVE  Inv'
  <1> DEFINE nodes(j, k, c) == {NodeOf([e \in Env |-> FSub(CastWords(WordsAt(s, e), c))]) :
                                  s \in Seen(<< Operands[j], Operands[k] >>)}
  <1>1. \E j, k \in Ids : \E c \in Casts({j, k}) :
          Adds(sub(Cast(Val(j), c), Cast(Val(k), c)), nodes(j, k, c))
    BY DEF Sub, Binary, Cell, ShownBy, Lift, Adds
  <1>2. PICK j \in Ids, k \in Ids, c \in Resizing :
          Adds(sub(Cast(Val(j), c), Cast(Val(k), c)), nodes(j, k, c))
    BY <1>1, CastParts
  <1> DEFINE g == Table2(FSub, c.w, c.w)
  <1>3. /\ Sound2(sub(Cast(Val(j), c), Cast(Val(k), c)), c.w, g, Cast(Val(j), c), Cast(Val(k), c))
        /\ c.w \in Nat /\ c.w # 0 /\ c.w \in Fitting
    BY CastIs, SubSound
  <1>4. nodes(j, k, c) = Casts2(g, c, Operands[j], Operands[k])
    <2>1. ASSUME NEW s \in Seen(<< Operands[j], Operands[k] >>), NEW e \in Env
          PROVE  FSub(CastWords(WordsAt(s, e), c))
                   = g[CastWord(WordsAt(s, e)[1], c.w, c.signed)][CastWord(WordsAt(s, e)[2], c.w, c.signed)]
      BY CastSeen2 DEF Table2
    <2> QED BY <2>1 DEF Casts2, Casting2
  <1> HIDE DEF g, nodes
  <1> QED BY <1>2, <1>3, <1>4, CastAdded2

LEMMA BitXnorStep ==
  ASSUME Inv, BitXnor
  PROVE  Inv'
  <1> DEFINE nodes(j, k, c) == {NodeOf([e \in Env |-> FXnor(CastWords(WordsAt(s, e), c))]) :
                                  s \in Seen(<< Operands[j], Operands[k] >>)}
  <1>1. \E j, k \in Ids : \E c \in Casts({j, k}) :
          Adds(bit_xnor(Cast(Val(j), c), Cast(Val(k), c)), nodes(j, k, c))
    BY DEF BitXnor, Binary, Cell, ShownBy, Lift, Adds
  <1>2. PICK j \in Ids, k \in Ids, c \in Resizing :
          Adds(bit_xnor(Cast(Val(j), c), Cast(Val(k), c)), nodes(j, k, c))
    BY <1>1, CastParts
  <1> DEFINE g == After2(Table2(FXor, c.w, c.w), Table1(FNot, c.w))
  <1>3. /\ Sound2(bit_xnor(Cast(Val(j), c), Cast(Val(k), c)), c.w, g, Cast(Val(j), c), Cast(Val(k), c))
        /\ c.w \in Nat /\ c.w # 0 /\ c.w \in Fitting
    BY CastIs, XnorSound
  <1>4. \A y, z \in Bools(c.w) : g[y][z] = FXnor(<< y, z >>)
    <2>1. \A y, z \in Bools(c.w) : FXor(<< y, z >>) \in Bools(c.w)
      BY DEF FXor, Bools
    <2> QED BY <2>1 DEF After2, Table2, Table1, FXnor
  <1> HIDE DEF g
  <1>5. nodes(j, k, c) = Casts2(g, c, Operands[j], Operands[k])
    <2>1. ASSUME NEW s \in Seen(<< Operands[j], Operands[k] >>), NEW e \in Env
          PROVE  FXnor(CastWords(WordsAt(s, e), c))
                   = g[CastWord(WordsAt(s, e)[1], c.w, c.signed)][CastWord(WordsAt(s, e)[2], c.w, c.signed)]
      BY <1>4, CastSeen2
    <2> QED BY <2>1 DEF Casts2, Casting2
  <1> HIDE DEF nodes
  <1> QED BY <1>2, <1>3, <1>5, CastAdded2

-----------------------------------------------------------------------------
(* One-bit results of one word                                             *)

LEMMA LogicNotStep ==
  ASSUME Inv, LogicNot
  PROVE  Inv'
  <1> DEFINE nodes(j) == {NodeOf([e \in Env |-> FLogicNot(WordsAt(s, e))]) : s \in Seen(<< Operands[j] >>)}
  <1>1. PICK j \in Ids : Adds(logic_not(Val(j)), nodes(j))
    BY DEF LogicNot, Reduction, Cell, ShownBy, Lift, Adds
  <1> DEFINE w == Width(Val(j))
             f == Table1(FLogicNot, w)
  <1>2. w \in Nat /\ Good(Val(j), w) /\ Shows(Operands[j], w)
    BY OperandsShow
  <1> HIDE DEF w
  <1>3. Sound1(logic_not(Val(j)), 1, f, Val(j))
    BY <1>2, LogicNotSound
  <1>4. nodes(j) = Shown1(f, Operands[j])
    <2>1. ASSUME NEW s \in Seen(<< Operands[j] >>), NEW e \in Env
          PROVE  FLogicNot(WordsAt(s, e)) = f[WordsAt(s, e)[1]]
      BY <1>2, Seen1 DEF Table1
    <2> QED BY <2>1 DEF Shown1, Seeing1
  <1> HIDE DEF f, nodes
  <1>5. 1 \in Fitting
    BY WidthsFit
  <1> QED BY <1>1, <1>3, <1>4, <1>5, Added1

LEMMA ReduceAndStep ==
  ASSUME Inv, ReduceAnd
  PROVE  Inv'
  <1> DEFINE nodes(j) == {NodeOf([e \in Env |-> FReduceAnd(WordsAt(s, e))]) : s \in Seen(<< Operands[j] >>)}
  <1>1. PICK j \in Ids : Adds(reduce_and(Val(j)), nodes(j))
    BY DEF ReduceAnd, Reduction, Cell, ShownBy, Lift, Adds
  <1> DEFINE w == Width(Val(j))
             f == Table1(FReduceAnd, w)
  <1>2. w \in Nat /\ Good(Val(j), w) /\ Shows(Operands[j], w)
    BY OperandsShow
  <1> HIDE DEF w
  <1>3. Sound1(reduce_and(Val(j)), 1, f, Val(j))
    BY <1>2, ReduceAndSound
  <1>4. nodes(j) = Shown1(f, Operands[j])
    <2>1. ASSUME NEW s \in Seen(<< Operands[j] >>), NEW e \in Env
          PROVE  FReduceAnd(WordsAt(s, e)) = f[WordsAt(s, e)[1]]
      BY <1>2, Seen1 DEF Table1
    <2> QED BY <2>1 DEF Shown1, Seeing1
  <1> HIDE DEF f, nodes
  <1>5. 1 \in Fitting
    BY WidthsFit
  <1> QED BY <1>1, <1>3, <1>4, <1>5, Added1

LEMMA ReduceOrStep ==
  ASSUME Inv, ReduceOr
  PROVE  Inv'
  <1> DEFINE nodes(j) == {NodeOf([e \in Env |-> FReduceOr(WordsAt(s, e))]) : s \in Seen(<< Operands[j] >>)}
  <1>1. PICK j \in Ids : Adds(reduce_or(Val(j)), nodes(j))
    BY DEF ReduceOr, Reduction, Cell, ShownBy, Lift, Adds
  <1> DEFINE w == Width(Val(j))
             f == Table1(FReduceOr, w)
  <1>2. w \in Nat /\ Good(Val(j), w) /\ Shows(Operands[j], w)
    BY OperandsShow
  <1> HIDE DEF w
  <1>3. Sound1(reduce_or(Val(j)), 1, f, Val(j))
    BY <1>2, ReduceOrSound
  <1>4. nodes(j) = Shown1(f, Operands[j])
    <2>1. ASSUME NEW s \in Seen(<< Operands[j] >>), NEW e \in Env
          PROVE  FReduceOr(WordsAt(s, e)) = f[WordsAt(s, e)[1]]
      BY <1>2, Seen1 DEF Table1
    <2> QED BY <2>1 DEF Shown1, Seeing1
  <1> HIDE DEF f, nodes
  <1>5. 1 \in Fitting
    BY WidthsFit
  <1> QED BY <1>1, <1>3, <1>4, <1>5, Added1

LEMMA ReduceBoolStep ==
  ASSUME Inv, ReduceBool
  PROVE  Inv'
  <1> DEFINE nodes(j) == {NodeOf([e \in Env |-> FReduceOr(WordsAt(s, e))]) : s \in Seen(<< Operands[j] >>)}
  <1>1. PICK j \in Ids : Adds(reduce_or(Val(j)), nodes(j))
    BY DEF ReduceBool, Reduction, Cell, ShownBy, Lift, Adds
  <1> DEFINE w == Width(Val(j))
             f == Table1(FReduceOr, w)
  <1>2. w \in Nat /\ Good(Val(j), w) /\ Shows(Operands[j], w)
    BY OperandsShow
  <1> HIDE DEF w
  <1>3. Sound1(reduce_or(Val(j)), 1, f, Val(j))
    BY <1>2, ReduceOrSound
  <1>4. nodes(j) = Shown1(f, Operands[j])
    <2>1. ASSUME NEW s \in Seen(<< Operands[j] >>), NEW e \in Env
          PROVE  FReduceOr(WordsAt(s, e)) = f[WordsAt(s, e)[1]]
      BY <1>2, Seen1 DEF Table1
    <2> QED BY <2>1 DEF Shown1, Seeing1
  <1> HIDE DEF f, nodes
  <1>5. 1 \in Fitting
    BY WidthsFit
  <1> QED BY <1>1, <1>3, <1>4, <1>5, Added1

LEMMA ReduceXorStep ==
  ASSUME Inv, ReduceXor
  PROVE  Inv'
  <1> DEFINE xors(j) == {NodeOf([e \in Env |-> FReduceXor(WordsAt(s, e))]) : s \in Seen(<< Operands[j] >>)}
             xnors(j) == {NodeOf([e \in Env |-> FReduceXnor(WordsAt(s, e))]) : s \in Seen(<< Operands[j] >>)}
  <1>1. PICK j \in Ids : /\ Concrete(Val(j))
                         /\ Adds(reduce_xor(Val(j)), xors(j)) \/ Adds(reduce_xnor(Val(j)), xnors(j))
    BY DEF ReduceXor, Cell, ShownBy, Lift, Adds
  <1> DEFINE w == Width(Val(j))
             f == Table1(FReduceXor, w)
             g == Table1(FReduceXnor, w)
  <1>2. w \in Nat /\ Good(Val(j), w) /\ Shows(Operands[j], w) /\ 1 \in Fitting
    BY OperandsShow, WidthsFit
  <1>8. Val(j).ls = NULL
    BY <1>1 DEF Concrete
  <1> HIDE DEF w
  <1>3. Sound1(reduce_xor(Val(j)), 1, f, Val(j)) /\ Sound1(reduce_xnor(Val(j)), 1, g, Val(j))
    BY <1>2, <1>8, ReduceXorSound, ReduceXnorSound
  <1>4. xors(j) = Shown1(f, Operands[j])
    <2>1. ASSUME NEW s \in Seen(<< Operands[j] >>), NEW e \in Env
          PROVE  FReduceXor(WordsAt(s, e)) = f[WordsAt(s, e)[1]]
      BY <1>2, Seen1 DEF Table1
    <2> QED BY <2>1 DEF Shown1, Seeing1
  <1>5. xnors(j) = Shown1(g, Operands[j])
    <2>1. ASSUME NEW s \in Seen(<< Operands[j] >>), NEW e \in Env
          PROVE  FReduceXnor(WordsAt(s, e)) = g[WordsAt(s, e)[1]]
      BY <1>2, Seen1 DEF Table1
    <2> QED BY <2>1 DEF Shown1, Seeing1
  <1> HIDE DEF f, g, xors, xnors
  <1>6. CASE Adds(reduce_xor(Val(j)), xors(j))
    BY <1>2, <1>3, <1>4, <1>6, Added1
  <1>7. CASE Adds(reduce_xnor(Val(j)), xnors(j))
    BY <1>2, <1>3, <1>5, <1>7, Added1
  <1> QED BY <1>1, <1>6, <1>7

-----------------------------------------------------------------------------
(* One-bit results of two words                                            *)

\* A comparison sees its operands cast to the wider one.
LEMMA WidestCast ==
  ASSUME Inv, NEW j \in Ids, NEW k \in Ids, NEW signed \in BOOLEAN
  PROVE  [w |-> BitsExt(Val(j), Val(k)), signed |-> signed] \in Resizing
  <1> DEFINE w == Width(Val(j))
             u == Width(Val(k))
  <1>1. w \in Fitting /\ u \in Fitting
    BY OperandsShow
  <1>2. BitsExt(Val(j), Val(k)) \in Fitting
    BY <1>1 DEF BitsExt
  <1> QED BY <1>2 DEF Resizing

LEMMA CompareAdded ==
  ASSUME Inv, NEW j \in Ids, NEW k \in Ids, NEW c \in Resizing, NEW V, NEW g,
         Sound2(V, 1, Compares(Width(Val(j)), Width(Val(k)), c.w, c.signed, g), Val(j), Val(k)),
         NEW nodes, nodes = Casts2(g, c, Operands[j], Operands[k]), Adds(V, nodes)
  PROVE  Inv'
  <1> DEFINE w == Width(Val(j))
             u == Width(Val(k))
             h == CastTable(w, c.w, c.signed)
             l == CastTable(u, c.w, c.signed)
             f == Comp2(h, l, g)
  <1>1. /\ Shows(Operands[j], w) /\ Shows(Operands[k], u) /\ 1 \in Fitting
    BY OperandsShow, WidthsFit
  <1>2. h \in Functions1(w, c.w) /\ \A x \in Bools(w) : h[x] = CastWord(x, c.w, c.signed)
    BY CastIs
  <1>3. l \in Functions1(u, c.w) /\ \A x \in Bools(u) : l[x] = CastWord(x, c.w, c.signed)
    BY CastIs
  <1>4. Sound2(V, 1, f, Val(j), Val(k))
    BY DEF Compares
  <1> HIDE DEF h, w, l, u
  <1>5. \A x \in Bools(w) : \A y \in Bools(u) :
          f[x][y] = g[CastWord(x, c.w, c.signed)][CastWord(y, c.w, c.signed)]
    BY <1>2, <1>3 DEF Comp2, Functions1
  <1> HIDE DEF f
  <1>6. ASSUME NEW s \in Seen(<< Operands[j], Operands[k] >>) PROVE Casting2(g, c, s) = Seeing2(f, s)
    <2>1. ASSUME NEW e \in Env
          PROVE  g[CastWord(WordsAt(s, e)[1], c.w, c.signed)][CastWord(WordsAt(s, e)[2], c.w, c.signed)]
                   = f[WordsAt(s, e)[1]][WordsAt(s, e)[2]]
      <3>1. PICK x \in Bools(w), y \in Bools(u) : WordsAt(s, e) = << x, y >>
        BY <1>1, Seen2
      <3> QED BY <1>5, <3>1
    <2> QED BY <2>1 DEF Casting2, Seeing2
  <1>7. nodes = Shown2(f, Operands[j], Operands[k])
    BY <1>6 DEF Casts2, Shown2
  <1> QED BY <1>1, <1>4, <1>7, Added2

LEMMA EqStep ==
  ASSUME Inv, Eq
  PROVE  Inv'
  <1> DEFINE cast(j, k) == [w |-> BitsExt(Val(j), Val(k)), signed |-> FALSE]
             nodes(j, k) == {NodeOf([e \in Env |-> FEq(CastWords(WordsAt(s, e), cast(j, k)))]) :
                               s \in Seen(<< Operands[j], Operands[k] >>)}
  <1>1. PICK j \in Ids, k \in Ids :
          Adds(eq_uu(Val(j), Val(k)), nodes(j, k))
    BY DEF Eq, Comparison, Cell, ShownBy, Lift, Adds
  <1> DEFINE w == Width(Val(j))
             u == Width(Val(k))
             m == BitsExt(Val(j), Val(k))
             c == cast(j, k)
             g == Table2(FEq, m, m)
  <1>2. w \in Nat /\ w # 0 /\ Good(Val(j), w) /\ u \in Nat /\ u # 0 /\ Good(Val(k), u)
    BY OperandsShow
  <1>3. c.w = m /\ c.signed = FALSE /\ c \in Resizing
    BY WidestCast
  <1> HIDE DEF w, u
  <1>4. Sound2(eq_uu(Val(j), Val(k)), 1, Compares(w, u, m, FALSE, g), Val(j), Val(k))
    BY <1>1, <1>2, EqSound
  <1> HIDE DEF m
  <1>5. nodes(j, k) = Casts2(g, c, Operands[j], Operands[k])
    <2> HIDE DEF cast
    <2>1. ASSUME NEW s \in Seen(<< Operands[j], Operands[k] >>), NEW e \in Env
          PROVE  FEq(CastWords(WordsAt(s, e), c))
                   = g[CastWord(WordsAt(s, e)[1], c.w, c.signed)][CastWord(WordsAt(s, e)[2], c.w, c.signed)]
      BY <1>3, CastSeen2 DEF Table2
    <2> QED BY <2>1 DEF Casts2, Casting2
  <1> HIDE DEF c, cast, g, nodes
  <1> QED BY <1>1, <1>3, <1>4, <1>5, CompareAdded DEF w, u

LEMMA NeStep ==
  ASSUME Inv, Ne
  PROVE  Inv'
  <1> DEFINE cast(j, k) == [w |-> BitsExt(Val(j), Val(k)), signed |-> FALSE]
             nodes(j, k) == {NodeOf([e \in Env |-> FNe(CastWords(WordsAt(s, e), cast(j, k)))]) :
                               s \in Seen(<< Operands[j], Operands[k] >>)}
  <1>1. PICK j \in Ids, k \in Ids :
          Adds(ne_uu(Val(j), Val(k)), nodes(j, k))
    BY DEF Ne, Comparison, Cell, ShownBy, Lift, Adds
  <1> DEFINE w == Width(Val(j))
             u == Width(Val(k))
             m == BitsExt(Val(j), Val(k))
             c == cast(j, k)
             g == Table2(FNe, m, m)
  <1>2. w \in Nat /\ w # 0 /\ Good(Val(j), w) /\ u \in Nat /\ u # 0 /\ Good(Val(k), u)
    BY OperandsShow
  <1>3. c.w = m /\ c.signed = FALSE /\ c \in Resizing
    BY WidestCast
  <1> HIDE DEF w, u
  <1>4. Sound2(ne_uu(Val(j), Val(k)), 1, Compares(w, u, m, FALSE, g), Val(j), Val(k))
    BY <1>1, <1>2, NeSound
  <1> HIDE DEF m
  <1>5. nodes(j, k) = Casts2(g, c, Operands[j], Operands[k])
    <2> HIDE DEF cast
    <2>1. ASSUME NEW s \in Seen(<< Operands[j], Operands[k] >>), NEW e \in Env
          PROVE  FNe(CastWords(WordsAt(s, e), c))
                   = g[CastWord(WordsAt(s, e)[1], c.w, c.signed)][CastWord(WordsAt(s, e)[2], c.w, c.signed)]
      BY <1>3, CastSeen2 DEF Table2
    <2> QED BY <2>1 DEF Casts2, Casting2
  <1> HIDE DEF c, cast, g, nodes
  <1> QED BY <1>1, <1>3, <1>4, <1>5, CompareAdded DEF w, u

LEMMA LtStep ==
  ASSUME Inv, Lt
  PROVE  Inv'
  <1> DEFINE cast(j, k) == [w |-> BitsExt(Val(j), Val(k)), signed |-> FALSE]
             nodes(j, k) == {NodeOf([e \in Env |-> FLt(CastWords(WordsAt(s, e), cast(j, k)))]) :
                               s \in Seen(<< Operands[j], Operands[k] >>)}
  <1>1. PICK j \in Ids, k \in Ids :
          Adds(lt_uu(Val(j), Val(k)), nodes(j, k))
    BY DEF Lt, Comparison, Cell, ShownBy, Lift, Adds
  <1> DEFINE w == Width(Val(j))
             u == Width(Val(k))
             m == BitsExt(Val(j), Val(k))
             c == cast(j, k)
             g == Table2(FLt, m, m)
  <1>2. w \in Nat /\ w # 0 /\ Good(Val(j), w) /\ u \in Nat /\ u # 0 /\ Good(Val(k), u)
    BY OperandsShow
  <1>3. c.w = m /\ c.signed = FALSE /\ c \in Resizing
    BY WidestCast
  <1> HIDE DEF w, u
  <1>4. Sound2(lt_uu(Val(j), Val(k)), 1, Compares(w, u, m, FALSE, g), Val(j), Val(k))
    BY <1>1, <1>2, LtSound
  <1> HIDE DEF m
  <1>5. nodes(j, k) = Casts2(g, c, Operands[j], Operands[k])
    <2> HIDE DEF cast
    <2>1. ASSUME NEW s \in Seen(<< Operands[j], Operands[k] >>), NEW e \in Env
          PROVE  FLt(CastWords(WordsAt(s, e), c))
                   = g[CastWord(WordsAt(s, e)[1], c.w, c.signed)][CastWord(WordsAt(s, e)[2], c.w, c.signed)]
      BY <1>3, CastSeen2 DEF Table2
    <2> QED BY <2>1 DEF Casts2, Casting2
  <1> HIDE DEF c, cast, g, nodes
  <1> QED BY <1>1, <1>3, <1>4, <1>5, CompareAdded DEF w, u

LEMMA GtStep ==
  ASSUME Inv, Gt
  PROVE  Inv'
  <1> DEFINE cast(j, k) == [w |-> BitsExt(Val(j), Val(k)), signed |-> FALSE]
             nodes(j, k) == {NodeOf([e \in Env |-> FGt(CastWords(WordsAt(s, e), cast(j, k)))]) :
                               s \in Seen(<< Operands[j], Operands[k] >>)}
  <1>1. PICK j \in Ids, k \in Ids :
          Adds(gt_uu(Val(j), Val(k)), nodes(j, k))
    BY DEF Gt, Comparison, Cell, ShownBy, Lift, Adds
  <1> DEFINE w == Width(Val(j))
             u == Width(Val(k))
             m == BitsExt(Val(j), Val(k))
             c == cast(j, k)
             g == Table2(FGt, m, m)
  <1>2. w \in Nat /\ w # 0 /\ Good(Val(j), w) /\ u \in Nat /\ u # 0 /\ Good(Val(k), u)
    BY OperandsShow
  <1>3. c.w = m /\ c.signed = FALSE /\ c \in Resizing
    BY WidestCast
  <1> HIDE DEF w, u
  <1>4. Sound2(gt_uu(Val(j), Val(k)), 1, Compares(w, u, m, FALSE, g), Val(j), Val(k))
    BY <1>1, <1>2, GtSound
  <1> HIDE DEF m
  <1>5. nodes(j, k) = Casts2(g, c, Operands[j], Operands[k])
    <2> HIDE DEF cast
    <2>1. ASSUME NEW s \in Seen(<< Operands[j], Operands[k] >>), NEW e \in Env
          PROVE  FGt(CastWords(WordsAt(s, e), c))
                   = g[CastWord(WordsAt(s, e)[1], c.w, c.signed)][CastWord(WordsAt(s, e)[2], c.w, c.signed)]
      BY <1>3, CastSeen2 DEF Table2
    <2> QED BY <2>1 DEF Casts2, Casting2
  <1> HIDE DEF c, cast, g, nodes
  <1> QED BY <1>1, <1>3, <1>4, <1>5, CompareAdded DEF w, u

LEMMA LeStep ==
  ASSUME Inv, Le
  PROVE  Inv'
  <1> DEFINE cast(j, k) == [w |-> BitsExt(Val(j), Val(k)), signed |-> FALSE]
             nodes(j, k) == {NodeOf([e \in Env |-> FLe(CastWords(WordsAt(s, e), cast(j, k)))]) :
                               s \in Seen(<< Operands[j], Operands[k] >>)}
  <1>1. PICK j \in Ids, k \in Ids :
          /\ Concrete(Val(j)) /\ Concrete(Val(k)) /\ Adds(le_uu(Val(j), Val(k)), nodes(j, k))
    BY DEF Le, ConcreteComparison, Cell, ShownBy, Lift, Adds
  <1> DEFINE w == Width(Val(j))
             u == Width(Val(k))
             m == BitsExt(Val(j), Val(k))
             c == cast(j, k)
             g == Table2(FLe, m, m)
  <1>2. w \in Nat /\ w # 0 /\ Good(Val(j), w) /\ u \in Nat /\ u # 0 /\ Good(Val(k), u)
    BY OperandsShow
  <1>3. c.w = m /\ c.signed = FALSE /\ c \in Resizing
    BY WidestCast
  <1> HIDE DEF w, u
  <1>4. Sound2(le_uu(Val(j), Val(k)), 1, Compares(w, u, m, FALSE, g), Val(j), Val(k))
    BY <1>1, <1>2, LeSound
  <1> HIDE DEF m
  <1>5. nodes(j, k) = Casts2(g, c, Operands[j], Operands[k])
    <2> HIDE DEF cast
    <2>1. ASSUME NEW s \in Seen(<< Operands[j], Operands[k] >>), NEW e \in Env
          PROVE  FLe(CastWords(WordsAt(s, e), c))
                   = g[CastWord(WordsAt(s, e)[1], c.w, c.signed)][CastWord(WordsAt(s, e)[2], c.w, c.signed)]
      BY <1>3, CastSeen2 DEF Table2
    <2> QED BY <2>1 DEF Casts2, Casting2
  <1> HIDE DEF c, cast, g, nodes
  <1> QED BY <1>1, <1>3, <1>4, <1>5, CompareAdded DEF w, u

LEMMA EqSignedStep ==
  ASSUME Inv, EqSigned
  PROVE  Inv'
  <1> DEFINE cast(j, k) == [w |-> BitsExt(Val(j), Val(k)), signed |-> TRUE]
             nodes(j, k) == {NodeOf([e \in Env |-> FEq(CastWords(WordsAt(s, e), cast(j, k)))]) :
                               s \in Seen(<< Operands[j], Operands[k] >>)}
  <1>1. PICK j \in Ids, k \in Ids :
          /\ Concrete(Val(j)) /\ Concrete(Val(k)) /\ Adds(eq_ss(Val(j), Val(k)), nodes(j, k))
    BY DEF EqSigned, ConcreteComparison, Cell, ShownBy, Lift, Adds
  <1> DEFINE w == Width(Val(j))
             u == Width(Val(k))
             m == BitsExt(Val(j), Val(k))
             c == cast(j, k)
             g == Table2(FEq, m, m)
  <1>2. w \in Nat /\ w # 0 /\ Good(Val(j), w) /\ u \in Nat /\ u # 0 /\ Good(Val(k), u)
    BY OperandsShow
  <1>3. c.w = m /\ c.signed = TRUE /\ c \in Resizing
    BY WidestCast
  <1> HIDE DEF w, u
  <1>4. Sound2(eq_ss(Val(j), Val(k)), 1, Compares(w, u, m, TRUE, g), Val(j), Val(k))
    BY <1>1, <1>2, EqSignedSound
  <1> HIDE DEF m
  <1>5. nodes(j, k) = Casts2(g, c, Operands[j], Operands[k])
    <2> HIDE DEF cast
    <2>1. ASSUME NEW s \in Seen(<< Operands[j], Operands[k] >>), NEW e \in Env
          PROVE  FEq(CastWords(WordsAt(s, e), c))
                   = g[CastWord(WordsAt(s, e)[1], c.w, c.signed)][CastWord(WordsAt(s, e)[2], c.w, c.signed)]
      BY <1>3, CastSeen2 DEF Table2
    <2> QED BY <2>1 DEF Casts2, Casting2
  <1> HIDE DEF c, cast, g, nodes
  <1> QED BY <1>1, <1>3, <1>4, <1>5, CompareAdded DEF w, u

LEMMA NeSignedStep ==
  ASSUME Inv, NeSigned
  PROVE  Inv'
  <1> DEFINE cast(j, k) == [w |-> BitsExt(Val(j), Val(k)), signed |-> TRUE]
             nodes(j, k) == {NodeOf([e \in Env |-> FNe(CastWords(WordsAt(s, e), cast(j, k)))]) :
                               s \in Seen(<< Operands[j], Operands[k] >>)}
  <1>1. PICK j \in Ids, k \in Ids :
          /\ Concrete(Val(j)) /\ Concrete(Val(k)) /\ Adds(ne_ss(Val(j), Val(k)), nodes(j, k))
    BY DEF NeSigned, ConcreteComparison, Cell, ShownBy, Lift, Adds
  <1> DEFINE w == Width(Val(j))
             u == Width(Val(k))
             m == BitsExt(Val(j), Val(k))
             c == cast(j, k)
             g == Table2(FNe, m, m)
  <1>2. w \in Nat /\ w # 0 /\ Good(Val(j), w) /\ u \in Nat /\ u # 0 /\ Good(Val(k), u)
    BY OperandsShow
  <1>3. c.w = m /\ c.signed = TRUE /\ c \in Resizing
    BY WidestCast
  <1> HIDE DEF w, u
  <1>4. Sound2(ne_ss(Val(j), Val(k)), 1, Compares(w, u, m, TRUE, g), Val(j), Val(k))
    BY <1>1, <1>2, NeSignedSound
  <1> HIDE DEF m
  <1>5. nodes(j, k) = Casts2(g, c, Operands[j], Operands[k])
    <2> HIDE DEF cast
    <2>1. ASSUME NEW s \in Seen(<< Operands[j], Operands[k] >>), NEW e \in Env
          PROVE  FNe(CastWords(WordsAt(s, e), c))
                   = g[CastWord(WordsAt(s, e)[1], c.w, c.signed)][CastWord(WordsAt(s, e)[2], c.w, c.signed)]
      BY <1>3, CastSeen2 DEF Table2
    <2> QED BY <2>1 DEF Casts2, Casting2
  <1> HIDE DEF c, cast, g, nodes
  <1> QED BY <1>1, <1>3, <1>4, <1>5, CompareAdded DEF w, u

LEMMA LeSignedStep ==
  ASSUME Inv, LeSigned
  PROVE  Inv'
  <1> DEFINE cast(j, k) == [w |-> BitsExt(Val(j), Val(k)), signed |-> TRUE]
             nodes(j, k) == {NodeOf([e \in Env |-> FLeSigned(CastWords(WordsAt(s, e), cast(j, k)))]) :
                               s \in Seen(<< Operands[j], Operands[k] >>)}
  <1>1. PICK j \in Ids, k \in Ids :
          /\ Concrete(Val(j)) /\ Concrete(Val(k)) /\ Adds(le_ss(Val(j), Val(k)), nodes(j, k))
    BY DEF LeSigned, ConcreteComparison, Cell, ShownBy, Lift, Adds
  <1> DEFINE w == Width(Val(j))
             u == Width(Val(k))
             m == BitsExt(Val(j), Val(k))
             c == cast(j, k)
             g == Table2(FLeSigned, m, m)
  <1>2. w \in Nat /\ w # 0 /\ Good(Val(j), w) /\ u \in Nat /\ u # 0 /\ Good(Val(k), u)
    BY OperandsShow
  <1>3. c.w = m /\ c.signed = TRUE /\ c \in Resizing
    BY WidestCast
  <1> HIDE DEF w, u
  <1>4. Sound2(le_ss(Val(j), Val(k)), 1, Compares(w, u, m, TRUE, g), Val(j), Val(k))
    BY <1>1, <1>2, LeSignedSound
  <1> HIDE DEF m
  <1>5. nodes(j, k) = Casts2(g, c, Operands[j], Operands[k])
    <2> HIDE DEF cast
    <2>1. ASSUME NEW s \in Seen(<< Operands[j], Operands[k] >>), NEW e \in Env
          PROVE  FLeSigned(CastWords(WordsAt(s, e), c))
                   = g[CastWord(WordsAt(s, e)[1], c.w, c.signed)][CastWord(WordsAt(s, e)[2], c.w, c.signed)]
      BY <1>3, CastSeen2 DEF Table2
    <2> QED BY <2>1 DEF Casts2, Casting2
  <1> HIDE DEF c, cast, g, nodes
  <1> QED BY <1>1, <1>3, <1>4, <1>5, CompareAdded DEF w, u

LEMMA CastPair ==
  ASSUME NEW x, NEW y, NEW c
  PROVE  CastWords(<< x, y >>, c) = << CastWord(x, c.w, c.signed), CastWord(y, c.w, c.signed) >>
  BY DEF CastWords

LEMMA GeStep ==
  ASSUME Inv, Ge
  PROVE  Inv'
  <1> DEFINE cast(j, k) == [w |-> BitsExt(Val(j), Val(k)), signed |-> FALSE]
             nodes(j, k) == {NodeOf([e \in Env |-> FGe(CastWords(WordsAt(s, e), cast(j, k)))]) :
                               s \in Seen(<< Operands[j], Operands[k] >>)}
  <1>1. PICK j \in Ids, k \in Ids : Adds(ge_uu(Val(j), Val(k)), nodes(j, k))
    BY DEF Ge, Comparison, Cell, ShownBy, Lift, Adds
  <1> DEFINE w == Width(Val(j))
             u == Width(Val(k))
             m == BitsExt(Val(j), Val(k))
             c == cast(j, k)
             t == Table2(FLt, m, m)
             g == Compares(w, u, m, FALSE, t)
             f == After2(g, Table1(FNot, 1))
  <1>2. /\ w \in Nat /\ w # 0 /\ Good(Val(j), w) /\ u \in Nat /\ u # 0 /\ Good(Val(k), u)
        /\ Shows(Operands[j], w) /\ Shows(Operands[k], u)
    BY OperandsShow
  <1>3. c.w = m /\ c.signed = FALSE /\ c \in Resizing
    BY WidestCast
  <1> HIDE DEF w, u
  <1>4. g \in Functions2(w, u, 1) /\ Sound2(ge_uu(Val(j), Val(k)), 1, f, Val(j), Val(k))
    BY <1>2, GeSound
  <1>5. /\ \A x \in Bools(w) : CastWord(x, m, FALSE) \in Bools(m)
        /\ \A y \in Bools(u) : CastWord(y, m, FALSE) \in Bools(m)
    BY <1>3, CastIs DEF w, u
  <1> HIDE DEF m
  <1>6. \A x \in Bools(w) : \A y \in Bools(u) :
          g[x][y] = FLt(<< CastWord(x, m, FALSE), CastWord(y, m, FALSE) >>)
    BY <1>5 DEF Compares, Comp2, CastTable, Table2
  <1> HIDE DEF g, t
  <1>7. \A x \in Bools(w) : \A y \in Bools(u) :
          f[x][y] = FGe(<< CastWord(x, m, FALSE), CastWord(y, m, FALSE) >>)
    BY <1>4, <1>6 DEF After2, Functions2, Table1, FGe
  <1> HIDE DEF f
  <1>8. nodes(j, k) = Shown2(f, Operands[j], Operands[k])
    <2> HIDE DEF cast
    <2>1. ASSUME NEW s \in Seen(<< Operands[j], Operands[k] >>), NEW e \in Env
          PROVE  FGe(CastWords(WordsAt(s, e), c)) = f[WordsAt(s, e)[1]][WordsAt(s, e)[2]]
      <3>1. PICK x \in Bools(w), y \in Bools(u) : WordsAt(s, e) = << x, y >>
        BY <1>2, Seen2
      <3>2. CastWords(<< x, y >>, c) = << CastWord(x, m, FALSE), CastWord(y, m, FALSE) >>
        BY <1>3, CastPair
      <3>3. f[x][y] = FGe(<< CastWord(x, m, FALSE), CastWord(y, m, FALSE) >>)
        BY <1>7
      <3>4. << x, y >>[1] = x /\ << x, y >>[2] = y
        OBVIOUS
      <3> QED BY <3>1, <3>2, <3>3, <3>4, Zenon
    <2> QED BY <2>1 DEF Shown2, Seeing2
  <1> HIDE DEF nodes
  <1>9. 1 \in Fitting
    BY WidthsFit
  <1> QED BY <1>1, <1>4, <1>8, <1>9, Added2

\* An unsigned extension does not change whether a word is null.
LEMMA AnyCast ==
  ASSUME NEW n \in Nat, NEW m \in Nat, n <= m, NEW x \in Bools(n)
  PROVE  Any(CastWord(x, m, FALSE)) <=> Any(x)
  <1> DEFINE z == CastWord(x, m, FALSE)
  <1>1. DOMAIN x = 1 .. n /\ Len(x) = n
    BY Sequences1 DEF Bools
  <1>2. z = [i \in 1 .. m |-> IF i <= n THEN x[i] ELSE FALSE]
    BY <1>1 DEF CastWord
  <1>3. /\ DOMAIN z = 1 .. m
        /\ \A i \in 1 .. m : i <= n => z[i] = x[i]
        /\ \A i \in 1 .. m : ~(i <= n) => ~z[i]
    BY <1>2
  <1> HIDE DEF z
  <1>4. ASSUME Any(z) PROVE Any(x)
    <2>1. PICK i \in 1 .. m : z[i]
      BY <1>3, <1>4 DEF Any
    <2>2. i <= n
      BY <1>3, <2>1
    <2>3. i \in 1 .. n /\ x[i]
      BY <1>3, <2>1, <2>2
    <2> QED BY <1>1, <2>3 DEF Any
  <1>5. ASSUME Any(x) PROVE Any(z)
    <2>1. PICK i \in 1 .. n : x[i]
      BY <1>1, <1>5 DEF Any
    <2>2. i \in 1 .. m /\ z[i]
      BY <1>3, <2>1
    <2> QED BY <1>3, <2>2 DEF Any
  <1> QED BY <1>4, <1>5 DEF z

LEMMA LogicAndStep ==
  ASSUME Inv, LogicAnd
  PROVE  Inv'
  <1> DEFINE cast(j, k) == [w |-> BitsExt(Val(j), Val(k)), signed |-> FALSE]
             nodes(j, k) == {NodeOf([e \in Env |-> FLogicAnd(CastWords(WordsAt(s, e), cast(j, k)))]) :
                               s \in Seen(<< Operands[j], Operands[k] >>)}
  <1>1. PICK j \in Ids, k \in Ids : Adds(logic_and(Val(j), Val(k)), nodes(j, k))
    BY DEF LogicAnd, Comparison, Cell, ShownBy, Lift, Adds
  <1> DEFINE w == Width(Val(j))
             u == Width(Val(k))
             m == BitsExt(Val(j), Val(k))
             c == cast(j, k)
             f == Table2(FLogicAnd, w, u)
  <1>2. /\ w \in Nat /\ w # 0 /\ Good(Val(j), w) /\ u \in Nat /\ u # 0 /\ Good(Val(k), u)
        /\ Shows(Operands[j], w) /\ Shows(Operands[k], u)
    BY OperandsShow
  <1>3. c.w = m /\ c.signed = FALSE
    OBVIOUS
  <1> HIDE DEF w, u
  <1>4. Sound2(logic_and(Val(j), Val(k)), 1, f, Val(j), Val(k))
    BY <1>2, LogicAndSound
  <1>5. m \in Extents(w, u)
    BY <1>2, Wider
  <1> HIDE DEF m
  <1>6. \A x \in Bools(w) : \A y \in Bools(u) :
          f[x][y] = FLogicAnd(<< CastWord(x, m, FALSE), CastWord(y, m, FALSE) >>)
    <2>1. ASSUME NEW x \in Bools(w), NEW y \in Bools(u)
          PROVE  FLogicAnd(<< x, y >>) = FLogicAnd(<< CastWord(x, m, FALSE), CastWord(y, m, FALSE) >>)
      <3>1. (Any(CastWord(x, m, FALSE)) <=> Any(x)) /\ (Any(CastWord(y, m, FALSE)) <=> Any(y))
        BY <1>2, <1>5, AnyCast DEF Extents
      <3> QED BY <3>1 DEF FLogicAnd
    <2> QED BY <2>1 DEF Table2
  <1> HIDE DEF f
  <1>7. nodes(j, k) = Shown2(f, Operands[j], Operands[k])
    <2> HIDE DEF cast
    <2>1. ASSUME NEW s \in Seen(<< Operands[j], Operands[k] >>), NEW e \in Env
          PROVE  FLogicAnd(CastWords(WordsAt(s, e), c)) = f[WordsAt(s, e)[1]][WordsAt(s, e)[2]]
      <3>1. PICK x \in Bools(w), y \in Bools(u) : WordsAt(s, e) = << x, y >>
        BY <1>2, Seen2
      <3>2. CastWords(<< x, y >>, c) = << CastWord(x, m, FALSE), CastWord(y, m, FALSE) >>
        BY <1>3, CastPair
      <3>3. f[x][y] = FLogicAnd(<< CastWord(x, m, FALSE), CastWord(y, m, FALSE) >>)
        BY <1>6
      <3>4. << x, y >>[1] = x /\ << x, y >>[2] = y
        OBVIOUS
      <3> QED BY <3>1, <3>2, <3>3, <3>4, Zenon
    <2> QED BY <2>1 DEF Shown2, Seeing2
  <1> HIDE DEF nodes
  <1>8. 1 \in Fitting
    BY WidthsFit
  <1> QED BY <1>1, <1>4, <1>7, <1>8, Added2

LEMMA LogicOrStep ==
  ASSUME Inv, LogicOr
  PROVE  Inv'
  <1> DEFINE cast(j, k) == [w |-> BitsExt(Val(j), Val(k)), signed |-> FALSE]
             nodes(j, k) == {NodeOf([e \in Env |-> FLogicOr(CastWords(WordsAt(s, e), cast(j, k)))]) :
                               s \in Seen(<< Operands[j], Operands[k] >>)}
  <1>1. PICK j \in Ids, k \in Ids : Adds(logic_or(Val(j), Val(k)), nodes(j, k))
    BY DEF LogicOr, Comparison, Cell, ShownBy, Lift, Adds
  <1> DEFINE w == Width(Val(j))
             u == Width(Val(k))
             m == BitsExt(Val(j), Val(k))
             c == cast(j, k)
             f == Table2(FLogicOr, w, u)
  <1>2. /\ w \in Nat /\ w # 0 /\ Good(Val(j), w) /\ u \in Nat /\ u # 0 /\ Good(Val(k), u)
        /\ Shows(Operands[j], w) /\ Shows(Operands[k], u)
    BY OperandsShow
  <1>3. c.w = m /\ c.signed = FALSE
    OBVIOUS
  <1> HIDE DEF w, u
  <1>4. Sound2(logic_or(Val(j), Val(k)), 1, f, Val(j), Val(k))
    BY <1>2, LogicOrSound
  <1>5. m \in Extents(w, u)
    BY <1>2, Wider
  <1> HIDE DEF m
  <1>6. \A x \in Bools(w) : \A y \in Bools(u) :
          f[x][y] = FLogicOr(<< CastWord(x, m, FALSE), CastWord(y, m, FALSE) >>)
    <2>1. ASSUME NEW x \in Bools(w), NEW y \in Bools(u)
          PROVE  FLogicOr(<< x, y >>) = FLogicOr(<< CastWord(x, m, FALSE), CastWord(y, m, FALSE) >>)
      <3>1. (Any(CastWord(x, m, FALSE)) <=> Any(x)) /\ (Any(CastWord(y, m, FALSE)) <=> Any(y))
        BY <1>2, <1>5, AnyCast DEF Extents
      <3> QED BY <3>1 DEF FLogicOr
    <2> QED BY <2>1 DEF Table2
  <1> HIDE DEF f
  <1>7. nodes(j, k) = Shown2(f, Operands[j], Operands[k])
    <2> HIDE DEF cast
    <2>1. ASSUME NEW s \in Seen(<< Operands[j], Operands[k] >>), NEW e \in Env
          PROVE  FLogicOr(CastWords(WordsAt(s, e), c)) = f[WordsAt(s, e)[1]][WordsAt(s, e)[2]]
      <3>1. PICK x \in Bools(w), y \in Bools(u) : WordsAt(s, e) = << x, y >>
        BY <1>2, Seen2
      <3>2. CastWords(<< x, y >>, c) = << CastWord(x, m, FALSE), CastWord(y, m, FALSE) >>
        BY <1>3, CastPair
      <3>3. f[x][y] = FLogicOr(<< CastWord(x, m, FALSE), CastWord(y, m, FALSE) >>)
        BY <1>6
      <3>4. << x, y >>[1] = x /\ << x, y >>[2] = y
        OBVIOUS
      <3> QED BY <3>1, <3>2, <3>3, <3>4, Zenon
    <2> QED BY <2>1 DEF Shown2, Seeing2
  <1> HIDE DEF nodes
  <1>8. 1 \in Fitting
    BY WidthsFit
  <1> QED BY <1>1, <1>4, <1>7, <1>8, Added2

-----------------------------------------------------------------------------
(* Products and shifts                                                     *)

LEMMA MulStep ==
  ASSUME Inv, Mul
  PROVE  Inv'
  <1> DEFINE cast(j, k, n, signed) ==
               [w |-> IF signed THEN n ELSE BitsExt(Val(j), Val(k)), signed |-> signed]
             nodes(j, k, n, c) == {NodeOf([e \in Env |-> ProductWord(CastWords(WordsAt(s, e), c), n)]) :
                                     s \in Seen(<< Operands[j], Operands[k] >>)}
  <1>1. PICK j \in Ids, k \in Ids, n \in Widths, signed \in BOOLEAN :
          /\ MulDefined(Cast(Val(j), cast(j, k, n, signed)), Cast(Val(k), cast(j, k, n, signed)), n)
          /\ Adds(mul(Cast(Val(j), cast(j, k, n, signed)), Cast(Val(k), cast(j, k, n, signed)), n),
                  nodes(j, k, n, cast(j, k, n, signed)))
    BY DEF Mul, Cell, ShownBy, Lift, Adds
  <1> DEFINE c == cast(j, k, n, signed)
             g == Product(c.w, c.w, n)
  <1>2. n \in Nat /\ n # 0 /\ n \in Fitting
    BY OperandsShow
  <1>3. c \in Resizing
    <2>1. BitsExt(Val(j), Val(k)) \in Fitting
      BY WidestCast DEF Resizing
    <2> QED BY <1>2, <2>1 DEF Resizing
  <1>4. /\ MulDefined(Cast(Val(j), c), Cast(Val(k), c), n)
        /\ Adds(mul(Cast(Val(j), c), Cast(Val(k), c), n), nodes(j, k, n, c))
    BY <1>1
  <1> HIDE DEF c
  <1>5. Sound2(mul(Cast(Val(j), c), Cast(Val(k), c), n), n, g, Cast(Val(j), c), Cast(Val(k), c))
    BY <1>2, <1>3, <1>4, CastIs, MulSound
  <1>6. nodes(j, k, n, c) = Casts2(g, c, Operands[j], Operands[k])
    <2>1. ASSUME NEW s \in Seen(<< Operands[j], Operands[k] >>), NEW e \in Env
          PROVE  ProductWord(CastWords(WordsAt(s, e), c), n)
                   = g[CastWord(WordsAt(s, e)[1], c.w, c.signed)][CastWord(WordsAt(s, e)[2], c.w, c.signed)]
      BY <1>3, CastSeen2 DEF Product
    <2> QED BY <2>1 DEF Casts2, Casting2
  <1> HIDE DEF g, nodes
  <1> QED BY <1>2, <1>3, <1>4, <1>5, <1>6, CastAdded2

LEMMA ShlStep ==
  ASSUME Inv, Shl
  PROVE  Inv'
  <1> DEFINE nodes(j, k, c) ==
               {NodeOf([e \in Env |-> FShl(<< CastWord(WordsAt(s, e)[1], c.w, c.signed), WordsAt(s, e)[2] >>)]) :
                  s \in Seen(<< Operands[j], Operands[k] >>)}
  <1>1. \E j, k \in Ids : \E c \in Casts({j}) : Adds(shl(Cast(Val(j), c), Val(k)), nodes(j, k, c))
    BY DEF Shl, Cell, ShownBy, Lift, Adds
  <1>2. PICK j \in Ids, k \in Ids, c \in Resizing : Adds(shl(Cast(Val(j), c), Val(k)), nodes(j, k, c))
    BY ZenonT(40), <1>1, CastParts
  <1> DEFINE w == Width(Val(j))
             u == Width(Val(k))
             h == CastTable(w, c.w, c.signed)
             l == Table1(FPos, u)
             g == Table2(FShl, c.w, u)
             f == Comp2(h, l, g)
  <1>3. /\ w \in Nat /\ Good(Val(j), w) /\ u \in Nat /\ Good(Val(k), u)
        /\ Shows(Operands[j], w) /\ Shows(Operands[k], u)
    BY OperandsShow
  <1>4. /\ Sound1(Cast(Val(j), c), c.w, h, Val(j)) /\ Good(Cast(Val(j), c), c.w)
        /\ c.w \in Nat /\ c.w # 0 /\ c.w \in Fitting /\ h \in Functions1(w, c.w)
        /\ \A x \in Bools(w) : h[x] = CastWord(x, c.w, c.signed) /\ h[x] \in Bools(c.w)
    BY CastIs
  <1> HIDE DEF h, w, u
  <1>5. l \in Functions1(u, u) /\ \A y \in Bools(u) : l[y] = y
    BY DEF Functions1, Table1, FPos
  <1>6. Sound1(Val(k), u, l, Val(k))
    BY <1>3, PosSound DEF pos
  <1>7. Sound2(shl(Cast(Val(j), c), Val(k)), c.w, g, Cast(Val(j), c), Val(k))
    BY <1>3, <1>4, ShlSound
  <1>8. \A x \in Bools(w) : \A y \in Bools(u) : f[x][y] = FShl(<< CastWord(x, c.w, c.signed), y >>)
    <2> HIDE DEF l
    <2> QED BY <1>4, <1>5 DEF Comp2, Table2, Functions1
  <1> HIDE DEF g, l
  <1>9. Sound2(shl(Cast(Val(j), c), Val(k)), c.w, f, Val(j), Val(k))
    BY <1>3, <1>4, <1>5, <1>6, <1>7, Compose2
  <1> HIDE DEF f
  <1>10. nodes(j, k, c) = Shown2(f, Operands[j], Operands[k])
    <2>1. ASSUME NEW s \in Seen(<< Operands[j], Operands[k] >>), NEW e \in Env
          PROVE  FShl(<< CastWord(WordsAt(s, e)[1], c.w, c.signed), WordsAt(s, e)[2] >>)
                   = f[WordsAt(s, e)[1]][WordsAt(s, e)[2]]
      <3>1. PICK x \in Bools(w), y \in Bools(u) : WordsAt(s, e) = << x, y >>
        BY <1>3, Seen2
      <3> QED BY <1>8, <3>1
    <2> QED BY <2>1 DEF Shown2, Seeing2
  <1> HIDE DEF nodes
  <1> QED BY <1>2, <1>4, <1>9, <1>10, Added2

LEMMA ShrStep ==
  ASSUME Inv, Shr
  PROVE  Inv'
  <1> DEFINE nodes(j, k, c) ==
               {NodeOf([e \in Env |-> CastWord(FShr(WordsAt(s, e)), c.w, c.signed)]) :
                  s \in Seen(<< Operands[j], Operands[k] >>)}
  <1>1. \E j, k \in Ids : \E c \in Casts({j}) : Adds(Cast(shr(Val(j), Val(k)), c), nodes(j, k, c))
    BY DEF Shr, Cell, ShownBy, Lift, Adds
  <1>2. PICK j \in Ids, k \in Ids, c \in Resizing : Adds(Cast(shr(Val(j), Val(k)), c), nodes(j, k, c))
    BY <1>1, CastParts
  <1> DEFINE w == Width(Val(j))
             u == Width(Val(k))
             t == Table2(FShr, w, u)
             f == RightShift(w, u, c.w, c.signed)
  <1>3. /\ w \in Nat /\ w # 0 /\ Good(Val(j), w) /\ u \in Nat /\ u # 0 /\ Good(Val(k), u)
        /\ Shows(Operands[j], w) /\ Shows(Operands[k], u)
    BY OperandsShow
  <1>4. c.w \in Nat /\ c.w # 0 /\ c.w \in Fitting /\ c.signed \in BOOLEAN
    BY CastIs
  <1> HIDE DEF w, u
  <1>5. Sound2(Cast(shr(Val(j), Val(k)), c), c.w, f, Val(j), Val(k))
    <2>1. Cast(shr(Val(j), Val(k)), c) = Casted(shr(Val(j), Val(k)), c.w, c.signed)
      BY DEF Cast, Casted
    <2> QED BY <1>3, <1>4, <2>1, ShiftSignedSound
  <1>6. t \in Functions2(w, u, w) /\ \A x \in Bools(w) : \A y \in Bools(u) : t[x][y] = FShr(<< x, y >>)
    BY <1>3, ShrSound DEF Table2
  <1>7. \A x \in Bools(w) : \A y \in Bools(u) : f[x][y] = CastWord(FShr(<< x, y >>), c.w, c.signed)
    <2>1. f = After2(t, CastTable(w, c.w, c.signed))
      BY DEF RightShift
    <2> HIDE DEF t, f
    <2> QED BY <1>6, <2>1 DEF After2, Functions2, CastTable
  <1> HIDE DEF f, t
  <1>8. nodes(j, k, c) = Shown2(f, Operands[j], Operands[k])
    <2>1. ASSUME NEW s \in Seen(<< Operands[j], Operands[k] >>), NEW e \in Env
          PROVE  CastWord(FShr(WordsAt(s, e)), c.w, c.signed) = f[WordsAt(s, e)[1]][WordsAt(s, e)[2]]
      <3>1. PICK x \in Bools(w), y \in Bools(u) : WordsAt(s, e) = << x, y >>
        BY <1>3, Seen2
      <3> QED BY <1>7, <3>1
    <2> QED BY <2>1 DEF Shown2, Seeing2
  <1> HIDE DEF nodes
  <1> QED BY <1>2, <1>4, <1>5, <1>8, Added2

LEMMA SshrStep ==
  ASSUME Inv, Sshr
  PROVE  Inv'
  <1> DEFINE nodes(j, k, n) ==
               {NodeOf([e \in Env |-> CastWord(FSshr(WordsAt(s, e)), n, TRUE)]) :
                  s \in Seen(<< Operands[j], Operands[k] >>)}
  <1>1. PICK j \in Ids, k \in Ids, n \in Widths : Adds(scast(sshr(Val(j), Val(k)), n), nodes(j, k, n))
    BY DEF Sshr, Cell, ShownBy, Lift, Adds
  <1> DEFINE w == Width(Val(j))
             u == Width(Val(k))
             t == Table2(FSshr, w, u)
             h == CastTable(w, n, TRUE)
             f == After2(t, h)
             v == sshr(Val(j), Val(k))
  <1>2. /\ w \in Nat /\ w # 0 /\ Good(Val(j), w) /\ u \in Nat /\ u # 0 /\ Good(Val(k), u)
        /\ Shows(Operands[j], w) /\ Shows(Operands[k], u) /\ n \in Nat /\ n # 0 /\ n \in Fitting
    BY OperandsShow
  <1> HIDE DEF w, u
  <1>3. Sound2(v, w, t, Val(j), Val(k)) /\ t \in Functions2(w, u, w)
    BY <1>2, SshrSound
  <1>4. \A x \in Bools(w) : \A y \in Bools(u) : t[x][y] = FSshr(<< x, y >>)
    BY DEF Table2
  <1> HIDE DEF t, v
  <1>5. Sound1(scast(v, n), n, h, v)
    <2>1. scast(v, n) = Casted(v, n, TRUE)
      BY DEF Casted
    <2>2. Good(v, w) /\ TRUE \in BOOLEAN
      BY <1>3 DEF Sound2
    <2> QED BY <1>2, <2>1, <2>2, CastSound
  <1>6. \A x \in Bools(w) : \A y \in Bools(u) : f[x][y] = CastWord(FSshr(<< x, y >>), n, TRUE)
    BY <1>3, <1>4 DEF After2, Functions2, CastTable
  <1> HIDE DEF h
  <1>7. Sound2(scast(v, n), n, f, Val(j), Val(k))
    BY <1>2, <1>3, <1>5, ComposeAfter
  <1> HIDE DEF f
  <1>8. nodes(j, k, n) = Shown2(f, Operands[j], Operands[k])
    <2>1. ASSUME NEW s \in Seen(<< Operands[j], Operands[k] >>), NEW e \in Env
          PROVE  CastWord(FSshr(WordsAt(s, e)), n, TRUE) = f[WordsAt(s, e)[1]][WordsAt(s, e)[2]]
      <3>1. PICK x \in Bools(w), y \in Bools(u) : WordsAt(s, e) = << x, y >>
        BY <1>2, Seen2
      <3>2. f[x][y] = CastWord(FSshr(<< x, y >>), n, TRUE)
        BY <1>6
      <3>3. << x, y >>[1] = x /\ << x, y >>[2] = y
        OBVIOUS
      <3> QED BY <3>1, <3>2, <3>3, Zenon
    <2> QED BY <2>1 DEF Shown2, Seeing2
  <1> HIDE DEF nodes
  <1> QED BY <1>1, <1>2, <1>7, <1>8, Added2 DEF v

-----------------------------------------------------------------------------
(* Orders by sign, and shifts of either direction                          *)

\* A supported circuit that orders words by their signs has words of one bit.
LEMMA OrderedNarrow ==
  ASSUME Supported, Inv, NEW kind \in {"lt_ss", "gt_ss", "ge_ss"}, kind \in Cells, NEW k \in Ids
  PROVE  /\ Width(Val(k)) = 1 /\ Good(Val(k), 1) /\ Shows(Operands[k], 1)
         /\ Val(k).data \in Bools(1)
  <1>1. Narrow(circuit)
    BY DEF Supported, Supports, Inv, Cells
  <1>2. /\ Width(Val(k)) \in Fitting /\ Good(Val(k), Width(Val(k)))
        /\ Shows(Operands[k], Width(Val(k)))
    BY OperandsShow
  <1>3. Width(Val(k)) = 1
    BY <1>1, <1>2 DEF Fitting
  <1>4. Good(Val(k), 1) /\ Shows(Operands[k], 1)
    BY <1>2, <1>3, Zenon
  <1> QED BY <1>3, <1>4, ValueParts DEF Good

LEMMA LtSignedStep ==
  ASSUME Supported, Inv, LtSigned
  PROVE  Inv'
  <1> DEFINE cast(j, k) == [w |-> BitsExt(Val(j), Val(k)), signed |-> TRUE]
             nodes(j, k) == {NodeOf([e \in Env |-> FLtSigned(CastWords(WordsAt(s, e), cast(j, k)))]) :
                               s \in Seen(<< Operands[j], Operands[k] >>)}
  <1>1. PICK j \in Ids, k \in Ids : Adds(lt_ss(Val(j), Val(k)), nodes(j, k))
    BY DEF LtSigned, Comparison, Cell, ShownBy, Lift, Adds
  <1>2. "lt_ss" \in Cells
    BY DEF LtSigned, Comparison, Evaluating
  <1>3. Width(Val(j)) = 1 /\ Good(Val(j), 1) /\ Width(Val(k)) = 1 /\ Good(Val(k), 1)
    BY <1>2, OrderedNarrow
  <1> DEFINE c == cast(j, k)
             g == Table2(FLtSigned, 1, 1)
  <1>4. c.w = 1 /\ c.signed = TRUE /\ c \in Resizing
    BY <1>3, WidestCast DEF BitsExt
  <1>5. Sound2(lt_ss(Val(j), Val(k)), 1, Compares(1, 1, 1, TRUE, g), Val(j), Val(k))
    BY <1>3, LtSignedSound
  <1>6. nodes(j, k) = Casts2(g, c, Operands[j], Operands[k])
    <2> HIDE DEF cast
    <2>1. ASSUME NEW s \in Seen(<< Operands[j], Operands[k] >>), NEW e \in Env
          PROVE  FLtSigned(CastWords(WordsAt(s, e), c))
                   = g[CastWord(WordsAt(s, e)[1], c.w, c.signed)][CastWord(WordsAt(s, e)[2], c.w, c.signed)]
      BY <1>4, CastSeen2 DEF Table2
    <2> QED BY <2>1 DEF Casts2, Casting2
  <1> HIDE DEF c, cast, g, nodes
  <1>7. Sound2(lt_ss(Val(j), Val(k)), 1, Compares(Width(Val(j)), Width(Val(k)), c.w, c.signed, g),
               Val(j), Val(k))
    BY <1>3, <1>4, <1>5
  <1> QED BY <1>1, <1>4, <1>6, <1>7, CompareAdded

LEMMA GtSignedStep ==
  ASSUME Supported, Inv, GtSigned
  PROVE  Inv'
  <1> DEFINE cast(j, k) == [w |-> BitsExt(Val(j), Val(k)), signed |-> TRUE]
             nodes(j, k) == {NodeOf([e \in Env |-> FGtSigned(CastWords(WordsAt(s, e), cast(j, k)))]) :
                               s \in Seen(<< Operands[j], Operands[k] >>)}
  <1>1. PICK j \in Ids, k \in Ids : Adds(gt_ss(Val(j), Val(k)), nodes(j, k))
    BY DEF GtSigned, Comparison, Cell, ShownBy, Lift, Adds
  <1>2. "gt_ss" \in Cells
    BY DEF GtSigned, Comparison, Evaluating
  <1>3. Width(Val(j)) = 1 /\ Good(Val(j), 1) /\ Width(Val(k)) = 1 /\ Good(Val(k), 1)
    BY <1>2, OrderedNarrow
  <1> DEFINE c == cast(j, k)
             g == Table2(FGtSigned, 1, 1)
  <1>4. c.w = 1 /\ c.signed = TRUE /\ c \in Resizing
    BY <1>3, WidestCast DEF BitsExt
  <1>5. Sound2(gt_ss(Val(j), Val(k)), 1, Compares(1, 1, 1, TRUE, g), Val(j), Val(k))
    BY <1>3, GtSignedSound
  <1>6. nodes(j, k) = Casts2(g, c, Operands[j], Operands[k])
    <2> HIDE DEF cast
    <2>1. ASSUME NEW s \in Seen(<< Operands[j], Operands[k] >>), NEW e \in Env
          PROVE  FGtSigned(CastWords(WordsAt(s, e), c))
                   = g[CastWord(WordsAt(s, e)[1], c.w, c.signed)][CastWord(WordsAt(s, e)[2], c.w, c.signed)]
      BY <1>4, CastSeen2 DEF Table2
    <2> QED BY <2>1 DEF Casts2, Casting2
  <1> HIDE DEF c, cast, g, nodes
  <1>7. Sound2(gt_ss(Val(j), Val(k)), 1, Compares(Width(Val(j)), Width(Val(k)), c.w, c.signed, g),
               Val(j), Val(k))
    BY <1>3, <1>4, <1>5
  <1> QED BY <1>1, <1>4, <1>6, <1>7, CompareAdded

LEMMA GeSignedStep ==
  ASSUME Supported, Inv, GeSigned
  PROVE  Inv'
  <1> DEFINE cast(j, k) == [w |-> BitsExt(Val(j), Val(k)), signed |-> TRUE]
             nodes(j, k) == {NodeOf([e \in Env |-> FGeSigned(CastWords(WordsAt(s, e), cast(j, k)))]) :
                               s \in Seen(<< Operands[j], Operands[k] >>)}
  <1>1. PICK j \in Ids, k \in Ids : Adds(ge_ss(Val(j), Val(k)), nodes(j, k))
    BY DEF GeSigned, Comparison, Cell, ShownBy, Lift, Adds
  <1>2. "ge_ss" \in Cells
    BY DEF GeSigned, Comparison, Evaluating
  <1>3. /\ Width(Val(j)) = 1 /\ Good(Val(j), 1) /\ Shows(Operands[j], 1)
        /\ Width(Val(k)) = 1 /\ Good(Val(k), 1) /\ Shows(Operands[k], 1)
    BY <1>2, OrderedNarrow
  <1> DEFINE c == cast(j, k)
             t == Table2(FLtSigned, 1, 1)
             g == Compares(1, 1, 1, TRUE, t)
             f == After2(g, Table1(FNot, 1))
  <1>4. c.w = 1 /\ c.signed = TRUE /\ c \in Resizing
    BY <1>3, WidestCast DEF BitsExt
  <1>5. g \in Functions2(1, 1, 1) /\ Sound2(ge_ss(Val(j), Val(k)), 1, f, Val(j), Val(k))
    BY <1>3, GeSignedSound
  <1>6. \A x \in Bools(1) : CastWord(x, 1, TRUE) \in Bools(1)
    BY <1>3, <1>4, CastIs
  <1>7. \A x, y \in Bools(1) : g[x][y] = FLtSigned(<< CastWord(x, 1, TRUE), CastWord(y, 1, TRUE) >>)
    BY <1>6 DEF Compares, Comp2, CastTable, Table2
  <1> HIDE DEF g, t
  <1>8. \A x, y \in Bools(1) : f[x][y] = FGeSigned(<< CastWord(x, 1, TRUE), CastWord(y, 1, TRUE) >>)
    BY <1>5, <1>7 DEF After2, Functions2, Table1, FGeSigned
  <1> HIDE DEF f
  <1>9. nodes(j, k) = Shown2(f, Operands[j], Operands[k])
    <2> HIDE DEF cast
    <2>1. ASSUME NEW s \in Seen(<< Operands[j], Operands[k] >>), NEW e \in Env
          PROVE  FGeSigned(CastWords(WordsAt(s, e), c)) = f[WordsAt(s, e)[1]][WordsAt(s, e)[2]]
      <3>1. PICK x \in Bools(1), y \in Bools(1) : WordsAt(s, e) = << x, y >>
        BY <1>3, Seen2
      <3>2. CastWords(<< x, y >>, c) = << CastWord(x, 1, TRUE), CastWord(y, 1, TRUE) >>
        <4>1. CastWords(<< x, y >>, c) = << CastWord(x, c.w, c.signed), CastWord(y, c.w, c.signed) >>
          BY CastPair
        <4> QED BY <1>4, <4>1
      <3>3. f[x][y] = FGeSigned(<< CastWord(x, 1, TRUE), CastWord(y, 1, TRUE) >>)
        BY <1>8
      <3>4. << x, y >>[1] = x /\ << x, y >>[2] = y
        OBVIOUS
      <3> QED BY <3>1, <3>2, <3>3, <3>4, Zenon
    <2> QED BY <2>1 DEF Shown2, Seeing2
  <1> HIDE DEF nodes
  <1>10. 1 \in Fitting
    BY WidthsFit
  <1> QED BY <1>1, <1>5, <1>9, <1>10, Added2

LEMMA ShiftSignedStep ==
  ASSUME Supported, Inv, ShiftSigned
  PROVE  Inv'
  <1> DEFINE minusWord(word) == FNeg(<< CastWord(word, Len(word) + 1, TRUE) >>)
             F(ws, c) == IF ws[2][Len(ws[2])]
                         THEN FShl(<< CastWord(ws[1], c.w, c.signed), minusWord(ws[2]) >>)
                         ELSE CastWord(FShr(ws), c.w, c.signed)
             nodes(j, k, c) == {NodeOf([e \in Env |-> F(WordsAt(s, e), c)]) :
                                  s \in Seen(<< Operands[j], Operands[k] >>)}
             left(j, k, c) == shl(Cast(Val(j), c), neg(sext(Val(k), Width(Val(k)) + 1)))
             right(j, k, c) == Cast(shr(Val(j), Val(k)), c)
  <1>1. \E j, k \in Ids : \E c \in Casts({j}) :
          /\ IsConst(Val(k).node)
          /\ AnySelector \/ is_fully_stable(Val(k))
          /\ Adds(IF Val(k).data[Width(Val(k))] THEN left(j, k, c) ELSE right(j, k, c), nodes(j, k, c))
    BY DEF ShiftSigned, Cell, ShownBy, Lift, Adds
  <1>2. PICK j \in Ids, k \in Ids, c \in Resizing :
          /\ IsConst(Val(k).node)
          /\ AnySelector \/ is_fully_stable(Val(k))
          /\ Adds(IF Val(k).data[Width(Val(k))] THEN left(j, k, c) ELSE right(j, k, c), nodes(j, k, c))
    BY <1>1, CastParts
  <1>3. is_fully_stable(Val(k))
    BY <1>2 DEF Supported, Supports, Inv, AnySelector
  <1> DEFINE w == Width(Val(j))
             u == Width(Val(k))
             V == IF Val(k).data[u] THEN left(j, k, c) ELSE right(j, k, c)
             f == [x \in Bools(w) |-> [y \in Bools(u) |-> F(<< x, y >>, c)]]
             l == LeftShift(w, u, c.w, c.signed)
             r == RightShift(w, u, c.w, c.signed)
  <1>4. /\ w \in Nat /\ w # 0 /\ Good(Val(j), w) /\ u \in Nat /\ u # 0 /\ Good(Val(k), u)
        /\ Shows(Operands[j], w) /\ Shows(Operands[k], u)
    BY OperandsShow
  <1>5. /\ c.w \in Nat /\ c.w # 0 /\ c.w \in Fitting /\ c.signed \in BOOLEAN
        /\ \A x \in Bools(w) : CastWord(x, c.w, c.signed) \in Bools(c.w)
    BY CastIs
  <1>6. Val(k).data \in Bools(u) /\ Len(Val(k).data) = u
    BY <1>4, ValueParts DEF Good
  <1>7. left(j, k, c) = shl(Casted(Val(j), c.w, c.signed), neg(sext(Val(k), u + 1)))
    BY DEF Cast, Casted
  <1>8. right(j, k, c) = Casted(shr(Val(j), Val(k)), c.w, c.signed)
    BY DEF Cast, Casted
  <1> HIDE DEF w, u, left, right
  <1>9. /\ Sound2(left(j, k, c), c.w, l, Val(j), Val(k))
        /\ Sound2(right(j, k, c), c.w, r, Val(j), Val(k))
    BY <1>4, <1>5, <1>7, <1>8, ShiftSignedSound
  <1>10. ASSUME NEW x \in Bools(w), NEW y \in Bools(u)
         PROVE  /\ Len(y) = u
                /\ l[x][y] = FShl(<< CastWord(x, c.w, c.signed), minusWord(y) >>)
                /\ r[x][y] = CastWord(FShr(<< x, y >>), c.w, c.signed)
    <2>1. Len(y) = u
      BY <1>4, Sequences1 DEF Bools
    <2>2. Opposite(u)[y] = minusWord(y) /\ Opposite(u)[y] \in Bools(u + 1) /\ y \in DOMAIN Opposite(u)
      <3> DEFINE h == CastTable(u, u + 1, TRUE)
                 t == Table1(FNeg, u + 1)
      <3>1. h \in Functions1(u, u + 1) /\ h[y] = CastWord(y, u + 1, TRUE)
        <4>1. u + 1 \in Nat /\ TRUE \in BOOLEAN
          BY <1>4
        <4> QED BY <1>4, <4>1, CastTableType DEF CastTable
      <3>2. t \in Functions1(u + 1, u + 1)
        <4>1. u + 1 \in Nat /\ Good(sext(Val(k), u + 1), u + 1)
          <5>1. u + 1 \in Nat /\ u <= u + 1
            BY <1>4
          <5>2. Good(sext(Val(k), u + 1), u + 1)
            BY <1>4, <5>1, SextSound DEF Sound1
          <5> QED BY <5>1, <5>2
        <4> QED BY <4>1, NegSound
      <3>3. t[h[y]] = FNeg(<< h[y] >>) /\ t[h[y]] \in Bools(u + 1) /\ y \in DOMAIN h
        BY <3>1, <3>2 DEF Table1, Functions1
      <3> HIDE DEF h, t
      <3>4. Comp1(h, t)[y] = t[h[y]] /\ y \in DOMAIN Comp1(h, t)
        BY <3>3 DEF Comp1
      <3> QED BY <2>1, <3>1, <3>3, <3>4 DEF Opposite, h, t
    <2>3. l[x][y] = Table2(FShl, c.w, u + 1)[CastWord(x, c.w, c.signed)][Opposite(u)[y]]
      BY <2>2 DEF LeftShift, Comp2, CastTable
    <2>4. l[x][y] = FShl(<< CastWord(x, c.w, c.signed), Opposite(u)[y] >>)
      BY <1>5, <2>2, <2>3 DEF Table2
    <2>5. r[x][y] = CastWord(FShr(<< x, y >>), c.w, c.signed)
      <3> DEFINE t == Table2(FShr, w, u)
      <3>1. t \in Functions2(w, u, w) /\ t[x][y] = FShr(<< x, y >>)
        BY <1>4, ShrSound DEF Table2
      <3>2. r = After2(t, CastTable(w, c.w, c.signed))
        BY DEF RightShift
      <3> HIDE DEF r, t
      <3> QED BY <3>1, <3>2 DEF After2, Functions2, CastTable
    <2> QED BY <2>1, <2>2, <2>4, <2>5
  <1>11. ASSUME NEW x \in Bools(w), NEW y \in Bools(u)
         PROVE  f[x][y] = IF y[u] THEN l[x][y] ELSE r[x][y]
    <2>1. f[x][y] = F(<< x, y >>, c)
      BY DEF f
    <2>2. F(<< x, y >>, c) = IF y[Len(y)] THEN FShl(<< CastWord(x, c.w, c.signed), minusWord(y) >>)
                             ELSE CastWord(FShr(<< x, y >>), c.w, c.signed)
      BY DEF F
    <2> QED BY <1>10, <2>1, <2>2
  <1> HIDE DEF l, r, f, F
  <1>12. Sound2(V, c.w, f, Val(j), Val(k))
    <2>1. CASE Val(k).data[u]
      <3>1. \A x \in Bools(w) : f[x][Val(k).data] = l[x][Val(k).data]
        BY <1>6, <1>11, <2>1
      <3> QED BY <1>2, <1>3, <1>4, <1>9, <2>1, <3>1, FixedOperand
    <2>2. CASE ~Val(k).data[u]
      <3>1. \A x \in Bools(w) : f[x][Val(k).data] = r[x][Val(k).data]
        BY <1>6, <1>11, <2>2
      <3> QED BY <1>2, <1>3, <1>4, <1>9, <2>2, <3>1, FixedOperand
    <2> QED BY <2>1, <2>2
  <1>13. Adds(V, nodes(j, k, c))
    BY <1>2 DEF u
  <1>14. nodes(j, k, c) = Shown2(f, Operands[j], Operands[k])
    <2>1. ASSUME NEW s \in Seen(<< Operands[j], Operands[k] >>), NEW e \in Env
          PROVE  F(WordsAt(s, e), c) = f[WordsAt(s, e)[1]][WordsAt(s, e)[2]]
      <3>1. PICK x \in Bools(w), y \in Bools(u) : WordsAt(s, e) = << x, y >>
        BY <1>4, Seen2
      <3>2. f[x][y] = F(<< x, y >>, c)
        BY DEF f
      <3> QED BY <3>1, <3>2
    <2> QED BY <2>1 DEF Shown2, Seeing2
  <1> HIDE DEF V, nodes
  <1> QED BY <1>5, <1>12, <1>13, <1>14, Added2

-----------------------------------------------------------------------------
(* Wiring cells and the mux                                                *)

\* One bit joined to another
LEMMA Joined ==
  ASSUME NEW x \in Bools(1), NEW y \in Bools(1)
  PROVE  x \o y = [i \in 1 .. 2 |-> IF i = 1 THEN x[1] ELSE y[1]]
  <1>1. x \in Seq(BOOLEAN) /\ Len(x) = 1 /\ y \in Seq(BOOLEAN) /\ Len(y) = 1
    BY Sequences1 DEF Bools
  <1> DEFINE z == x \o y
             r == [i \in 1 .. 2 |-> IF i = 1 THEN x[1] ELSE y[1]]
  <1>2. /\ z \in Seq(BOOLEAN) /\ Len(z) = Len(x) + Len(y)
        /\ \A i \in 1 .. Len(x) + Len(y) : z[i] = IF i <= Len(x) THEN x[i] ELSE y[i - Len(x)]
    BY <1>1, ConcatProperties
  <1> HIDE DEF z
  <1>3. Len(z) = 2 /\ z[1] = x[1] /\ z[2] = y[1]
    BY <1>1, <1>2
  <1>4. z \in [1 .. 2 -> BOOLEAN]
    <2>1. z \in [1 .. Len(z) -> BOOLEAN]
      BY <1>2, LenProperties
    <2> QED BY <1>3, <2>1, Zenon
  <1>5. r \in [1 .. 2 -> BOOLEAN] /\ r[1] = x[1] /\ r[2] = y[1]
    BY DEF Bools
  <1> HIDE DEF r
  <1>6. \A i \in 1 .. 2 : z[i] = r[i]
    BY <1>3, <1>5
  <1>7. z = r
    BY <1>4, <1>5, <1>6
  <1> QED BY <1>7 DEF z, r

LEMMA SliceStep ==
  ASSUME Inv, Slice
  PROVE  Inv'
  <1> DEFINE nodes(j, begin, end) == {NodeOf([e \in Env |-> SubSeq(WordsAt(s, e)[1], begin, end)]) :
                                        s \in Seen(<< Operands[j] >>)}
  <1>1. \E j \in Ids : \E begin, end \in DOMAIN Val(j).data :
          begin <= end /\ Adds(slice(Val(j), begin, end), nodes(j, begin, end))
    BY DEF Slice, Cell, ShownBy, Lift, Adds
  <1>2. PICK j \in Ids : \E begin, end \in DOMAIN Val(j).data :
          begin <= end /\ Adds(slice(Val(j), begin, end), nodes(j, begin, end))
    BY <1>1
  <1> DEFINE w == Width(Val(j))
  <1>3. w \in Nat /\ Good(Val(j), w) /\ Shows(Operands[j], w) /\ DOMAIN Val(j).data = 1 .. w
    BY OperandsShow, ValueParts DEF Good
  <1>4. PICK begin \in 1 .. w, end \in 1 .. w :
          begin <= end /\ Adds(slice(Val(j), begin, end), nodes(j, begin, end))
    BY <1>2, <1>3
  <1> DEFINE n == end - begin + 1
             f == Slices(w, begin, end)
  <1>5. n \in Nat /\ n # 0 /\ end \in begin .. w
    <2>1. begin <= end
      BY <1>4
    <2>2. w \in Nat
      BY <1>3
    <2> HIDE DEF w
    <2> QED BY <2>1, <2>2
  <1>6. Sound1(slice(Val(j), begin, end), n, f, Val(j))
    <2> HIDE DEF w
    <2> QED BY <1>3, <1>5, SliceSound
  <1>8. n \in Fitting
    <2>1. w \in Fitting
      BY OperandsShow
    <2>2. CASE Narrow(circuit)
      <3>1. w = 1
        BY <2>1, <2>2 DEF Fitting
      <3> HIDE DEF w
      <3>2. n = 1
        BY <3>1
      <3> HIDE DEF n
      <3> QED BY <2>2, <3>2 DEF Fitting
    <2>3. CASE ~Narrow(circuit)
      <3> HIDE DEF n
      <3> QED BY <1>5, <2>3 DEF Fitting
    <2> QED BY <2>2, <2>3
  <1> HIDE DEF w
  <1>7. nodes(j, begin, end) = Shown1(f, Operands[j])
    <2>1. ASSUME NEW s \in Seen(<< Operands[j] >>), NEW e \in Env
          PROVE  SubSeq(WordsAt(s, e)[1], begin, end) = f[WordsAt(s, e)[1]]
      <3>1. PICK x \in Bools(w) : WordsAt(s, e) = << x >>
        BY <1>3, Seen1
      <3> QED BY <3>1 DEF Slices
    <2> HIDE DEF f
    <2> QED BY <2>1 DEF Shown1, Seeing1
  <1> HIDE DEF f, n, nodes
  <1> QED BY <1>4, <1>6, <1>7, <1>8, Added1

LEMMA SextStep ==
  ASSUME Inv, Sext
  PROVE  Inv'
  <1> DEFINE nodes(j) == {NodeOf([e \in Env |-> CastWord(WordsAt(s, e)[1], 2, TRUE)]) :
                            s \in Seen(<< Operands[j] >>)}
  <1>0. 2 \in Fitting
    <2>1. "sext" \in Cells
      BY DEF Sext, Evaluating
    <2> QED BY <2>1, JoinFits
  <1>1. PICK j \in Ids : Width(Val(j)) = 1 /\ Adds(sext(Val(j), 2), nodes(j))
    BY DEF Sext, Cell, ShownBy, Lift, Adds
  <1> DEFINE f == CastTable(1, 2, TRUE)
  <1>2. /\ Good(Val(j), 1) /\ Shows(Operands[j], 1)
        /\ 1 \in Nat /\ 1 # 0 /\ 2 \in Nat /\ 2 # 0 /\ 1 <= 2
    <2>1. Good(Val(j), Width(Val(j))) /\ Shows(Operands[j], Width(Val(j)))
      BY OperandsShow
    <2>2. Good(Val(j), 1) /\ Shows(Operands[j], 1)
      BY <1>1, <2>1, Zenon
    <2> QED BY <2>2
  <1>3. Sound1(sext(Val(j), 2), 2, f, Val(j))
    BY <1>2, SextSound
  <1>4. nodes(j) = Shown1(f, Operands[j])
    <2>1. ASSUME NEW s \in Seen(<< Operands[j] >>), NEW e \in Env
          PROVE  CastWord(WordsAt(s, e)[1], 2, TRUE) = f[WordsAt(s, e)[1]]
      <3>1. PICK x \in Bools(1) : WordsAt(s, e) = << x >>
        BY <1>2, Seen1
      <3> QED BY <3>1 DEF CastTable
    <2> HIDE DEF f
    <2> QED BY <2>1 DEF Shown1, Seeing1
  <1> HIDE DEF f, nodes
  <1> QED BY <1>0, <1>1, <1>2, <1>3, <1>4, Added1

LEMMA ZextStep ==
  ASSUME Inv, Zext
  PROVE  Inv'
  <1> DEFINE nodes(j) == {NodeOf([e \in Env |-> CastWord(WordsAt(s, e)[1], 2, FALSE)]) :
                            s \in Seen(<< Operands[j] >>)}
  <1>0. 2 \in Fitting
    <2>1. "zext" \in Cells
      BY DEF Zext, Evaluating
    <2> QED BY <2>1, JoinFits
  <1>1. PICK j \in Ids : Width(Val(j)) = 1 /\ Adds(zext(Val(j), 2), nodes(j))
    BY DEF Zext, Cell, ShownBy, Lift, Adds
  <1> DEFINE f == CastTable(1, 2, FALSE)
  <1>2. /\ Good(Val(j), 1) /\ Shows(Operands[j], 1)
        /\ 1 \in Nat /\ 1 # 0 /\ 2 \in Nat /\ 2 # 0 /\ 1 <= 2
    <2>1. Good(Val(j), Width(Val(j))) /\ Shows(Operands[j], Width(Val(j)))
      BY OperandsShow
    <2>2. Good(Val(j), 1) /\ Shows(Operands[j], 1)
      BY <1>1, <2>1, Zenon
    <2> QED BY <2>2
  <1>3. Sound1(zext(Val(j), 2), 2, f, Val(j))
    BY <1>2, ZextSound
  <1>4. nodes(j) = Shown1(f, Operands[j])
    <2>1. ASSUME NEW s \in Seen(<< Operands[j] >>), NEW e \in Env
          PROVE  CastWord(WordsAt(s, e)[1], 2, FALSE) = f[WordsAt(s, e)[1]]
      <3>1. PICK x \in Bools(1) : WordsAt(s, e) = << x >>
        BY <1>2, Seen1
      <3> QED BY <3>1 DEF CastTable
    <2> HIDE DEF f
    <2> QED BY <2>1 DEF Shown1, Seeing1
  <1> HIDE DEF f, nodes
  <1> QED BY <1>0, <1>1, <1>2, <1>3, <1>4, Added1

LEMMA RepeatStep ==
  ASSUME Inv, Repeat
  PROVE  Inv'
  <1> DEFINE nodes(j) == {NodeOf([e \in Env |-> WordsAt(s, e)[1] \o WordsAt(s, e)[1]]) :
                            s \in Seen(<< Operands[j] >>)}
  <1>0. 2 \in Fitting
    <2>1. "repeat" \in Cells
      BY DEF Repeat, Evaluating
    <2> QED BY <2>1, JoinFits
  <1>1. PICK j \in Ids : Width(Val(j)) = 1 /\ Adds(repeat(Val(j), 2), nodes(j))
    BY DEF Repeat, Cell, ShownBy, Lift, Adds
  <1> DEFINE f == [x \in Bools(1) |-> [i \in 1 .. 2 |-> x[1]]]
  <1>2. Good(Val(j), 1) /\ Shows(Operands[j], 1) /\ 2 \in Nat /\ 2 # 0
    <2>1. Good(Val(j), Width(Val(j))) /\ Shows(Operands[j], Width(Val(j)))
      BY OperandsShow
    <2>2. Good(Val(j), 1) /\ Shows(Operands[j], 1)
      BY <1>1, <2>1, Zenon
    <2> QED BY <2>2
  <1>3. Sound1(repeat(Val(j), 2), 2, f, Val(j))
    BY <1>2, RepeatSound
  <1>4. \A x \in Bools(1) : x \o x = f[x]
    <2> SUFFICES ASSUME NEW x \in Bools(1) PROVE x \o x = [i \in 1 .. 2 |-> x[1]]
      OBVIOUS
    <2>1. [i \in 1 .. 2 |-> IF i = 1 THEN x[1] ELSE x[1]] = [i \in 1 .. 2 |-> x[1]]
      OBVIOUS
    <2>2. x \o x = [i \in 1 .. 2 |-> IF i = 1 THEN x[1] ELSE x[1]]
      BY Joined
    <2> QED BY <2>1, <2>2, Zenon
  <1>5. nodes(j) = Shown1(f, Operands[j])
    <2> HIDE DEF f
    <2>1. ASSUME NEW s \in Seen(<< Operands[j] >>), NEW e \in Env
          PROVE  WordsAt(s, e)[1] \o WordsAt(s, e)[1] = f[WordsAt(s, e)[1]]
      <3>1. PICK x \in Bools(1) : WordsAt(s, e) = << x >>
        BY <1>2, Seen1
      <3>2. WordsAt(s, e)[1] = x
        BY <3>1
      <3> QED BY <1>4, <3>2, Zenon
    <2> QED BY <2>1 DEF Shown1, Seeing1
  <1> HIDE DEF f, nodes
  <1> QED BY <1>0, <1>1, <1>2, <1>3, <1>5, Added1

LEMMA ConcatStep ==
  ASSUME Inv, Concat
  PROVE  Inv'
  <1> DEFINE nodes(j, k) == {NodeOf([e \in Env |-> WordsAt(s, e)[2] \o WordsAt(s, e)[1]]) :
                               s \in Seen(<< Operands[j], Operands[k] >>)}
  <1>0. 2 \in Fitting
    <2>1. "concat" \in Cells
      BY DEF Concat, Evaluating
    <2> QED BY <2>1, JoinFits
  <1>1. PICK j \in Ids, k \in Ids : /\ Width(Val(j)) = 1 /\ Width(Val(k)) = 1
                                   /\ Adds(concat(Val(j), Val(k)), nodes(j, k))
    BY DEF Concat, Cell, ShownBy, Lift, Adds
  <1>2. /\ Good(Val(j), 1) /\ Shows(Operands[j], 1) /\ Good(Val(k), 1) /\ Shows(Operands[k], 1)
        /\ 2 \in Nat /\ 2 # 0
    <2>1. /\ Good(Val(j), Width(Val(j))) /\ Shows(Operands[j], Width(Val(j)))
          /\ Good(Val(k), Width(Val(k))) /\ Shows(Operands[k], Width(Val(k)))
      BY OperandsShow
    <2>2. Good(Val(j), 1) /\ Shows(Operands[j], 1) /\ Good(Val(k), 1) /\ Shows(Operands[k], 1)
      BY <1>1, <2>1, Zenon
    <2> QED BY <2>2
  <1>3. Sound2(concat(Val(j), Val(k)), 2, Joins, Val(j), Val(k))
    BY <1>2, ConcatSound
  <1>4. \A x, y \in Bools(1) : y \o x = Joins[x][y]
    <2> SUFFICES ASSUME NEW x \in Bools(1), NEW y \in Bools(1)
                 PROVE  y \o x = [i \in 1 .. 2 |-> IF i = 1 THEN y[1] ELSE x[1]]
      BY DEF Joins
    <2> QED BY Joined
  <1>5. nodes(j, k) = Shown2(Joins, Operands[j], Operands[k])
    <2>1. ASSUME NEW s \in Seen(<< Operands[j], Operands[k] >>), NEW e \in Env
          PROVE  WordsAt(s, e)[2] \o WordsAt(s, e)[1] = Joins[WordsAt(s, e)[1]][WordsAt(s, e)[2]]
      <3>1. PICK x \in Bools(1), y \in Bools(1) : WordsAt(s, e) = << x, y >>
        BY <1>2, Seen2
      <3>2. WordsAt(s, e)[1] = x /\ WordsAt(s, e)[2] = y
        BY <3>1
      <3> QED BY <1>4, <3>2, Zenon
    <2> QED BY <2>1 DEF Shown2, Seeing2
  <1> HIDE DEF nodes
  <1> QED BY <1>0, <1>1, <1>2, <1>3, <1>5, Added2

LEMMA BlitStep ==
  ASSUME Inv, Blit
  PROVE  Inv'
  <1> DEFINE put(x, y, at) == [x EXCEPT ![at] = y[1]]
             nodes(j, k, at) == {NodeOf([e \in Env |-> put(WordsAt(s, e)[1], WordsAt(s, e)[2], at)]) :
                                   s \in Seen(<< Operands[j], Operands[k] >>)}
  <1>1. PICK j \in Ids, k \in Ids : \E at \in DOMAIN Val(j).data :
          Width(Val(k)) = 1 /\ Adds(blit_value(Val(j), Val(k), at, at), nodes(j, k, at))
    BY DEF Blit, Cell, ShownBy, Lift, Adds
  <1> DEFINE w == Width(Val(j))
  <1>2. /\ w \in Nat /\ w # 0 /\ w \in Fitting /\ Good(Val(j), w) /\ Shows(Operands[j], w)
        /\ DOMAIN Val(j).data = 1 .. w
    BY OperandsShow, ValueParts DEF Good
  <1>3. PICK at \in 1 .. w : Width(Val(k)) = 1 /\ Adds(blit_value(Val(j), Val(k), at, at), nodes(j, k, at))
    BY <1>1, <1>2
  <1>4. Good(Val(k), 1) /\ Shows(Operands[k], 1)
    <2>1. Good(Val(k), Width(Val(k))) /\ Shows(Operands[k], Width(Val(k)))
      BY OperandsShow
    <2> QED BY <1>3, <2>1, Zenon
  <1> DEFINE f == Blits(w, at)
  <1> HIDE DEF w
  <1>5. Sound2(blit_value(Val(j), Val(k), at, at), w, f, Val(j), Val(k))
    BY <1>2, <1>4, BlitSound
  <1>6. \A x \in Bools(w) : \A y \in Bools(1) : f[x][y] = put(x, y, at)
    BY DEF Blits
  <1> HIDE DEF f, put
  <1>7. nodes(j, k, at) = Shown2(f, Operands[j], Operands[k])
    <2>1. ASSUME NEW s \in Seen(<< Operands[j], Operands[k] >>), NEW e \in Env
          PROVE  put(WordsAt(s, e)[1], WordsAt(s, e)[2], at) = f[WordsAt(s, e)[1]][WordsAt(s, e)[2]]
      <3>1. PICK x \in Bools(w), y \in Bools(1) : WordsAt(s, e) = << x, y >>
        BY <1>2, <1>4, Seen2
      <3>2. WordsAt(s, e)[1] = x /\ WordsAt(s, e)[2] = y
        BY <3>1
      <3>3. f[x][y] = put(x, y, at)
        BY <1>6
      <3> QED BY <3>2, <3>3, Zenon
    <2> QED BY <2>1 DEF Shown2, Seeing2
  <1> HIDE DEF nodes
  <1> QED BY <1>2, <1>3, <1>5, <1>7, Added2

LEMMA MuxStep ==
  ASSUME Supported, Inv, Mux
  PROVE  Inv'
  <1> DEFINE nodes(i, j, k) == {NodeOf([e \in Env |-> FMux(WordsAt(s, e))]) :
                                  s \in Seen(<< Operands[i], Operands[j], Operands[k] >>)}
  <1>1. PICK i \in Ids, j \in Ids, k \in Ids :
          /\ Width(Val(i)) = 1 /\ SameWidth(j, k)
          /\ AnySelector \/ (IsConst(Val(i).node) /\ Val(i).ls = NULL)
          /\ Adds(symb_mux(Val(i), Val(j), Val(k)), nodes(i, j, k))
    BY DEF Mux, Cell, ShownBy, Lift, Adds
  <1>2. IsConst(Val(i).node) /\ Val(i).ls = NULL
    BY <1>1 DEF Supported, Supports, Inv, AnySelector
  <1> DEFINE n == Width(Val(j))
             f == Chooses(n)
             V == symb_mux(Val(i), Val(j), Val(k))
  <1>3. /\ n \in Nat /\ n # 0 /\ n \in Fitting /\ Good(Val(i), 1) /\ Good(Val(j), n) /\ Good(Val(k), n)
        /\ Shows(Operands[i], 1) /\ Shows(Operands[j], n) /\ Shows(Operands[k], n)
        /\ Operands[i].val = Val(i) /\ Operands[j].val = Val(j) /\ Operands[k].val = Val(k)
    BY <1>1, OperandsShow DEF SameWidth
  <1> HIDE DEF n
  <1>4. Sound3(V, n, f, Val(i), Val(j), Val(k))
    BY <1>2, <1>3, MuxSound
  <1>5. \A x \in Bools(1) : \A y, z \in Bools(n) : f[x][y][z] = FMux(<< x, y, z >>)
    BY DEF Chooses, FMux
  <1> HIDE DEF f, V
  <1>6. nodes(i, j, k) = Shown3(f, Operands[i], Operands[j], Operands[k])
    <2>1. ASSUME NEW s \in Seen(<< Operands[i], Operands[j], Operands[k] >>), NEW e \in Env
          PROVE  FMux(WordsAt(s, e)) = f[WordsAt(s, e)[1]][WordsAt(s, e)[2]][WordsAt(s, e)[3]]
      <3>1. PICK x \in Bools(1), y \in Bools(n), z \in Bools(n) : WordsAt(s, e) = << x, y, z >>
        BY <1>3, Seen3
      <3> QED BY <1>5, <3>1
    <2> QED BY <2>1 DEF Shown3, Seeing3
  <1>7. Shows([val |-> V, shown |-> ShownOf(nodes(i, j, k))], n)
    BY <1>3, <1>4, <1>6, Cell3
  <1>8. Adds(V, nodes(i, j, k))
    BY <1>1 DEF V
  <1> HIDE DEF nodes
  <1> QED BY <1>3, <1>7, <1>8, Added

-----------------------------------------------------------------------------
(* Registers                                                               *)

LEMMA StabilizeAt ==
  ASSUME NEW w \in Nat, NEW node \in Nodes(w)
  PROVE  /\ reg_stabilize(node) \in LeakSets(w)
         /\ \A i \in 1 .. w : At(reg_stabilize(node), i) = Own(node[i])
  <1> DEFINE own == [i \in 1 .. w |-> Own(node[i])]
  <1>1. DOMAIN node = 1 .. w
    BY DEF Nodes
  <1>2. CASE IsConst(node)
    <2>1. \A i \in 1 .. w : Own(node[i]) = {}
      BY <1>1, <1>2 DEF IsConst, Own
    <2> QED BY <1>2, <2>1 DEF reg_stabilize, LeakSets, At
  <1>3. CASE ~IsConst(node)
    <2>1. own \in Leaks(w)
      BY OwnIs DEF Leaks, Nodes
    <2>2. own # NULL
      BY <2>1, LeaksReal
    <2>3. reg_stabilize(node) = own
      BY <1>1, <1>3 DEF reg_stabilize
    <2> QED BY <2>1, <2>2, <2>3 DEF LeakSets, At
  <1> QED BY <1>2, <1>3

\* A value whose leaks are its own expressions is sound.
LEMMA OwnGood ==
  ASSUME NEW w \in Nat, NEW v \in Values(w), Agrees(v),
         \A i \in 1 .. w : At(v.ls, i) = Own(v.node[i])
  PROVE  Good(v, w)
  <1>1. DOMAIN v.node = 1 .. w /\ \A i \in 1 .. w : v.node[i] \in SUBSET Env
    BY ValueParts DEF Nodes
  <1>2. Pure(v)
    BY <1>1 DEF Pure
  <1>3. Told(v)
    BY <1>1, OwnIs DEF Told
  <1> QED BY <1>2, <1>3 DEF Good

Zeroes(w) ==
  [data |-> AllBits(w, FALSE), node |-> AllBits(w, {}), stab |-> AllBits(w, TRUE), ls |-> NULL]

LEMMA ZeroIs == ASSUME NEW w \in Nat PROVE constant(AllBits(w, FALSE)) = Zeroes(w)
  <1>1. DOMAIN AllBits(w, FALSE) = 1 .. w /\ Len(AllBits(w, FALSE)) = w
    BY DEF AllBits
  <1>2. [i \in 1 .. w |-> BitConst(AllBits(w, FALSE)[i])] = AllBits(w, {})
    BY DEF AllBits, BitConst
  <1> QED BY <1>1, <1>2 DEF constant, Zeroes

LEMMA ZeroGood == ASSUME NEW w \in Nat PROVE Good(Zeroes(w), w)
  <1> DEFINE v == Zeroes(w)
  <1>1. /\ \A i \in 1 .. w : v.data[i] = FALSE /\ v.node[i] = {} /\ v.ls = NULL
        /\ DOMAIN v.node = 1 .. w
    BY DEF Zeroes, AllBits
  <1>2. v \in Values(w)
    BY DEF Zeroes, Values, Bools, Nodes, LeakSets, AllBits
  <1> HIDE DEF v
  <1>3. Agrees(v)
    <2>1. \A i \in 1 .. w : v.data[i] \in BOOLEAN /\ ~v.data[i] /\ Env0 \notin v.node[i]
      BY <1>1
    <2> QED BY <1>1, <2>1 DEF Agrees
  <1>4. \A i \in 1 .. w : At(v.ls, i) = Own(v.node[i])
    BY <1>1 DEF At, Own, IsConstBit
  <1>5. Good(v, w)
    BY <1>2, <1>3, <1>4, OwnGood
  <1> QED BY <1>5 DEF v

LEMMA InputGood ==
  ASSUME circuit \in Circuits, NEW w \in Nat, NEW v \in Inputs(w)
  PROVE  Good(v, w)
  <1>1. PICK node \in [1 .. w -> InputBits] :
          v = setNode(set(blank(w), [i \in 1 .. w |-> Env0 \in node[i]]), node)
    BY DEF Inputs
  <1> DEFINE data == [i \in 1 .. w |-> Env0 \in node[i]]
             stab == AllBits(w, FALSE)
             b == blank(w)
  <1>2. node \in Nodes(w)
    <2>1. InputBits \subseteq SUBSET Env
      BY CircuitsAssumption DEF InputBits
    <2> QED BY <2>1 DEF Nodes
  <1>3. b = [data |-> AllBits(w, FALSE), node |-> AllBits(w, {}), stab |-> stab, ls |-> NULL]
    <2>1. b = [Zeroes(w) EXCEPT !.stab = stab]
      BY ZeroIs DEF blank
    <2> QED BY <2>1 DEF Zeroes
  <1> HIDE DEF b
  <1>4. v = [data |-> data, node |-> node, stab |-> stab, ls |-> reg_stabilize(node)]
    <2>1. set(b, data) = [data |-> data, node |-> AllBits(w, {}), stab |-> stab, ls |-> NULL]
      <3> HIDE DEF data, stab
      <3> QED BY <1>3 DEF set
    <2>2. v = [[set(b, data) EXCEPT !.node = node] EXCEPT !.ls = reg_stabilize(node)]
      <3>1. v = setNode(set(b, data), node)
        BY <1>1 DEF b
      <3> HIDE DEF data
      <3> QED BY <3>1, Zenon DEF setNode
    <2> HIDE DEF data, stab
    <2>3. [set(b, data) EXCEPT !.node = node] = [data |-> data, node |-> node, stab |-> stab, ls |-> NULL]
      BY <2>1
    <2> QED BY <2>2, <2>3
  <1>5. v \in Values(w)
    <2>1. data \in Bools(w) /\ stab \in Bools(w)
      BY DEF Bools, AllBits
    <2>2. reg_stabilize(node) \in LeakSets(w)
      BY <1>2, StabilizeAt
    <2> HIDE DEF data, stab
    <2> QED BY <1>2, <1>4, <2>1, <2>2 DEF Values
  <1>6. v.data = data /\ v.node = node /\ v.ls = reg_stabilize(node)
    BY <1>4
  <1>7. Agrees(v)
    BY <1>2, <1>6 DEF Agrees, Nodes
  <1>8. \A i \in 1 .. w : At(v.ls, i) = Own(v.node[i])
    BY <1>2, <1>6, StabilizeAt
  <1> QED BY <1>5, <1>7, <1>8, OwnGood

\* commit: the register shows its old and its new expression, and leaks both.
LEMMA CommitSound ==
  ASSUME NEW w \in Nat, w # 0, NEW curr, Good(curr, w), NEW next, Good(next, w),
         NEW before, before = curr.node
  PROVE  /\ Good(committed(curr, next), w)
         /\ Shows([val |-> committed(curr, next),
                   shown |-> [i \in 1 .. w |-> {before[i], committed(curr, next).node[i]}]], w)
  <1> DEFINE V == committed(curr, next)
             stab == CommitStability(curr, next)
             ls == merge(reg_stabilize(curr.node), reg_stabilize(next.node))
             shown == [i \in 1 .. w |-> {before[i], V.node[i]}]
  <1>1. /\ curr \in Values(w) /\ curr.node \in Nodes(w) /\ curr.data \in Bools(w)
        /\ next \in Values(w) /\ next.node \in Nodes(w) /\ next.data \in Bools(w)
        /\ DOMAIN curr.node = 1 .. w /\ DOMAIN next.node = 1 .. w /\ DOMAIN curr.data = 1 .. w
    BY ValueParts DEF Good
  <1>2. stab \in Bools(w) /\ \A i \in 1 .. w : stab[i] => curr.node[i] = next.node[i]
    <2>1. CASE IsConst(curr.node) /\ IsConst(next.node)
      <3>1. stab = [i \in 1 .. w |-> curr.data[i] = next.data[i]]
        BY <1>1, <2>1 DEF CommitStability
      <3>2. ASSUME NEW i \in 1 .. w, curr.data[i] = next.data[i] PROVE curr.node[i] = next.node[i]
        <4>1. IsConstBit(curr.node[i]) /\ IsConstBit(next.node[i])
          BY <1>1, <2>1 DEF IsConst
        <4>2. curr.data[i] = (Env0 \in curr.node[i]) /\ next.data[i] = (Env0 \in next.node[i])
          BY <1>1 DEF Good, Agrees
        <4> QED BY <3>2, <4>1, <4>2, BoundAssumption DEF IsConstBit
      <3> QED BY <3>1, <3>2 DEF Bools
    <2>2. CASE ~(IsConst(curr.node) /\ IsConst(next.node))
      <3>1. stab = [i \in 1 .. w |-> curr.node[i] = next.node[i]]
        BY <1>1, <2>2 DEF CommitStability
      <3> QED BY <3>1 DEF Bools
    <2> QED BY <2>1, <2>2
  <1>3. /\ ls \in LeakSets(w)
        /\ \A i \in 1 .. w : At(ls, i) = Own(curr.node[i]) \union Own(next.node[i])
    BY <1>1, StabilizeAt, MergeAt
  <1> HIDE DEF stab, ls
  <1>4. V = [data |-> next.data, node |-> next.node, stab |-> stab, ls |-> ls]
    <2>1. next = [data |-> next.data, node |-> next.node, stab |-> next.stab, ls |-> next.ls]
      BY <1>1 DEF Values
    <2>2. V = [[next EXCEPT !.stab = stab] EXCEPT !.ls = ls]
      BY Zenon DEF committed, stab, ls
    <2>3. [next EXCEPT !.stab = stab] = [data |-> next.data, node |-> next.node, stab |-> stab, ls |-> next.ls]
      BY <2>1
    <2> QED BY <2>2, <2>3
  <1> HIDE DEF V
  <1>5. V \in Values(w)
    BY <1>1, <1>2, <1>3, <1>4 DEF Values
  <1>6. V.data = next.data /\ V.node = next.node /\ V.stab = stab /\ V.ls = ls
    BY <1>4
  <1>7. Agrees(V)
    BY <1>6 DEF Good, Agrees
  <1>8. Pure(V)
    BY <1>1, <1>2, <1>3, <1>6 DEF Pure
  <1>9. ASSUME NEW i \in 1 .. w, NEW d \in Env, NEW e \in Env, Same(d, e, At(ls, i))
        PROVE  (d \in curr.node[i] <=> e \in curr.node[i]) /\ (d \in next.node[i] <=> e \in next.node[i])
    <2>1. curr.node[i] \in SUBSET Env /\ next.node[i] \in SUBSET Env
      BY <1>1 DEF Nodes
    <2>2. Same(d, e, Own(curr.node[i])) /\ Same(d, e, Own(next.node[i]))
      BY <1>3, <1>9, SameUnion
    <2> QED BY <2>1, <2>2, OwnIs
  <1>10. Told(V)
    BY <1>1, <1>6, <1>9 DEF Told
  <1>11. Good(V, w)
    BY <1>5, <1>7, <1>8, <1>10 DEF Good
  <1>12. shown \in Leaks(w)
    BY <1>1, <1>6 DEF Leaks, Nodes
  <1>13. \A i \in 1 .. w : shown[i] = {curr.node[i], next.node[i]}
    BY <1>6
  <1> HIDE DEF shown
  <1> DEFINE o == [val |-> V, shown |-> shown]
  <1>14. o.val = V /\ o.shown = shown
    OBVIOUS
  <1> HIDE DEF o
  <1>15. ASSUME NEW i \in 1 .. w, NEW g \in shown[i]
         PROVE  /\ V.stab[i] => g = V.node[i]
                /\ \A d, e \in Env : Same(d, e, At(V.ls, i)) => (d \in g <=> e \in g)
    BY <1>2, <1>6, <1>9, <1>13
  <1>16. \A i \in 1 .. w : V.node[i] \in shown[i]
    BY <1>6, <1>13
  <1>17. Shows(o, w)
    BY <1>11, <1>12, <1>14, <1>15, <1>16 DEF Shows
  <1> QED BY <1>11, <1>17 DEF o, V, shown

LEMMA InitInv ==
  ASSUME Init
  PROVE  Inv
  <1>1. circuit \in Circuits /\ cycle = 0 /\ MaxCycles \in Nat /\ cells = << >>
    BY BoundAssumption DEF Init
  <1>2. ASSUME NEW r \in Regs
        PROVE  Shows(RegCell(r), RegWidths[r]) /\ Good(wires[r].next, RegWidths[r])
    <2> DEFINE w == RegWidths[r]
    <2>1. w \in Nat /\ w # 0
      BY <1>1, RegsAre
    <2>2. constant(AllBits(w, FALSE)) = Zeroes(w)
      BY <2>1, ZeroIs
    <2>3. wires[r].curr = Zeroes(w) /\ wires[r].next = Zeroes(w) /\ old[r] = AllBits(w, {})
      BY <2>2 DEF Init
    <2> HIDE DEF w
    <2>4. Good(Zeroes(w), w)
      BY <2>1, ZeroGood
    <2> DEFINE shown == [i \in 1 .. w |-> {AllBits(w, {})[i], Zeroes(w).node[i]}]
               o == [val |-> Zeroes(w), shown |-> shown]
    <2>5. \A i \in 1 .. w : shown[i] = {{}} /\ Zeroes(w).node[i] = {}
      BY DEF Zeroes, AllBits
    <2>6. shown \in Leaks(w)
      BY DEF Zeroes, AllBits, Leaks
    <2>7. o.val = Zeroes(w) /\ o.shown = shown
      OBVIOUS
    <2>8. RegCell(r) = o
      BY <2>3 DEF RegCell, w
    <2> HIDE DEF o, shown
    <2>9. Shows(o, w)
      BY <2>1, <2>4, <2>5, <2>6, <2>7 DEF Shows
    <2> QED BY <2>3, <2>4, <2>8, <2>9 DEF w
  <1>3. << >> \in Seq(ShownCells) /\ DOMAIN << >> = {}
    OBVIOUS
  <1> QED BY <1>1, <1>2, <1>3 DEF Inv

\* What a register may load is sound.
LEMMA LoadableGood ==
  ASSUME Inv, NEW r \in Regs, NEW v \in Loadable(r)
  PROVE  Good(v, RegWidths[r])
  <1>1. RegWidths[r] \in Nat
    BY RegsAre DEF Inv
  <1>2. CASE v \in Inputs(RegWidths[r])
    BY <1>1, <1>2, InputGood DEF Inv
  <1>3. CASE v = wires[r].next
    BY <1>3 DEF Inv
  <1>4. CASE \E k \in DOMAIN cells : Width(cells[k].val) = RegWidths[r] /\ v = cells[k].val
    <2>1. PICK k \in DOMAIN cells : Width(cells[k].val) = RegWidths[r] /\ v = cells[k].val
      BY <1>4
    <2>2. cells[k] \in ShownCells
      BY DEF Inv
    <2>3. PICK w \in Nat : Shows(cells[k], w)
      BY <2>2 DEF ShownCells
    <2>4. Good(v, w) /\ Width(v) = w
      BY <2>1, <2>3, ValueParts DEF Shows, Good
    <2> QED BY <2>1, <2>4
  <1> QED BY <1>2, <1>3, <1>4 DEF Loadable

LEMMA CommitStep ==
  ASSUME Inv, Commit
  PROVE  Inv'
  <1>1. PICK next \in [Regs -> UNION {Loadable(r) : r \in Regs}] :
          /\ \A r \in Regs : next[r] \in Loadable(r)
          /\ wires' = [r \in Regs |-> [curr |-> committed(wires[r].curr, next[r]),
                                       next |-> committed(wires[r].curr, next[r])]]
    BY DEF Commit
  <1>2. /\ old' = [r \in Regs |-> wires[r].curr.node] /\ cells' = << >>
        /\ cycle' = cycle + 1 /\ cycle < MaxCycles /\ circuit' = circuit
    BY DEF Commit
  <1>3. Regs' = Regs /\ RegWidths' = RegWidths
    BY <1>2 DEF Regs, RegWidths
  <1>4. circuit' \in Circuits /\ cycle' \in 0 .. MaxCycles
    BY <1>2, BoundAssumption DEF Inv
  <1>5. ASSUME NEW r \in Regs
        PROVE  Shows(RegCell(r)', RegWidths[r]) /\ Good((wires[r].next)', RegWidths[r])
    <2> DEFINE w == RegWidths[r]
               curr == wires[r].curr
               V == committed(curr, next[r])
    <2>1. w \in Nat /\ w # 0
      BY RegsAre DEF Inv
    <2>2. Good(curr, w)
      BY DEF Inv, Shows, RegCell
    <2>3. Good(next[r], w)
      BY <1>1, LoadableGood
    <2>4. wires'[r].curr = V /\ wires'[r].next = V /\ old'[r] = curr.node
      BY <1>1, <1>2
    <2>5. RegCell(r)' = [val |-> V, shown |-> [i \in 1 .. w |-> {old'[r][i], V.node[i]}]]
      BY <1>3, <2>4 DEF RegCell
    <2> HIDE DEF w, curr
    <2>6. /\ Good(V, w)
          /\ Shows([val |-> V, shown |-> [i \in 1 .. w |-> {old'[r][i], V.node[i]}]], w)
      BY <2>1, <2>2, <2>3, <2>4, CommitSound
    <2> QED BY <2>4, <2>5, <2>6 DEF w
  <1>6. cells' \in Seq(ShownCells) /\ DOMAIN cells' = {}
    BY <1>2
  <1> QED BY <1>3, <1>4, <1>5, <1>6 DEF Inv

-----------------------------------------------------------------------------
(* The theorems                                                            *)

LEMMA NextInv ==
  ASSUME Supported, Inv, [Next]_vars
  PROVE  Inv'
  <1>1. CASE Pos
    BY <1>1, PosStep
  <1>2. CASE BitNot
    BY <1>2, BitNotStep
  <1>3. CASE BitAnd
    BY <1>3, BitAndStep
  <1>4. CASE BitOr
    BY <1>4, BitOrStep
  <1>5. CASE BitXor
    BY <1>5, BitXorStep
  <1>6. CASE BitXnor
    BY <1>6, BitXnorStep
  <1>7. CASE Add
    BY <1>7, AddStep
  <1>8. CASE Sub
    BY <1>8, SubStep
  <1>9. CASE Neg
    BY <1>9, NegStep
  <1>10. CASE Mul
    BY <1>10, MulStep
  <1>11. CASE LogicNot
    BY <1>11, LogicNotStep
  <1>12. CASE LogicAnd
    BY <1>12, LogicAndStep
  <1>13. CASE LogicOr
    BY <1>13, LogicOrStep
  <1>14. CASE ReduceAnd
    BY <1>14, ReduceAndStep
  <1>15. CASE ReduceOr
    BY <1>15, ReduceOrStep
  <1>16. CASE ReduceBool
    BY <1>16, ReduceBoolStep
  <1>17. CASE ReduceXor
    BY <1>17, ReduceXorStep
  <1>18. CASE Eq
    BY <1>18, EqStep
  <1>19. CASE Ne
    BY <1>19, NeStep
  <1>20. CASE Lt
    BY <1>20, LtStep
  <1>21. CASE Gt
    BY <1>21, GtStep
  <1>22. CASE Ge
    BY <1>22, GeStep
  <1>23. CASE Le
    BY <1>23, LeStep
  <1>24. CASE EqSigned
    BY <1>24, EqSignedStep
  <1>25. CASE NeSigned
    BY <1>25, NeSignedStep
  <1>26. CASE LeSigned
    BY <1>26, LeSignedStep
  <1>27. CASE Shl
    BY <1>27, ShlStep
  <1>28. CASE Shr
    BY <1>28, ShrStep
  <1>29. CASE Sshr
    BY <1>29, SshrStep
  <1>30. CASE ShiftSigned
    BY <1>30, ShiftSignedStep
  <1>31. CASE Slice
    BY <1>31, SliceStep
  <1>32. CASE Sext
    BY <1>32, SextStep
  <1>33. CASE Zext
    BY <1>33, ZextStep
  <1>34. CASE Repeat
    BY <1>34, RepeatStep
  <1>35. CASE Concat
    BY <1>35, ConcatStep
  <1>36. CASE Blit
    BY <1>36, BlitStep
  <1>37. CASE Mux
    BY <1>37, MuxStep
  <1>38. CASE Commit
    BY <1>38, CommitStep
  <1>39. CASE LtSigned \/ GtSigned \/ GeSigned
    BY <1>39, LtSignedStep, GtSignedStep, GeSignedStep
  <1>40. CASE UNCHANGED vars
    <2>1. circuit' = circuit /\ wires' = wires /\ old' = old /\ cycle' = cycle /\ cells' = cells
      BY <1>40 DEF vars
    <2>2. \A r \in Regs : RegCell(r)' = RegCell(r)
      BY <2>1 DEF RegCell, RegWidths
    <2>3. Regs' = Regs /\ RegWidths' = RegWidths /\ Fitting' = Fitting
      BY <2>1 DEF Regs, RegWidths, Fitting
    <2> QED BY <2>1, <2>2, <2>3 DEF Inv
  <1> QED
    BY <1>1, <1>2, <1>3, <1>4, <1>5, <1>6, <1>7, <1>8, <1>9, <1>10, <1>11, <1>12, <1>13, <1>14, <1>15, <1>16, <1>17, <1>18, <1>19, <1>20, <1>21, <1>22, <1>23, <1>24, <1>25, <1>26, <1>27, <1>28, <1>29, <1>30, <1>31, <1>32, <1>33, <1>34, <1>35, <1>36, <1>37, <1>38, <1>39, <1>40
    DEF Next

LEMMA Invariance == ASSUME Supported PROVE Spec => []Inv
  <1>1. Init => Inv
    BY InitInv
  <1>2. Inv /\ [Next]_vars => Inv'
    BY NextInv
  <1> QED BY <1>1, <1>2, PTL DEF Spec

\* Every value has one entry per bit in each of its fields, whatever the cells
\* computed and however operands were cast, joined, split or merged: what
\* debug_assert and the width assertions of wire::commit require.
THEOREM Typed == ASSUME Supported PROVE Spec => []TypeOK
  <1>1. ASSUME Inv PROVE TypeOK
    <2>1. ASSUME NEW v \in AllValues
          PROVE  /\ v.data \in [1 .. Width(v) -> BOOLEAN] /\ v.stab \in [1 .. Width(v) -> BOOLEAN]
                 /\ v.node \in [1 .. Width(v) -> SUBSET Env]
                 /\ v.ls = NULL \/ v.ls \in [1 .. Width(v) -> SUBSET SUBSET Env]
      <3>1. PICK k \in Ids : v = Val(k)
        BY DEF AllValues, Val
      <3>2. v \in Values(Width(v))
        BY <1>1, <3>1, OperandsShow DEF Good
      <3> QED BY <3>2 DEF Values, Bools, Nodes, LeakSets, Leaks
    <2> QED BY <1>1, <2>1 DEF TypeOK, Inv
  <1> QED BY <1>1, Invariance, PTL

\* A bit declared stable keeps one expression all cycle long, whatever the
\* delays: the stability rules of every cell and of wire::commit are sound.
THEOREM Stable == ASSUME Supported PROVE Spec => []StableBitsHold
  <1>1. ASSUME Inv PROVE StableBitsHold
    <2> SUFFICES ASSUME NEW k \in Ids, NEW i \in DOMAIN Val(k).stab, Val(k).stab[i]
                 PROVE  Operands[k].shown[i] = {Val(k).node[i]}
      BY DEF StableBitsHold
    <2> DEFINE w == Width(Val(k))
    <2>1. /\ w \in Nat /\ Val(k) \in Values(w) /\ Shows(Operands[k], w) /\ Operands[k].val = Val(k)
      BY <1>1, OperandsShow DEF Good
    <2> HIDE DEF w
    <2>2. i \in 1 .. w
      BY <2>1, ValueParts
    <2>3. /\ Val(k).node[i] \in Operands[k].shown[i]
          /\ \A g \in Operands[k].shown[i] : g = Val(k).node[i]
      BY <2>1, <2>2 DEF Shows
    <2> QED BY <2>3
  <1> QED BY <1>1, Invariance, PTL

\* Whatever a bit shows during the cycle is computable from its leaks: the
\* LeakSet of every value accounts for every glitch of the cells above it.
THEOREM Leaked == ASSUME Supported PROVE Spec => []GlitchesLeaked
  <1>1. ASSUME Inv PROVE GlitchesLeaked
    <2> SUFFICES ASSUME NEW k \in Ids, NEW i \in DOMAIN Val(k).node, NEW g \in Operands[k].shown[i]
                 PROVE  Determined(g, At(Val(k).ls, i))
      BY DEF GlitchesLeaked
    <2> DEFINE w == Width(Val(k))
    <2>1. /\ w \in Nat /\ Val(k) \in Values(w) /\ Shows(Operands[k], w) /\ Operands[k].val = Val(k)
      BY <1>1, OperandsShow DEF Good
    <2> HIDE DEF w
    <2>2. i \in 1 .. w
      BY <2>1, ValueParts
    <2>3. \A d, e \in Env : Same(d, e, At(Val(k).ls, i)) => (d \in g <=> e \in g)
      BY <2>1, <2>2 DEF Shows
    <2> QED BY <2>3 DEF Determined, Same
  <1> QED BY <1>1, Invariance, PTL

\* A stable bit leaks its own expression and nothing else: no operation brings
\* back what partial_stabilize forgot.
THEOREM Purity == ASSUME Supported PROVE Spec => []StableBitsPure
  <1>1. ASSUME Inv PROVE StableBitsPure
    <2>1. ASSUME NEW v \in AllValues PROVE Pure(v)
      <3>1. PICK k \in Ids : v = Val(k)
        BY DEF AllValues, Val
      <3> QED BY <1>1, <3>1, OperandsShow DEF Good
    <2> QED BY <2>1 DEF StableBitsPure, Pure
  <1> QED BY <1>1, Invariance, PTL

\* The concrete bits are the symbolic expressions in the valuation the
\* simulation runs in, for every value of every circuit.
THEOREM Concretised == ASSUME Supported PROVE Spec => []ConcreteAgrees
  <1>1. ASSUME Inv PROVE ConcreteAgrees
    <2>1. ASSUME NEW v \in AllValues PROVE Agrees(v)
      <3>1. PICK k \in Ids : v = Val(k)
        BY DEF AllValues, Val
      <3> QED BY <1>1, <3>1, OperandsShow DEF Good
    <2> QED BY <2>1 DEF ConcreteAgrees, Agrees
  <1> QED BY <1>1, Invariance, PTL

\* debug_assert never fires: a bit whose expression is a constant has this
\* constant as its concrete bit.
THEOREM AssertsHold == ASSUME Supported PROVE Spec => []ConstantsAgree
  <1>1. ASSUME Inv PROVE ConstantsAgree
    <2> SUFFICES ASSUME NEW v \in AllValues, NEW i \in DOMAIN v.node, IsConstBit(v.node[i])
                 PROVE  v.node[i] = BitConst(v.data[i])
      BY DEF ConstantsAgree
    <2>1. PICK k \in Ids : v = Val(k)
      BY DEF AllValues, Val
    <2>2. v.data[i] = (Env0 \in v.node[i])
      BY <1>1, <2>1, OperandsShow DEF Good, Agrees
    <2> QED BY <2>2, BoundAssumption DEF IsConstBit, BitConst
  <1> QED BY <1>1, Invariance, PTL
=============================================================================
