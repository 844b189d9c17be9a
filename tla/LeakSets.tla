------------------------------ MODULE LeakSets ------------------------------
(***************************************************************************)
(* The LeakSet algebra of libs/lss: what an observer of a wire may learn   *)
(* during a cycle, one set of expressions per bit.                         *)
(*                                                                         *)
(* The expressions (Node of the external verif_msi library) are Boolean    *)
(* functions over the valuations Env of the symbolic inputs, written as    *)
(* the set of valuations where the function is 1.  simplify() is taken to  *)
(* be complete: two equal functions are the same Node.  A word is a        *)
(* sequence of such functions, least significant bit first, and a LeakSet  *)
(* is NULL or a sequence of sets of functions.                             *)
(***************************************************************************)
EXTENDS Naturals, Sequences

CONSTANTS Env,    \* the valuations of the symbolic inputs
          NULL    \* the null LeakSet pointer

ASSUME NullAssumption == NULL \notin Seq(SUBSET SUBSET Env)

BitConst(b) == IF b THEN Env ELSE {}
IsConstBit(f) == f = {} \/ f = Env

\* node->nature == CONST
IsConst(node) == \A i \in DOMAIN node : IsConstBit(node[i])

\* Every operator below returns the NULL pointer or a LeakSet.
SizeOf(first, second) == Len(IF first # NULL THEN first ELSE second)
At(ls, i) == IF ls = NULL THEN {} ELSE ls[i]

is_ls_real(ls) ==
  /\ ls # NULL
  /\ \E i \in DOMAIN ls : \E leak \in ls[i] : ~IsConstBit(leak)

OrNull(ls) == IF is_ls_real(ls) THEN ls ELSE NULL

flatten(ls) == IF ls = NULL THEN {} ELSE UNION {ls[i] : i \in DOMAIN ls}

\* Mutant of merge: the second set is forgotten
merge_first_only(first, second) == IF first # NULL THEN first ELSE second

merge(first, second) ==
  IF first = NULL /\ second = NULL
  THEN NULL
  ELSE [i \in 1 .. SizeOf(first, second) |-> At(first, i) \union At(second, i)]

\* merge of a vector: the first non-null set gives the width
merge_all(lss) ==
  LET real == {k \in DOMAIN lss : lss[k] # NULL}
  IN IF real = {}
     THEN NULL
     ELSE LET width == Len(lss[CHOOSE k \in real : \A j \in real : k <= j])
          IN [i \in 1 .. width |-> UNION {lss[k][i] : k \in real}]

\* Mutant of mix: bits are merged rank by rank, as for a bitwise operation
mix_by_rank(first, second) == merge(first, second)

mix(first, second) ==
  IF first = NULL /\ second = NULL
  THEN NULL
  ELSE [i \in 1 .. SizeOf(first, second) |-> flatten(first) \union flatten(second)]

\* Bits begin..end of ls, numbered from 1
extract(ls, begin, end) ==
  IF ls = NULL THEN NULL ELSE OrNull(SubSeq(ls, begin, end))

extend(ls, new_size) ==
  IF ls = NULL
  THEN NULL
  ELSE [i \in 1 .. new_size |-> IF i <= Len(ls) THEN ls[i] ELSE {}]

sextend(ls, new_size) ==
  IF ls = NULL
  THEN NULL
  ELSE [i \in 1 .. new_size |-> IF i <= Len(ls) THEN ls[i] ELSE ls[Len(ls)]]

rextend(ls, new_size) ==
  LET added == new_size - Len(ls)
  IN IF ls = NULL
     THEN NULL
     ELSE [i \in 1 .. new_size |-> IF i > added THEN ls[i - added] ELSE {}]

\* Replace bits begin..end of ls by source; either may be null
blit(ls, source, begin, end, size) ==
  IF ls = NULL /\ source = NULL
  THEN NULL
  ELSE OrNull([i \in 1 .. size |-> IF i \in begin .. end
                                   THEN At(source, i - begin + 1)
                                   ELSE At(ls, i)])

replicate(source, size) ==
  IF source = NULL THEN NULL ELSE [i \in 1 .. size |-> source[1]]

reduce(source) == IF source = NULL THEN NULL ELSE << flatten(source) >>

reduce_and_merge(source1, source2) ==
  IF source1 = NULL /\ source2 = NULL
  THEN NULL
  ELSE << flatten(source1) \union flatten(source2) >>

\* Bit i may show any source bit that a shift can bring to it, and the amount
shift_left(source, amount_ls, size) ==
  IF source = NULL /\ amount_ls = NULL
  THEN NULL
  ELSE [i \in 1 .. size |-> flatten(amount_ls) \union UNION {At(source, j) : j \in 1 .. i}]

shift_right(source, amount_ls, size) ==
  IF source = NULL /\ amount_ls = NULL
  THEN NULL
  ELSE [i \in 1 .. size |-> flatten(amount_ls) \union UNION {At(source, j) : j \in i .. size}]

Own(f) == IF IsConstBit(f) THEN {} ELSE {f}

\* A register shows its own stable expressions
reg_stabilize(node) ==
  IF IsConst(node) THEN NULL ELSE [i \in DOMAIN node |-> Own(node[i])]

\* Mutant of partial_stabilize: a stable bit also keeps the leaks behind it
partial_stabilize_adds(ls_in, node, stability) ==
  OrNull([i \in DOMAIN node |-> IF stability[i] THEN Own(node[i]) \union At(ls_in, i)
                                ELSE At(ls_in, i)])

\* A stable bit shows only its own expression, an unstable one all of ls_in
partial_stabilize(ls_in, node, stability) ==
  OrNull([i \in DOMAIN node |-> IF stability[i] THEN Own(node[i]) ELSE At(ls_in, i)])
=============================================================================
