---------------------------- MODULE AtomicMemory ----------------------------
(***************************************************************************)
(* What a memory with prioritised write ports promises to the circuit: the *)
(* writes of a cycle take effect together at the clock edge, and on every  *)
(* bit the write of the highest priority wins, the latest one among        *)
(* equals.  A write is [index, val, mask, priority, id], id its rank among *)
(* the calls of update.                                                    *)
(***************************************************************************)
EXTENDS Naturals

CONSTANTS Index, Bits, Sym, Priority

VARIABLES data,     \* the content of every bit of every cell
          pending   \* the writes since the last clock edge

Write == [index : Index, val : [Bits -> Sym], mask : SUBSET Bits,
          priority : Priority, id : Nat]

Covers(w, i, b) == w.index = i /\ b \in w.mask

Outranks(v, w) == v.priority > w.priority \/ (v.priority = w.priority /\ v.id > w.id)

\* The content of bit b of cell i once the writes of W are applied to c
Winner(W, i, b) ==
  CHOOSE w \in W : Covers(w, i, b) /\ \A v \in W : Covers(v, i, b) /\ v # w => Outranks(w, v)
Resolved(W, c) ==
  [i \in Index |-> [b \in Bits |->
     IF \E w \in W : Covers(w, i, b) THEN Winner(W, i, b).val[b] ELSE c[i][b]]]

Init == data \in [Index -> [Bits -> Sym]] /\ pending = {}

\* A call of update adds one write, the latest
Update ==
  /\ \E w \in pending' : /\ w \in Write
                        /\ \A v \in pending : v.id < w.id
                        /\ pending' = pending \union {w}
  /\ UNCHANGED data

Edge == data' = Resolved(pending, data) /\ pending' = {}

Next == Update \/ Edge

Spec == Init /\ [][Next]_<< data, pending >>
=============================================================================
