------------------------------ MODULE MCCpuBench ------------------------------
(* Every program of every CPU, its variables one after the other from an   *)
(* odd address, in the order of the source or in the reverse order.        *)
EXTENDS CpuBench

MCStarts == {1}
MCMasks == {0, 3}

\* Addresses of the variables laid out one after the other from start
Placed(list, start) ==
  FoldLeft(LAMBDA acc, v : [end |-> AlignUp(acc.end, v.align) + v.size,
                            map |-> [n \in DOMAIN acc.map \union {v.name} |->
                                       IF n = v.name THEN AlignUp(acc.end, v.align) ELSE acc.map[n]]],
           [end |-> start, map |-> [n \in {} |-> 0]], list).map
MCLayouts(p) ==
  {Placed(p.vars, s) : s \in MCStarts} \union {Placed(Reverse(p.vars), s) : s \in MCStarts}
=============================================================================
