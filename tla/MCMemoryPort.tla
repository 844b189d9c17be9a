---------------------------- MODULE MCMemoryPort ----------------------------
(* Two cells of two bits, a constant 0 and a symbol a whose concrete value is 1 *)
EXTENDS MemoryPort

MCConc == [s \in {"0", "a"} |-> s = "a"]
Full(s) == [val |-> [b \in {0, 1} |-> s], mask |-> {0, 1}]
Half(b, s) == [val |-> [c \in {0, 1} |-> s], mask |-> {b}]
MCStimuli == {Full("a"), Half(1, "0")}
=============================================================================
