------------------------------- MODULE AesBytes -------------------------------
(***************************************************************************)
(* The bytes of AES as the simulator sees them.  A byte is linear over the *)
(* field of AES in its unknowns, so it is the set of its terms             *)
(* << kind, number, p >>: an unknown times x^p, where the kind is "M"      *)
(* (masks m, M1..M4, mp), "S" (key), "P" (plain text), "R" (rcon) or "B"   *)
(* (an output of the S-box).  The S-box itself is left uninterpreted: a    *)
(* table holds the output of each input it was given.                      *)
(***************************************************************************)
EXTENDS Integers, FiniteSets

Row == 0 .. 3
a ++ b == (a \ b) \union (b \ a)
Unknown(kind, n) == {<< kind, n, 0 >>}
Zero == {}

rcon == [n \in 0 .. 9 |-> Unknown("R", n)]

\* Multiplication by x: one more power on every term.
xtime(a) == {<< t[1], t[2], t[3] + 1 >> : t \in a}

\* The S-box, and its table once it was given v
Met(table, v) == v \in DOMAIN table
SBox(table, v) == IF Met(table, v) THEN table[v] ELSE Unknown("B", Cardinality(DOMAIN table))
Consulted(table, v) == [u \in DOMAIN table \union {v} |-> SBox(table, u)]
=============================================================================
