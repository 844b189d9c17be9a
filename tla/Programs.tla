------------------------------- MODULE Programs -------------------------------
(***************************************************************************)
(* The CPUs and, for each, what the setup of every program writes in its   *)
(* memory: the variables of the program (their sizes and initial contents  *)
(* come from its .S or .c file), the nodes init_implem gives to their      *)
(* bytes, and the concrete value symbol_to_conc_ gives to each symbol.     *)
(*                                                                         *)
(* An expression is the set of the atoms it adds:                          *)
(*   << "s", name, k >>   byte k of the symbol name                        *)
(*   << "c", var, k >>    the initial content of byte k of a variable      *)
(*   << "t", i >>         entry i of the S-box                             *)
(***************************************************************************)
EXTENDS Integers, Sequences, SequencesExt

\* bound: entries of the S-box, and of the table of the program (256)
TableSize == 4

Plus(e, f) == (e \ f) \union (f \ e)
Symbol(name) == [k \in 0 .. 3 |-> {<< "s", name, k >>}]
Content(var) == [k \in 0 .. 3 |-> {<< "c", var, k >>}]
PlusWords(v, w) == [k \in 0 .. 3 |-> Plus(v[k], w[k])]
\* Concat(Const(0x0, 24), v)
LowByte(v) == [k \in 0 .. 3 |-> IF k = 0 THEN v[0] ELSE {}]

\* live: how many of its bytes are not initialised to zero
Var(name, size, align, live) == [name |-> name, size |-> size, align |-> align, live |-> live]
\* One update of a word of memory: the nodes of its four bytes, shifted by the
\* position of the variable or not, under a mask
Write(var, word, node, shifted, mask) ==
  [var |-> var, word |-> word, node |-> node, shifted |-> shifted, mask |-> mask]
\* Tables of symbols put together: insert keeps what is there
f ++ g == [s \in DOMAIN f \union DOMAIN g |-> IF s \in DOMAIN f THEN f[s] ELSE g[s]]
\* symbol_to_conc_.insert for the first n bytes
Conc(name, value, n) == [s \in {<< "s", name, k >> : k \in 0 .. n - 1} |-> value[s[3]]]

\* at_once: the values are assigned to wires at once, not queued in a memory
Program(name, vars, writes, conc, at_once, window, table) ==
  [name |-> name, vars |-> vars, writes |-> writes, conc |-> conc, at_once |-> at_once,
   window |-> window, table |-> table]

\* getPseudoShares(s, 2): the masked secret, then the mask
MaskName == [a |-> "a_mask", b |-> "b_mask"]
Share0(s) == PlusWords(Symbol(s), Symbol(MaskName[s]))
Share1(s) == Symbol(MaskName[s])
ConcShares(s, v0, v1, n) ==
  Conc(s, PlusWords(Content(v0), Content(v1)), n) ++ Conc(MaskName[s], Content(v1), n)

\* The variables the writes of a program touch, as words
WordVars(names, live) == [i \in DOMAIN names |-> Var(names[i], 4, 4, live)]

-----------------------------------------------------------------------------
(* secmult and secmult_unsecure: bytes in words of their own, or, on the   *)
(* Cortex, unsecure, bytes the linker packs                                *)

SecmultNames == << "a0", "a1", "b0", "b1", "m01" >>
SecmultNode(name) ==
  CASE name = "a0" -> Share0("a") [] name = "a1" -> Share1("a")
    [] name = "b0" -> Share0("b") [] name = "b1" -> Share1("b") [] name = "m01" -> Symbol("m")
SecmultConc(n) ==
  Conc("m", Content("m01"), n) ++ ConcShares("a", "a0", "a1", n)
  ++ ConcShares("b", "b0", "b1", n)

secmult(name, at_once) ==
  Program(name, WordVars(SecmultNames, 1),
    [i \in 1 .. 5 |-> Write(SecmultNames[i], 0, LowByte(SecmultNode(SecmultNames[i])), FALSE, "word")],
    SecmultConc(1), at_once, "init", "none")
secmult_packed(name) ==
  Program(name, [i \in 1 .. 5 |-> Var(SecmultNames[i], 1, 1, 1)],
    [i \in 1 .. 5 |-> Write(SecmultNames[i], 0, LowByte(SecmultNode(SecmultNames[i])), TRUE, "symbol")],
    SecmultConc(1), FALSE, "init", "none")

-----------------------------------------------------------------------------
(* dom_and, dom_and_unsecure, dom_and_GPR: words; calibration, refresh,    *)
(* simple: one secret                                                      *)

WordProgram(name, names, nodes, conc, at_once) ==
  Program(name, WordVars(names, 4),
          [i \in DOMAIN names |-> Write(names[i], 0, nodes[i], FALSE, "word")],
          conc, at_once, "init", "none")

dom_and(name, names, at_once) ==
  WordProgram(name, names, << Share0("a"), Share1("a"), Share0("b"), Share1("b"), Symbol("m") >>,
              Conc("m", Content(names[5]), 4) ++ ConcShares("a", names[1], names[2], 4)
              ++ ConcShares("b", names[3], names[4], 4), at_once)
DomNames == << "as0", "as1", "bs0", "bs1", "m" >>
DomNamesArm == << "a0", "a1", "b0", "b1", "m" >>

calibration ==
  WordProgram("calibration", << "a0", "a1" >>, << Share0("a"), Share1("a") >>,
              ConcShares("a", "a0", "a1", 4), FALSE)
\* m has no entry in symbol_to_conc_
refresh ==
  WordProgram("refresh", << "a0", "a1", "m" >>, << Share0("a"), Share1("a"), Symbol("m") >>,
              ConcShares("a", "a0", "a1", 4), FALSE)
\* general purpose registers 8 and 9
simple ==
  WordProgram("simple", << "r8", "r9" >>, << Share0("a"), Share1("a") >>,
              ConcShares("a", "r8", "r9", 4), TRUE)

-----------------------------------------------------------------------------
(* aes_herbst, whose tables are words, and aes_herbst_unsecure, whose      *)
(* tables are bytes.  The symbols of a word are in the order of its bytes. *)

Bytes(name, word, n) ==
  [k \in 0 .. 3 |-> IF k < n THEN {<< "s", name, 4 * word + k >>} ELSE {}]
BytesConc(name, var, n) ==
  [s \in {<< "s", name, k >> : k \in 0 .. n - 1} |-> {<< "c", var, s[3] >>}]
Block(name, var, words) == [w \in 1 .. words |-> Write(var, w - 1, Bytes(name, w - 1, 4), FALSE, "word")]

AesWrites ==
  Block("aes_pt", "pt", 4) \o Block("aes_key", "key", 4) \o Block("rcon", "rcon", 2)
  \o << Write("rcon", 2, Bytes("rcon", 2, 2), FALSE, "half"),
        Write("mt", 0, Bytes("aes_mt", 0, 4), FALSE, "symbol"),
        Write("m", 0, LowByte(Symbol("aes_m")), TRUE, "symbol"),
        Write("mp", 0, LowByte(Symbol("aes_mp")), TRUE, "symbol") >>
AesConc ==
  BytesConc("aes_pt", "pt", 16) ++ BytesConc("aes_key", "key", 16)
  ++ BytesConc("rcon", "rcon", 10) ++ BytesConc("aes_mt", "mt", 4)
  ++ BytesConc("aes_m", "m", 1) ++ BytesConc("aes_mp", "mp", 1)
\* pt, key, rcon and mt are aligned for the simulation, the tables of bytes and
\* the masks are where the linker puts them
AesVars(entry) ==
  << Var("m", 1, 1, 1), Var("mp", 1, 1, 1),
     Var("sboxp", entry * TableSize, entry, 0), Var("mt", 4, 4, 4), Var("pt", 16, 4, 16),
     Var("key", 16, 4, 16), Var("rcon", 10, 4, 10) >>

aes_herbst ==
  Program("aes_herbst", AesVars(4), AesWrites, AesConc, FALSE, "symbols", "words")
aes_herbst_unsecure ==
  Program("aes_herbst_unsecure", AesVars(1), AesWrites, AesConc, FALSE, "symbols", "bytes")

-----------------------------------------------------------------------------
(* The CPUs: the steps of their reset, whether registers are checked       *)
(* before the step or after it, those that are checked, and those made     *)
(* constant by force                                                       *)

Cpu(name, resets, check_first, checked, forced, programs) ==
  [name |-> name, resets |-> resets, check_first |-> check_first, checked |-> checked,
   forced |-> forced, programs |-> programs]

ibex_secmult == secmult("secmult", FALSE)
ibex_secmult_unsecure == secmult("secmult_unsecure", FALSE)
ibex_dom_and == dom_and("dom_and", DomNames, FALSE)
ibex_dom_and_unsecure == dom_and("dom_and_unsecure", DomNames, FALSE)
ibex_aes_herbst == aes_herbst
ibex_aes_herbst_unsecure == aes_herbst_unsecure
ibex ==
  Cpu("ibex", 2, FALSE, {"pc", "instr"}, {},
      {ibex_secmult, ibex_secmult_unsecure, ibex_dom_and, ibex_dom_and_unsecure,
       ibex_aes_herbst, ibex_aes_herbst_unsecure})

cv32e40p_secmult == secmult("secmult", FALSE)
cv32e40p_secmult_unsecure == secmult("secmult_unsecure", FALSE)
cv32e40p_dom_and == dom_and("dom_and", DomNames, FALSE)
cv32e40p_dom_and_unsecure == dom_and("dom_and_unsecure", DomNames, FALSE)
cv32e40p_aes_herbst == aes_herbst
cv32e40p_aes_herbst_unsecure == aes_herbst_unsecure
cv32e40p ==
  Cpu("cv32e40p", 2, FALSE, {"pc", "instr"}, {},
      {cv32e40p_secmult, cv32e40p_secmult_unsecure, cv32e40p_dom_and,
       cv32e40p_dom_and_unsecure, cv32e40p_aes_herbst, cv32e40p_aes_herbst_unsecure})

aubrac_secmult == secmult("secmult", FALSE)
aubrac_secmult_unsecure == secmult("secmult_unsecure", FALSE)
aubrac_dom_and == dom_and("dom_and", DomNames, FALSE)
aubrac_dom_and_unsecure == dom_and("dom_and_unsecure", DomNames, FALSE)
aubrac_simple == simple
aubrac_aes_herbst == aes_herbst
aubrac_aes_herbst_unsecure == aes_herbst_unsecure
aubrac ==
  Cpu("aubrac", 6, FALSE, {"pc"}, {},
      {aubrac_secmult, aubrac_secmult_unsecure, aubrac_dom_and,
       aubrac_dom_and_unsecure, aubrac_simple, aubrac_aes_herbst,
       aubrac_aes_herbst_unsecure})

coco_ibex_secmult == secmult("secmult", TRUE)
coco_ibex_secmult_unsecure == secmult("secmult_unsecure", TRUE)
coco_ibex_dom_and == dom_and("dom_and", DomNames, TRUE)
coco_ibex_dom_and_unsecure == dom_and("dom_and_unsecure", DomNames, TRUE)
coco_ibex ==
  Cpu("coco-ibex", 2, FALSE, {"pc", "instr"}, {},
      {coco_ibex_secmult, coco_ibex_secmult_unsecure, coco_ibex_dom_and,
       coco_ibex_dom_and_unsecure})

cortex_m3_secmult == secmult("secmult", FALSE)
cortex_m3_secmult_unsecure == secmult_packed("secmult_unsecure")
cortex_m3_dom_and == dom_and("dom_and", DomNamesArm, FALSE)
cortex_m3_dom_and_GPR == dom_and("dom_and_GPR", DomNamesArm, FALSE)
cortex_m3_calibration == calibration
cortex_m3_aes_herbst == aes_herbst
cortex_m3_aes_herbst_unsecure == aes_herbst_unsecure
cortex_m3 ==
  Cpu("cortex_m3", 2, TRUE, {"sp", "pc", "instr"}, {"1k_cross"},
      {cortex_m3_secmult, cortex_m3_secmult_unsecure, cortex_m3_dom_and,
       cortex_m3_dom_and_GPR, cortex_m3_calibration, cortex_m3_aes_herbst,
       cortex_m3_aes_herbst_unsecure})

cortex_m4_secmult == secmult("secmult", FALSE)
cortex_m4_secmult_unsecure == secmult_packed("secmult_unsecure")
cortex_m4_dom_and == dom_and("dom_and", DomNamesArm, FALSE)
cortex_m4_dom_and_GPR == dom_and("dom_and_GPR", DomNamesArm, FALSE)
cortex_m4_calibration == calibration
cortex_m4_refresh == refresh
cortex_m4_aes_herbst == aes_herbst
cortex_m4_aes_herbst_unsecure == aes_herbst_unsecure
cortex_m4 ==
  \* its check of the instruction is commented out
  Cpu("cortex_m4", 2, TRUE, {"sp", "pc"}, {"1k_cross"},
      {cortex_m4_secmult, cortex_m4_secmult_unsecure, cortex_m4_dom_and,
       cortex_m4_dom_and_GPR, cortex_m4_calibration, cortex_m4_refresh,
       cortex_m4_aes_herbst, cortex_m4_aes_herbst_unsecure})

AllCpus == {ibex, cv32e40p, aubrac, coco_ibex, cortex_m3, cortex_m4}
=============================================================================
