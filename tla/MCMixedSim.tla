----------------------------- MODULE MCMixedSim -----------------------------
(* Two symbolic inputs a and b: a valuation is a number, bit 0 is a, bit 1 b. *)
EXTENDS MixedSim

MCEnv == 0 .. 3
InA == {1, 3}
InB == {2, 3}

Family(widths, inputs, max, kinds, resized, any) ==
  [RegWidths |-> widths, InputBits |-> inputs, MaxCells |-> max, Cells |-> kinds,
   Resized |-> resized, AnySelector |-> any]

(* two bitwise cells on one-bit registers *)
Bits == Family(<< 1, 1 >>, {{}, MCEnv, InA, InB}, 2,
               {"not", "and", "or", "xor", "mux"}, FALSE, FALSE)
(* every kind of cell on words of two bits and one bit, but the comparisons
   of symbolic signed words, which are below *)
Words ==
  Family(<< 2, 1 >>, {{}, MCEnv, InA}, 1,
         {"pos", "not", "and", "or", "xor", "xnor", "add", "sub", "neg", "mul",
          "logic_not", "logic_and", "logic_or", "reduce_and", "reduce_or", "reduce_bool",
          "reduce_xor", "eq", "ne", "lt", "gt", "ge", "le", "eq_ss", "ne_ss", "le_ss",
          "shl", "shr", "sshr", "shift_s", "slice", "sext", "zext", "repeat", "concat",
          "blit", "mux"}, TRUE, FALSE)
(* signed comparisons of one-bit words *)
Signs == Family(<< 1, 1 >>, {{}, MCEnv, InA, InB}, 1, {"lt_ss", "gt_ss", "ge_ss"}, FALSE, FALSE)
(* signed comparisons of words of three bits *)
SignedWords == Family(<< 3, 3 >>, {{}, MCEnv, InA}, 1, {"lt_ss", "gt_ss"}, FALSE, FALSE)
(* a mux of any selector *)
Selectors == Family(<< 1, 1, 1 >>, {{}, MCEnv, InA, InB}, 1, {"mux"}, FALSE, TRUE)

MCAll == {Bits, Words, Signs}
ASSUME MCSupported == \A c \in MCAll : Supports(c)
MCSelectors == {Selectors}
MCSigned == {SignedWords}
=============================================================================
