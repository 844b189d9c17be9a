----------------------------- MODULE TestBenches -----------------------------
(***************************************************************************)
(* The test benches of accelerators/: what each main() drives on the ports *)
(* of its circuit, and when it steps and measures.                         *)
(*                                                                         *)
(* A lane is a share's worth of a port: a port that takes one share is one *)
(* lane, a port that takes Concat(shares) has one lane per share.  Ports   *)
(* that only ever carry public constants (resets, enables, clocks, public  *)
(* keys) are left out, but for the instruction that starts a computation.  *)
(* The benches are those of the builds without CONST_EXEC.                 *)
(***************************************************************************)
EXTENDS Naturals, Sequences, SequencesExt

\* Bound: more cycles than any wait loop without a limit needs
NoLimit == 1000000

\* Instructions
Op(op) == << [op |-> op, secret |-> << >>, lanes |-> << >>] >>
Begin == Op("begin")          \* manager.begin_measure()
End == Op("end")              \* manager.end_measure()
Stat == Op("stat")            \* manager.stat()
Start == Op("start")          \* the circuit starts computing
Wait == Op("wait")            \* prepare_step while the circuit is not done
Steps(n) == [i \in 1 .. n |-> Op("step")[1]]
\* get_shares(symbol(secret, 'S')), one share per lane
Share(secret, lanes) == << [op |-> "share", secret |-> secret, lanes |-> lanes] >>
\* symbol(lane, 'M') on every lane
Mask(lanes) == << [op |-> "mask", secret |-> << >>, lanes |-> lanes] >>
\* set<T, true>: a constant on every lane
Const(lanes) == << [op |-> "const", secret |-> << >>, lanes |-> lanes] >>

Ports(names) == [i \in DOMAIN names |-> << names[i], 0 >>]
Lanes(port, n) == [i \in 1 .. n |-> << port, i - 1 >>]

\* random: the ports prepare_step gives a new mask, from step number "from";
\* limit: the step number at which the wait loop gives up
Bench(type, program) ==
  [type |-> type, program |-> program, random |-> {}, from |-> 0, limit |-> NoLimit]
Refreshed(bench, random, from) == [bench EXCEPT !.random = random, !.from = from]

-----------------------------------------------------------------------------
(* accelerators/aleakator: gadgets                                         *)

\* The shares of a and b, the masks z, n steps, all measured
Gadget(a, b, z, n) ==
  Bench("GADGET", Begin \o Share(<< "a", 0 >>, Ports(a)) \o Share(<< "b", 0 >>, Ports(b)) \o Mask(Ports(z))
                    \o Steps(n) \o End \o Stat)

and == Gadget(<< "a" >>, << "b" >>, << >>, 4)
and_dom == Gadget(<< "a0", "a1" >>, << "b0", "b1" >>, << "z" >>, 2)
and_dom_sync == Gadget(<< "a0", "a1" >>, << "b0", "b1" >>, << "z" >>, 2)
and_dom_wo_reg == Gadget(<< "a0", "a1" >>, << "b0", "b1" >>, << "z" >>, 16)
and_isw == Gadget(<< "a0", "a1" >>, << "b0", "b1" >>, << "z" >>, 1)
and_dom_2d == Gadget(<< "a0", "a1", "a2" >>, << "b0", "b1", "b2" >>, << "z10", "z20", "z21" >>, 2)
and_dom_sync_2d ==
  Gadget(<< "a0", "a1", "a2" >>, << "b0", "b1", "b2" >>, << "z10", "z20", "z21" >>, 2)
and_isw_2d == Gadget(<< "a0", "a1", "a2" >>, << "b0", "b1", "b2" >>, << "z01", "z02", "z12" >>, 1)
and_dom_5d ==
  Gadget(<< "a0", "a1", "a2", "a3", "a4", "a5" >>, << "b0", "b1", "b2", "b3", "b4", "b5" >>,
         << "z10", "z20", "z21", "z30", "z31", "z32", "z40", "z41", "z42", "z43",
            "z50", "z51", "z52", "z53", "z54" >>, 2)

\* Nothing to verify: public symbols, no measure
dff == Bench("GADGET", Steps(15))
triple_xor == Bench("GADGET", Steps(1))
triple_xor_reg == Bench("GADGET", Steps(4))

-----------------------------------------------------------------------------
(* accelerators/sboxes: one secret, measured from its first cycle          *)

Sbox(driven, steps) == Bench("ACCELERATOR", driven \o Begin \o steps \o End \o Stat)

prover_keccak_sbox_dom_d1 ==
  Sbox(Share(<< "sec", 0 >>, Lanes("InputxDI", 2)) \o Mask(Ports(<< "ZxDI" >>)), Steps(2))
\* The input is cleared after the first cycle
prover_keccak_sbox_dom_d2 ==
  Sbox(Share(<< "sec", 0 >>, Lanes("InputxDI", 3)) \o Mask(Ports(<< "ZxDI" >>)),
       Steps(1) \o Const(Lanes("InputxDI", 3)) \o Steps(1))
prover_keccak_sbox_dom_d3 ==
  Sbox(Share(<< "sec", 0 >>, Lanes("InputxDI", 4)) \o Mask(Ports(<< "ZxDI" >>)), Steps(2))

PresentSbox == Sbox(Share(<< "sec", 0 >>, Ports(<< "sboxIn1", "sboxIn2", "sboxIn3" >>)), Steps(2))
prolead_present_sbox_ti_d1_uniform == PresentSbox
prolead_present_sbox_ti_d1_not_uniform == PresentSbox
prover_present_sbox_ti_d1_uniform == PresentSbox
prover_present_sbox_ti_d1_not_uniform == PresentSbox

ZPorts == << "Zmul1xDI", "Zmul2xDI", "Zmul3xDI", "Zinv1xDI", "Zinv2xDI", "Zinv3xDI" >>
AesSbox(n) ==
  Refreshed(Sbox(Share(<< "sec", 0 >>, Lanes("XxDI", n)), Steps(8)),
            {<< ZPorts[i], 0 >> : i \in DOMAIN ZPorts}, 0)
prolead_aes_sbox_dom_d1 == AesSbox(2)
prolead_aes_sbox_dom_d2 == AesSbox(3)

-----------------------------------------------------------------------------
(* accelerators/prolead and accelerators/coco: whole ciphers               *)

\* The text is shared one cycle after the end of the reset
present_enc_ti ==
  Bench("ACCELERATOR",
        Steps(1) \o Begin \o Start \o Steps(1)
          \o Share(<< "pt", 0 >>, Ports(<< "data_in1", "data_in2", "data_in3" >>))
          \o Steps(2) \o Wait \o End \o Stat)
prolead_present_enc_ti_d1_uniform == present_enc_ti
prolead_present_enc_ti_d1_not_uniform == present_enc_ti

PrinceShares == Share(<< "pt", 0 >>, Ports(<< "pt1", "pt2" >>)) \o Share(<< "k0", 0 >>, Ports(<< "key1", "key2" >>))
Prince(prologue) ==
  [Refreshed(Bench("ACCELERATOR",
                   prologue \o Steps(1) \o Start \o Steps(1) \o Wait \o Steps(1) \o End \o Stat),
             {<< "r", 0 >>}, 0) EXCEPT !.limit = 100]

\* Mutant of prince_ti: the measure begins when the computation is started
prince_ti_late == Prince(Steps(2) \o PrinceShares \o Steps(1) \o Begin)
prince_ti == Prince(Steps(2) \o Begin \o PrinceShares)
prince_ti_secure == Prince(Steps(2) \o Begin \o PrinceShares)

\* A byte of the key and a byte of the text per cycle, then as many cycles to
\* read the result
Fill(i) == Share(<< "key", i >>, Lanes("KxDI", 2)) \o Share(<< "pt", i >>, Lanes("PTxDI", 2))
             \o Steps(1)
BPorts == << "Bmul1xDI", "Binv1xDI", "Binv2xDI", "Binv3xDI" >>
aes_dom ==
  [Refreshed(Bench("ACCELERATOR",
                   Steps(1) \o Begin \o Start \o Steps(1) \o FlattenSeq([i \in 1 .. 16 |-> Fill(i - 1)])
                     \o Const(Lanes("KxDI", 2)) \o Const(Lanes("PTxDI", 2))
                     \o Wait \o Steps(16) \o End \o Stat),
             {<< p, 0 >> : p \in {ZPorts[i] : i \in DOMAIN ZPorts} \union {BPorts[i] : i \in DOMAIN BPorts}},
             2) EXCEPT !.limit = 6000]

AllBenches ==
  {and, and_dom, and_dom_sync, and_dom_wo_reg, and_isw, and_dom_2d, and_dom_sync_2d, and_isw_2d,
   and_dom_5d, dff, triple_xor, triple_xor_reg,
   prover_keccak_sbox_dom_d1, prover_keccak_sbox_dom_d2, prover_keccak_sbox_dom_d3,
   prolead_present_sbox_ti_d1_uniform, prolead_present_sbox_ti_d1_not_uniform,
   prover_present_sbox_ti_d1_uniform, prover_present_sbox_ti_d1_not_uniform,
   prolead_aes_sbox_dom_d1, prolead_aes_sbox_dom_d2,
   prolead_present_enc_ti_d1_uniform, prolead_present_enc_ti_d1_not_uniform,
   prince_ti, prince_ti_secure, aes_dom}
=============================================================================
