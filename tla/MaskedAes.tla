----------------------------- MODULE MaskedAes -----------------------------
(***************************************************************************)
(* The masked AES programs (programs/aes_herbst and aes_herbst_unsecure of *)
(* the five processors) as the simulator runs them: the bytes are symbolic *)
(* and sboxp is the memory array whose reads the setup hooks.              *)
(*                                                                         *)
(* Bytes are the sums of AesBytes, and sbox is the table of the inputs the *)
(* S-box was given.                                                        *)
(***************************************************************************)
EXTENDS AesBytes, Sequences, Functions

(* The ten copies of the program: does it erase key, does it keep the       *)
(* halves of its sums in volatile bytes.                                    *)

Copy(cpu, file, clears, stepwise) ==
  [cpu |-> cpu, file |-> file, clears |-> clears, stepwise |-> stepwise]

ibex     == Copy("ibex", "aes_herbst", TRUE, TRUE)
aubrac   == Copy("aubrac", "aes_herbst", TRUE, TRUE)
cv32e40p == Copy("cv32e40p", "aes_herbst", FALSE, TRUE)
cortex_m3 == Copy("cortex_m3", "aes_herbst", FALSE, TRUE)
cortex_m4 == Copy("cortex_m4", "aes_herbst", FALSE, TRUE)
ibex_unsecure     == Copy("ibex", "aes_herbst_unsecure", FALSE, FALSE)
aubrac_unsecure   == Copy("aubrac", "aes_herbst_unsecure", FALSE, FALSE)
cv32e40p_unsecure == Copy("cv32e40p", "aes_herbst_unsecure", FALSE, FALSE)
cortex_m3_unsecure == Copy("cortex_m3", "aes_herbst_unsecure", FALSE, FALSE)
cortex_m4_unsecure == Copy("cortex_m4", "aes_herbst_unsecure", FALSE, FALSE)

Secure == {ibex, aubrac, cv32e40p, cortex_m3, cortex_m4}
Unsecure == {ibex_unsecure, aubrac_unsecure, cv32e40p_unsecure,
             cortex_m3_unsecure, cortex_m4_unsecure}

CONSTANT Copies   \* the copies that run

ASSUME CopiesAssumption == Copies \subseteq Secure \union Unsecure

VARIABLES
  prog,       \* the copy that runs
  pc,         \* the loop body it is about to run
  i,          \* word of the key schedule, 4 .. 44
  j,          \* byte of the current loop
  round,      \* round of the cipher
  key, round_key, mpt, temp, temp_sub, x, ciphered_text,   \* the memory, as in C
  sbox,       \* input |-> output of the S-box, for the inputs met so far
  sboxp_access,
  stored      \* the bytes the last step wrote to memory

memory == << key, round_key, mpt, temp, temp_sub, x, ciphered_text >>
vars == << prog, pc, i, j, round, memory, sbox, sboxp_access, stored >>

m     == Unknown("M", 0)
mt    == [r \in Row |-> Unknown("M", r + 1)]
mp    == Unknown("M", 5)

\* Mutant: the columns are mixed in the other order.
MixBackwards(r) ==
  [c \in Row |-> xtime(r[c]) ++ r[(c + 1) % 4] ++ r[(c + 2) % 4]
                   ++ xtime(r[(c + 3) % 4]) ++ r[(c + 3) % 4]]

mix_column(r) ==
  [c \in Row |-> xtime(r[c]) ++ r[(c + 3) % 4] ++ r[(c + 2) % 4]
                   ++ xtime(r[(c + 1) % 4]) ++ r[(c + 1) % 4]]

Column(c) == [r \in Row |-> x[r][c]]

-----------------------------------------------------------------------------
Init ==
  /\ prog \in Copies
  /\ pc = "masked_aes" /\ i = 4 /\ j = 0 /\ round = 0
  /\ key = [n \in 0 .. 15 |-> Unknown("S", n)]
  /\ round_key = [n \in 0 .. 175 |-> Zero]
  /\ mpt = [r \in Row |-> Zero]
  /\ temp = [r \in Row |-> Zero]
  /\ temp_sub = Zero
  /\ x = [r \in Row |-> [c \in Row |-> Zero]]
  /\ ciphered_text = [n \in 0 .. 15 |-> Zero]
  /\ sbox = [v \in {} |-> Zero] /\ sboxp_access = 0
  /\ stored = {}

Goto(here, next) == pc = here /\ pc' = next
Schedule == << prog, round, key, mpt, temp_sub, x, ciphered_text >>
Cipher == << prog, i, key, round_key, mpt, temp, ciphered_text >>

-----------------------------------------------------------------------------
(* masked_aes, up to the key schedule *)

masked_aes ==
  /\ Goto("masked_aes", "mask_plain_text")
  /\ mpt' = mix_column(mt)
  /\ x' = [r \in Row |-> [c \in Row |-> Unknown("P", r * 4 + c)]]
  /\ stored' = Range(mpt') \union UNION {Range(x'[r]) : r \in Row}
  /\ UNCHANGED << prog, i, j, round, key, round_key, temp, temp_sub, ciphered_text,
                  sbox, sboxp_access >>

mask_plain_text ==
  /\ Goto("mask_plain_text", "init_keys")
  /\ x' = [r \in Row |-> [c \in Row |-> x[r][c] ++ mpt[r]]]
  /\ stored' = UNION {Range(x'[r]) : r \in Row}
  /\ UNCHANGED << prog, i, j, round, key, round_key, mpt, temp, temp_sub, ciphered_text,
                  sbox, sboxp_access >>

\* The first round key; start_analysis follows.
init_masked_aes_keys ==
  /\ Goto("init_keys", "load")
  /\ round_key' = [n \in 0 .. 175 |-> IF n < 16 THEN key[n] ++ mpt[n % 4] ++ m
                                               ELSE round_key[n]]
  /\ key' = IF prog.clears THEN [n \in 0 .. 15 |-> Zero] ELSE key
  /\ stored' = {round_key'[n] : n \in 0 .. 15}
  /\ UNCHANGED << prog, i, j, round, mpt, temp, temp_sub, x, ciphered_text,
                  sbox, sboxp_access >>

-----------------------------------------------------------------------------
(* The hook on sboxp: SBoxPrime finds the index in temp or temp_sub by the  *)
(* number of the access, not by the address that is read.                   *)

\* Mutant: the key schedule taken for nine words only.
KeyAccessesShort == 36

KeyAccesses == 40
Hooked == IF sboxp_access < KeyAccesses THEN temp[sboxp_access % 4] ELSE temp_sub

SBoxPrime == SBox(sbox, Hooked ++ m) ++ mp

Access ==
  /\ sbox' = Consulted(sbox, Hooked ++ m)
  /\ sboxp_access' = sboxp_access + 1

-----------------------------------------------------------------------------
(* The key schedule, word i *)

LoadWord ==
  /\ Goto("load", IF i % 4 = 0 THEN "rotate" ELSE "store")
  /\ temp' = [r \in Row |-> round_key[(i - 1) * 4 + r]]
  /\ stored' = Range(temp')
  /\ UNCHANGED << Schedule, i, j, round_key, sbox, sboxp_access >>

RotateWord ==
  /\ Goto("rotate", "sub_word")
  /\ temp' = [r \in Row |-> temp[(r + 1) % 4] ++ mpt[(r + 1) % 4]]
  /\ j' = 0
  /\ stored' = Range(temp')
  /\ UNCHANGED << Schedule, i, round_key, sbox, sboxp_access >>

SubWord ==
  /\ Goto("sub_word", IF j < 3 THEN "sub_word" ELSE "rcon")
  /\ Access
  /\ temp' = [temp EXCEPT ![j] = SBoxPrime]
  /\ j' = (j + 1) % 4
  /\ stored' = {SBoxPrime}
  /\ UNCHANGED << Schedule, i, round_key >>

AddRcon ==
  /\ Goto("rcon", "store")
  /\ temp' = [temp EXCEPT ![0] = @ ++ rcon[i \div 4 - 1]]
  /\ stored' = {temp'[0]}
  /\ UNCHANGED << Schedule, i, j, round_key, sbox, sboxp_access >>

\* The volatile halves of byte r of word i, whose sum is the byte without the
\* mask that remains to be changed, and that change.
Halves(r) ==
  LET old == round_key[(i - 4) * 4 + r]
  IN  IF i < 40 /\ i % 4 # 0 THEN << old ++ m, temp[r] ++ mpt[r] >>
                             ELSE << old ++ temp[r] >>
\* Mutant: word 40 remasked as the words of the rounds 1 to 9.
RemaskLate(r) ==
  CASE i <= 40 /\ i % 4 = 0 -> mp
    [] i < 40 /\ i % 4 # 0 -> Zero
    [] i > 40 -> m ++ mpt[r]

Remask(r) ==
  CASE i < 40 /\ i % 4 = 0 -> mp
    [] i < 40 /\ i % 4 # 0 -> Zero
    [] i >= 40 -> m ++ mpt[r]
NewByte(r) == Remask(r) ++ Halves(r)[1] ++ IF Len(Halves(r)) = 2 THEN Halves(r)[2] ELSE Zero

StoreWord ==
  /\ Goto("store", IF i < 43 THEN "load" ELSE "add_round_key")
  /\ round_key' = [n \in 0 .. 175 |-> IF n \div 4 = i THEN NewByte(n % 4) ELSE round_key[n]]
  /\ i' = i + 1
  /\ stored' = {NewByte(r) : r \in Row}
                 \union (IF prog.stepwise THEN UNION {Range(Halves(r)) : r \in Row} ELSE {})
  /\ UNCHANGED << Schedule, j, temp, sbox, sboxp_access >>

-----------------------------------------------------------------------------
(* The rounds *)

add_round_key ==
  /\ Goto("add_round_key", IF round < 10 THEN "index" ELSE "output")
  /\ x' = [r \in Row |-> [c \in Row |-> x[r][c] ++ round_key[round * 16 + c * 4 + r]]]
  /\ j' = 0
  /\ stored' = UNION {Range(x'[r]) : r \in Row}
  /\ UNCHANGED << Cipher, round, temp_sub, sbox, sboxp_access >>

\* masked_sub_bytes: temp_sub is written before the table is read.
IndexByte ==
  /\ Goto("index", "lookup")
  /\ temp_sub' = x[j \div 4][j % 4]
  /\ stored' = {temp_sub'}
  /\ UNCHANGED << Cipher, j, round, x, sbox, sboxp_access >>

LookupByte ==
  /\ Goto("lookup", IF j < 15 THEN "index" ELSE "shift_rows")
  /\ Access
  /\ x' = [x EXCEPT ![j \div 4][j % 4] = SBoxPrime]
  /\ j' = (j + 1) % 16
  /\ stored' = {SBoxPrime}
  /\ UNCHANGED << Cipher, round, temp_sub >>

Shifted == [r \in Row |-> [c \in Row |-> x[r][(c + r) % 4]]]

\* The last round has no change of masks: end_analysis follows it.
shift_rows ==
  /\ Goto("shift_rows", IF round < 9 THEN "change_masks" ELSE "add_round_key")
  /\ x' = Shifted
  /\ round' = IF round < 9 THEN round ELSE 10
  /\ stored' = UNION {Range(x'[r]) : r \in 1 .. 3}
  /\ UNCHANGED << Cipher, j, temp_sub, sbox, sboxp_access >>

\* Mutant: the old mask is removed first.
MaskChangesSwapped(r) == << mp, mt[r] >>

\* The masks that are added to row r, in this order: the new one before the
\* old one is removed.
MaskChanges(r) == << mt[r], mp >>

change_masks ==
  /\ Goto("change_masks", "mix_columns")
  /\ x' = [r \in Row |-> [c \in Row |-> x[r][c] ++ MaskChanges(r)[1] ++ MaskChanges(r)[2]]]
  /\ stored' = (UNION {Range(x'[r]) : r \in Row})
                 \union (IF prog.stepwise THEN {x[r][c] ++ MaskChanges(r)[1] : r \in Row, c \in Row} ELSE {})
  /\ UNCHANGED << Cipher, j, round, temp_sub, sbox, sboxp_access >>

mix_columns ==
  /\ Goto("mix_columns", "add_round_key")
  /\ x' = [r \in Row |-> [c \in Row |-> mix_column(Column(c))[r]]]
  /\ round' = round + 1
  /\ stored' = UNION {Range(x'[r]) : r \in Row}
  /\ UNCHANGED << Cipher, j, temp_sub, sbox, sboxp_access >>

Output ==
  /\ Goto("output", "done")
  /\ ciphered_text' = [n \in 0 .. 15 |-> x[n % 4][n \div 4]]
  /\ stored' = Range(ciphered_text')
  /\ UNCHANGED << prog, i, j, round, key, round_key, mpt, temp, temp_sub, x,
                  sbox, sboxp_access >>

Next ==
  \/ masked_aes \/ mask_plain_text \/ init_masked_aes_keys
  \/ LoadWord \/ RotateWord \/ SubWord \/ AddRcon \/ StoreWord
  \/ add_round_key \/ IndexByte \/ LookupByte \/ shift_rows
  \/ change_masks \/ mix_columns \/ Output

Spec == Init /\ [][Next]_vars

-----------------------------------------------------------------------------
(* Properties *)

MaskOf(v) == {t \in v : t[1] = "M"}
OfSecret(v) == \E t \in v : t[1] \in {"S", "B"}

Labels == {"masked_aes", "mask_plain_text", "init_keys", "load", "rotate", "sub_word", "rcon",
           "store", "add_round_key", "index", "lookup", "shift_rows", "change_masks",
           "mix_columns", "output", "done"}
Byte == SUBSET ({"M", "S", "P", "R", "B"} \X (0 .. 199) \X {0, 1})
State == UNION {Range(x[r]) : r \in Row}
Cells == Range(round_key) \union Range(mpt) \union Range(temp) \union {temp_sub}
           \union State \union Range(ciphered_text)

\* Every byte of the memory is a sum of unknowns multiplied by 1 or by x, the
\* counters stay within the loops of the program, and each lookup met the
\* table at most once more.
TypeOK ==
  /\ prog \in Copies /\ pc \in Labels
  /\ i \in 4 .. 44 /\ j \in 0 .. 15 /\ round \in 0 .. 10
  /\ sboxp_access \in 0 .. 200
  /\ Cardinality(DOMAIN sbox) <= sboxp_access
  /\ \A v \in Cells \union Range(key) \union stored : v \in Byte

\* The part of the run between start_analysis and end_analysis.
Measured == pc \in Labels \ {"masked_aes", "mask_plain_text", "init_keys", "output", "done"}

\* What the simulator is used to verify: in the measured part of the program,
\* neither the memory nor any byte that is written to it, the volatile halves
\* included, depends on the key without depending on a mask.  A nonzero sum of
\* multiples of independent masks is uniform.  The key itself is in memory in
\* the programs that do not "Clear from memory after use".
Masked ==
  Measured => \A v \in Cells \union stored \union (IF prog.clears THEN Range(key) ELSE {}) :
                OfSecret(v) => MaskOf(v) # Zero

\* The hook answers for the byte the program reads: the address it ignores is
\* that of the index it picks, and the S-box is never given a masked byte.
HookExact ==
  /\ pc = "sub_word" => Hooked = temp[j]
  /\ pc = "lookup" => Hooked = x[j \div 4][j % 4]
  /\ \A v \in DOMAIN sbox : MaskOf(v) = Zero

\* The mask a round key is left under, and the round key without it
KeyMask(n) == IF n < 160 THEN m ++ mpt[n % 4] ELSE mp
KeyByte(n) ==
  IF n >= 4 * i THEN Zero
  ELSE IF pc \in {"masked_aes", "mask_plain_text", "init_keys"} THEN key[n] ELSE round_key[n] ++ KeyMask(n)

\* Byte n of the key schedule of FIPS 197, from the bytes before it
RefKey(n) ==
  IF n < 16 THEN Unknown("S", n)
  ELSE KeyByte(n - 16) ++
         IF (n \div 4) % 4 # 0 THEN KeyByte(n - 4)
         ELSE SBox(sbox, KeyByte(4 * (n \div 4 - 1) + ((n + 1) % 4)))
                ++ IF n % 4 = 0 THEN rcon[n \div 16 - 1] ELSE Zero

\* The masked key schedule computes the round keys, under the masks its comments
\* document: M and Mj' for the rounds 0 to 9, M' for the last one.
KeysExact == \A n \in 0 .. 175 : n < 4 * i => KeyByte(n) = RefKey(n)

\* The mask of each byte of the state between two operations, and the byte
\* without it
StateMask(r, c) ==
  CASE pc = "mask_plain_text" -> Zero
    [] pc \in {"init_keys", "load", "rotate", "sub_word", "rcon", "store"} -> mpt[r]
    [] pc = "add_round_key" -> IF round < 10 THEN mpt[r] ELSE mp
    [] pc \in {"index", "lookup"} -> IF r * 4 + c < j THEN mp ELSE m
    [] pc \in {"shift_rows", "change_masks"} -> mp
    [] pc = "mix_columns" -> mt[r]
    [] OTHER -> Zero
StateByte(r, c) ==
  IF pc = "masked_aes" THEN Unknown("P", r * 4 + c) ELSE x[r][c] ++ StateMask(r, c)
Stage ==
  CASE pc \in {"index", "lookup"} -> "sub" [] pc = "shift_rows" -> "shift"
    [] pc \in {"change_masks", "mix_columns"} -> "mix"
    [] pc = "output" -> "out" [] pc = "done" -> "done" [] OTHER -> "add"

Plain == INSTANCE Aes WITH
  w <- [n \in 0 .. 175 |-> KeyByte(n)], words <- i,
  s <- [r \in Row |-> [c \in Row |-> StateByte(r, c)]],
  stage <- Stage, j <- IF Stage = "sub" THEN j ELSE 0, out <- ciphered_text

\* Under its masks every one of the programs computes AES step by step: what
\* remains of a byte without the mask its place documents is the byte of AES,
\* after every word of the key schedule, every substitution of a byte and
\* every operation of a round, and a change of masks changes nothing.
ComputesAes == Plain!Spec
=============================================================================
