--------------------------- MODULE MaskedAesProofs ---------------------------
(***************************************************************************)
(* For any of the ten copies: in the measured part no byte of the memory,  *)
(* nor any that is written to it, depends on the key without depending on  *)
(* a mask; the hook answers for the byte that is read; and every step is a *)
(* step of AES on the bytes without their masks.                           *)
(***************************************************************************)
EXTENDS MaskedAes, TLAPS

-----------------------------------------------------------------------------
(* Sums of bytes *)

LEMMA InSum == ASSUME NEW u, NEW v, NEW t PROVE t \in u ++ v <=> ~(t \in u <=> t \in v)
  BY DEF ++

LEMMA SumCommutes == ASSUME NEW u, NEW v PROVE u ++ v = v ++ u
  BY DEF ++

LEMMA SumAssociates == ASSUME NEW u, NEW v, NEW y PROVE (u ++ v) ++ y = u ++ (v ++ y)
  BY DEF ++

LEMMA SumCancels ==
  ASSUME NEW u, NEW v PROVE (u ++ v) ++ v = u /\ u ++ Zero = u /\ Zero ++ u = u /\ u ++ u = Zero
  BY DEF ++, Zero

\* A sum of terms, and one without a mask
Proper(v) == \A t \in v : t = << t[1], t[2], t[3] >> /\ t[3] \in Nat
Bare(v) == Proper(v) /\ \A t \in v : t[1] # "M"
\* A sum of masks
OnlyMasks(v) == Proper(v) /\ \A t \in v : t[1] = "M"
Hidden(v) == OfSecret(v) => MaskOf(v) # Zero

LEMMA BareSum == ASSUME NEW u, NEW v, Bare(u), Bare(v) PROVE Bare(u ++ v)
  BY DEF Bare, Proper, ++

LEMMA MasksSum == ASSUME NEW u, NEW v, OnlyMasks(u), OnlyMasks(v) PROVE OnlyMasks(u ++ v)
  BY DEF OnlyMasks, Proper, ++

LEMMA BareXtime == ASSUME NEW u, Bare(u) PROVE Bare(xtime(u))
  BY DEF Bare, Proper, xtime

LEMMA BareUnknown == ASSUME NEW kind, NEW n, kind # "M" PROVE Bare(Unknown(kind, n))
  BY DEF Bare, Proper, Unknown

LEMMA BareZero == Bare(Zero)
  BY DEF Bare, Proper, Zero

\* Multiplication by x is linear.
LEMMA XtimeSum ==
  ASSUME NEW u, NEW v, Proper(u), Proper(v) PROVE xtime(u ++ v) = xtime(u) ++ xtime(v)
  <1> DEFINE up(t) == << t[1], t[2], t[3] + 1 >>
  <1>1. ASSUME NEW t \in u \union v, NEW y \in u \union v, up(t) = up(y) PROVE t = y
    <2>1. t = << t[1], t[2], t[3] >> /\ y = << y[1], y[2], y[3] >> /\ t[3] \in Nat /\ y[3] \in Nat
      BY DEF Proper
    <2>2. t[1] = y[1] /\ t[2] = y[2] /\ t[3] + 1 = y[3] + 1
      BY <1>1
    <2> QED BY <2>1, <2>2
  <1> HIDE DEF up
  <1>2. {up(t) : t \in u ++ v} = {up(t) : t \in u} ++ {up(t) : t \in v}
    BY <1>1 DEF ++
  <1> QED BY <1>2 DEF up, xtime

LEMMA MaskOfMasked ==
  ASSUME NEW u, NEW k, Bare(u), OnlyMasks(k) PROVE MaskOf(u ++ k) = k
  BY DEF MaskOf, Bare, OnlyMasks, ++

\* A bare byte under a mask is hidden.
LEMMA HiddenUnder ==
  ASSUME NEW u, NEW k, Bare(u), OnlyMasks(k), k # {} PROVE Hidden(u ++ k)
  BY MaskOfMasked DEF Hidden, Zero

LEMMA HiddenMask == ASSUME NEW k, OnlyMasks(k) PROVE Hidden(k)
  BY DEF Hidden, OnlyMasks, OfSecret, MaskOf

LEMMA HiddenZero == Hidden(Zero)
  BY DEF Hidden, OfSecret, Zero

-----------------------------------------------------------------------------
(* The masks *)

RowMask(r) == mix_column(mt)[r]

LEMMA MaskTerms ==
  /\ OnlyMasks(m) /\ OnlyMasks(mp) /\ \A r \in Row : OnlyMasks(mt[r])
  /\ << "M", 0, 0 >> \in m /\ << "M", 5, 0 >> \in mp /\ << "M", 0, 0 >> \notin mp
  /\ << "M", 5, 0 >> \notin m
  /\ \A r \in Row : /\ << "M", r + 1, 0 >> \in mt[r]
                    /\ << "M", 0, 0 >> \notin mt[r] /\ << "M", 5, 0 >> \notin mt[r]
                    /\ \A t \in mt[r] : t[3] = 0
  <1>1. m = {<< "M", 0, 0 >>} /\ mp = {<< "M", 5, 0 >>} /\ \A r \in Row : mt[r] = {<< "M", r + 1, 0 >>}
    BY DEF m, mp, mt, Unknown
  <1> QED BY <1>1 DEF OnlyMasks, Proper, Row

\* The mask of a row: M'r = xtime(Mr) + ...
LEMMA RowMasks ==
  ASSUME NEW r \in Row
  PROVE  /\ OnlyMasks(RowMask(r)) /\ << "M", r + 1, 1 >> \in RowMask(r)
         /\ << "M", 0, 0 >> \notin RowMask(r) /\ << "M", 5, 0 >> \notin RowMask(r)
  <1>1. mt = [c \in Row |-> {<< "M", c + 1, 0 >>}]
    BY DEF mt, Unknown
  <1>2. \A c \in Row : xtime(mt[c]) = {<< "M", c + 1, 1 >>}
    BY <1>1 DEF xtime
  <1>3. (r + 1) % 4 \in Row /\ (r + 2) % 4 \in Row /\ (r + 3) % 4 \in Row /\ (r + 1) % 4 # r
    BY DEF Row
  <1>4. RowMask(r) = {<< "M", r + 1, 1 >>} ++ {<< "M", ((r + 3) % 4) + 1, 0 >>} ++ {<< "M", ((r + 2) % 4) + 1, 0 >>}
                       ++ {<< "M", ((r + 1) % 4) + 1, 1 >>} ++ {<< "M", ((r + 1) % 4) + 1, 0 >>}
    BY <1>1, <1>2, <1>3 DEF RowMask, mix_column
  <1> DEFINE a1 == << "M", r + 1, 1 >>
             a2 == << "M", ((r + 3) % 4) + 1, 0 >>
             a3 == << "M", ((r + 2) % 4) + 1, 0 >>
             a4 == << "M", ((r + 1) % 4) + 1, 1 >>
             a5 == << "M", ((r + 1) % 4) + 1, 0 >>
             z == << "M", 0, 0 >>
             f == << "M", 5, 0 >>
  <1>5. /\ a1 # a2 /\ a1 # a3 /\ a1 # a4 /\ a1 # a5
        /\ z # a1 /\ z # a2 /\ z # a3 /\ z # a4 /\ z # a5
        /\ f # a1 /\ f # a2 /\ f # a3 /\ f # a4 /\ f # a5
    BY <1>3 DEF Row
  <1>6. OnlyMasks({a1}) /\ OnlyMasks({a2}) /\ OnlyMasks({a3}) /\ OnlyMasks({a4}) /\ OnlyMasks({a5})
    BY DEF OnlyMasks, Proper
  <1> HIDE DEF a1, a2, a3, a4, a5, z, f
  <1>7. RowMask(r) = {a1} ++ {a2} ++ {a3} ++ {a4} ++ {a5}
    BY <1>4 DEF a1, a2, a3, a4, a5
  <1>8. OnlyMasks(RowMask(r))
    BY <1>6, <1>7, MasksSum
  <1>9. a1 \in RowMask(r) /\ z \notin RowMask(r) /\ f \notin RowMask(r)
    BY <1>5, <1>7, InSum
  <1> QED BY <1>8, <1>9 DEF a1, z, f

\* Every sum of masks a byte is left under is one.
LEMMA MasksHide ==
  ASSUME NEW r \in Row
  PROVE  \A k \in {m, mp, mt[r], RowMask(r), m ++ RowMask(r), mt[r] ++ mp, mp ++ mt[r],
                   (m ++ RowMask(r)) ++ mp} :
           OnlyMasks(k) /\ k # {}
  <1>1. OnlyMasks(m) /\ OnlyMasks(mp) /\ OnlyMasks(mt[r]) /\ OnlyMasks(RowMask(r))
    BY MaskTerms, RowMasks
  <1>2. /\ << "M", 0, 0 >> \in m /\ << "M", 5, 0 >> \in mp /\ << "M", 0, 0 >> \notin mp
        /\ << "M", 0, 0 >> \notin RowMask(r) /\ << "M", 5, 0 >> \notin mt[r]
        /\ mt[r] # {} /\ RowMask(r) # {}
    BY MaskTerms, RowMasks
  <1>3. /\ << "M", 0, 0 >> \in m ++ RowMask(r) /\ << "M", 5, 0 >> \in mt[r] ++ mp
        /\ << "M", 5, 0 >> \in mp ++ mt[r] /\ << "M", 0, 0 >> \in (m ++ RowMask(r)) ++ mp
    BY <1>2, InSum
  <1> QED BY <1>1, <1>2, <1>3, MasksSum

-----------------------------------------------------------------------------
(* What the memory holds *)

Early == {"masked_aes", "mask_plain_text", "init_keys"}
Words == {"load", "rotate", "sub_word", "rcon", "store"}
Rounds == {"add_round_key", "index", "lookup", "shift_rows", "change_masks", "mix_columns",
           "output", "done"}

\* Where the program is tells how many words it has and how often it has read
\* the table.
Counters ==
  /\ prog \in Copies /\ pc \in Early \union Words \union Rounds
  /\ i \in 4 .. 44 /\ j \in 0 .. 15 /\ round \in 0 .. 10 /\ sboxp_access \in Nat
  /\ pc \in Early => i = 4 /\ round = 0 /\ sboxp_access = 0
  /\ pc \in Words => i <= 43 /\ round = 0
  /\ pc \in {"rotate", "sub_word", "rcon"} => i % 4 = 0
  /\ pc \in {"load", "rotate"} => sboxp_access = 4 * ((i - 1) \div 4)
  /\ pc = "sub_word" => j <= 3 /\ sboxp_access = i - 4 + j
  /\ pc \in {"rcon", "store"} => sboxp_access = 4 * (i \div 4)
  /\ pc \in Rounds => i = 44 /\ sboxp_access >= 40
  /\ pc \in {"index", "lookup", "shift_rows"} => round <= 9
  /\ pc \in {"change_masks", "mix_columns"} => round <= 8

Shapes ==
  /\ key = [n \in 0 .. 15 |-> key[n]] /\ round_key = [n \in 0 .. 175 |-> round_key[n]]
  /\ temp = [r \in Row |-> temp[r]] /\ x = [r \in Row |-> [c \in Row |-> x[r][c]]]
  /\ pc # "masked_aes" => mpt = mix_column(mt)

\* The bytes of AES have no mask, and what is not written yet is zero.
Bytes ==
  /\ \A n \in 0 .. 175 : Bare(KeyByte(n))
  /\ \A r \in Row, c \in Row : Bare(StateByte(r, c))
  /\ \A v \in DOMAIN sbox : Bare(v) /\ Bare(sbox[v])
  /\ \A n \in 0 .. 175 : n >= 4 * i => round_key[n] = Zero
  /\ pc \notin Early /\ prog.clears => \A n \in 0 .. 15 : key[n] = Zero
  /\ pc # "done" => ciphered_text = [n \in 0 .. 15 |-> Zero]
  /\ pc = "lookup" => temp_sub = x[j \div 4][j % 4]

\* Byte r of the last word, the next one rotated and substituted, and what is
\* added to the word four before
Word(r) == KeyByte(4 * (i - 1) + r)
Rotated(r) == Word((r + 1) % 4)
AddedByte(r) ==
  IF i % 4 # 0 THEN Word(r) ELSE sbox[Rotated(r)] ++ IF r = 0 THEN rcon[i \div 4 - 1] ELSE Zero
AddedMask(r) == IF i % 4 # 0 THEN KeyMask(4 * (i - 1) + r) ELSE mp

\* The word the schedule works on, under its masks
Temp ==
  /\ pc = "rotate" => \A r \in Row : temp[r] = Word(r) ++ (m ++ RowMask(r))
  /\ pc = "sub_word" => \A r \in Row :
       IF r < j THEN Met(sbox, Rotated(r)) /\ temp[r] = sbox[Rotated(r)] ++ mp
       ELSE temp[r] = Rotated(r) ++ m
  /\ pc = "rcon" => \A r \in Row : Met(sbox, Rotated(r)) /\ temp[r] = sbox[Rotated(r)] ++ mp
  /\ pc = "store" => \A r \in Row :
       /\ i % 4 = 0 => Met(sbox, Rotated(r))
       /\ temp[r] = AddedByte(r) ++ AddedMask(r)

Covering ==
  /\ \A r \in Row : Hidden(temp[r])
  /\ Hidden(temp_sub)
  /\ Measured => \A v \in stored : Hidden(v)

MaskInv == Counters /\ Shapes /\ Bytes /\ Temp /\ Covering

LEMMA MaskInit == Init => MaskInv
  <1> SUFFICES ASSUME Init PROVE MaskInv
    OBVIOUS
  <1>1. Counters /\ Shapes /\ Temp
    BY DEF Init, Counters, Shapes, Temp, Early, Words, Rounds
  <1>2. pc = "masked_aes" /\ i = 4 /\ key = [n \in 0 .. 15 |-> Unknown("S", n)]
    BY DEF Init
  <1>3. \A n \in 0 .. 175 : Bare(KeyByte(n))
    BY <1>2, BareUnknown, BareZero DEF KeyByte
  <1>4. \A r \in Row, c \in Row : Bare(StateByte(r, c))
    BY <1>2, BareUnknown DEF StateByte
  <1>5. Bytes
    BY <1>2, <1>3, <1>4 DEF Init, Bytes, Early
  <1>6. Covering
    BY <1>2, HiddenZero DEF Init, Covering, Measured
  <1> QED BY <1>1, <1>5, <1>6 DEF MaskInv

\* What is in memory is the byte of AES under the mask of its place.
LEMMA Unmask ==
  ASSUME MaskInv
  PROVE  /\ pc # "masked_aes" => \A r \in Row : mpt[r] = RowMask(r)
         /\ pc \notin Early => \A n \in 0 .. 175 : n < 4 * i =>
              /\ round_key[n] = KeyByte(n) ++ KeyMask(n)
              /\ KeyMask(n) = (IF n < 160 THEN m ++ RowMask(n % 4) ELSE mp)
              /\ OnlyMasks(KeyMask(n)) /\ KeyMask(n) # {} /\ Hidden(round_key[n])
         /\ pc # "masked_aes" => \A r \in Row, c \in Row : x[r][c] = StateByte(r, c) ++ StateMask(r, c)
         /\ Measured => \A r \in Row, c \in Row :
              OnlyMasks(StateMask(r, c)) /\ StateMask(r, c) # {} /\ Hidden(x[r][c])
  <1>1. ASSUME pc # "masked_aes", NEW r \in Row PROVE mpt[r] = RowMask(r)
    BY <1>1 DEF MaskInv, Shapes, RowMask
  <1>2. ASSUME pc \notin Early, NEW n \in 0 .. 175, n < 4 * i
        PROVE  /\ round_key[n] = KeyByte(n) ++ KeyMask(n)
               /\ KeyMask(n) = (IF n < 160 THEN m ++ RowMask(n % 4) ELSE mp)
               /\ OnlyMasks(KeyMask(n)) /\ KeyMask(n) # {} /\ Hidden(round_key[n])
    <2>1. i \in 4 .. 44 /\ ~(n >= 4 * i)
      BY <1>2 DEF MaskInv, Counters
    <2>2. KeyByte(n) = round_key[n] ++ KeyMask(n)
      BY <1>2, <2>1 DEF KeyByte, Early
    <2>3. n % 4 \in Row /\ pc # "masked_aes"
      BY <1>2 DEF Row, Early
    <2>4. KeyMask(n) = (IF n < 160 THEN m ++ RowMask(n % 4) ELSE mp)
      BY <1>1, <2>3 DEF KeyMask
    <2>5. OnlyMasks(KeyMask(n)) /\ KeyMask(n) # {}
      BY <2>3, <2>4, MasksHide
    <2>6. Bare(KeyByte(n))
      BY DEF MaskInv, Bytes
    <2>7. round_key[n] = KeyByte(n) ++ KeyMask(n)
      BY <2>2, SumCancels
    <2> QED BY <2>4, <2>5, <2>6, <2>7, HiddenUnder
  <1>3. ASSUME pc # "masked_aes", NEW r \in Row, NEW c \in Row
        PROVE  x[r][c] = StateByte(r, c) ++ StateMask(r, c)
    BY <1>3, SumCancels DEF StateByte
  <1>4. ASSUME Measured, NEW r \in Row, NEW c \in Row
        PROVE  OnlyMasks(StateMask(r, c)) /\ StateMask(r, c) # {} /\ Hidden(x[r][c])
    <2>1. pc # "masked_aes" /\ mpt[r] = RowMask(r)
      BY <1>1, <1>4 DEF Measured
    <2>2. StateMask(r, c) \in {RowMask(r), mp, m, mt[r]}
      BY <1>4, <2>1 DEF StateMask, Measured, Labels
    <2>3. OnlyMasks(StateMask(r, c)) /\ StateMask(r, c) # {}
      BY <2>2, MasksHide
    <2>4. Bare(StateByte(r, c))
      BY DEF MaskInv, Bytes
    <2> QED BY <1>3, <2>1, <2>3, <2>4, HiddenUnder
  <1> QED BY <1>1, <1>2, <1>3, <1>4

LEMMA InvMasked == MaskInv => Masked
  <1> SUFFICES ASSUME MaskInv, Measured,
                      NEW v \in Cells \union stored \union (IF prog.clears THEN Range(key) ELSE {})
               PROVE  Hidden(v)
    BY DEF Masked, Hidden
  <1>1. pc \notin Early /\ pc # "done" /\ pc # "masked_aes"
    BY DEF Measured, Early
  <1>2. CASE v \in Range(round_key)
    <2>1. PICK n \in 0 .. 175 : v = round_key[n]
      BY <1>2 DEF Range, MaskInv, Shapes
    <2>2. i \in 4 .. 44
      BY DEF MaskInv, Counters
    <2>3. CASE n < 4 * i
      BY <1>1, <2>1, <2>3, Unmask
    <2>4. CASE n >= 4 * i
      BY <2>1, <2>4, HiddenZero DEF MaskInv, Bytes
    <2> QED BY <2>2, <2>3, <2>4
  <1>3. CASE v \in Range(mpt)
    <2>1. PICK r \in Row : v = RowMask(r)
      <3>1. mpt = mix_column(mt) /\ DOMAIN mpt = Row
        BY <1>1 DEF MaskInv, Shapes, mix_column
      <3> QED BY <1>3, <3>1 DEF Range, RowMask
    <2> QED BY <2>1, RowMasks, HiddenMask
  <1>4. CASE v \in Range(temp) \union {temp_sub} \union stored
    <2>1. DOMAIN temp = Row
      BY DEF MaskInv, Shapes
    <2> QED BY <1>4, <2>1 DEF Range, MaskInv, Covering
  <1>5. CASE v \in State
    <2>1. PICK r \in Row, c \in Row : v = x[r][c]
      <3>1. PICK r \in Row : v \in Range(x[r])
        BY <1>5 DEF State
      <3>2. DOMAIN (x[r]) = Row
        BY DEF MaskInv, Shapes
      <3> QED BY <3>1, <3>2 DEF Range
    <2> QED BY <2>1, Unmask
  <1>6. CASE v \in Range(ciphered_text)
    <2>1. ciphered_text = [n \in 0 .. 15 |-> Zero]
      BY <1>1 DEF MaskInv, Bytes
    <2> QED BY <1>6, <2>1, HiddenZero DEF Range
  <1>7. CASE prog.clears /\ v \in Range(key)
    <2>1. (\A n \in 0 .. 15 : key[n] = Zero) /\ DOMAIN key = 0 .. 15
      BY <1>1, <1>7 DEF MaskInv, Bytes, Shapes
    <2> QED BY <1>7, <2>1, HiddenZero DEF Range
  <1> QED BY <1>2, <1>3, <1>4, <1>5, <1>6, <1>7 DEF Cells

LEMMA InvHook == MaskInv => HookExact
  <1> SUFFICES ASSUME MaskInv PROVE HookExact
    OBVIOUS
  <1>1. ASSUME pc = "sub_word" PROVE Hooked = temp[j]
    <2>1. i \in 4 .. 43 /\ i % 4 = 0 /\ j \in 0 .. 3 /\ sboxp_access = i - 4 + j
      BY <1>1 DEF MaskInv, Counters, Words
    <2>2. sboxp_access < 40 /\ sboxp_access % 4 = j
      BY <2>1
    <2> QED BY <2>2 DEF Hooked, KeyAccesses
  <1>2. ASSUME pc = "lookup" PROVE Hooked = x[j \div 4][j % 4]
    <2>1. ~(sboxp_access < 40) /\ temp_sub = x[j \div 4][j % 4]
      BY <1>2 DEF MaskInv, Counters, Bytes, Rounds
    <2> QED BY <2>1 DEF Hooked, KeyAccesses
  <1>3. ASSUME NEW v \in DOMAIN sbox PROVE MaskOf(v) = Zero
    BY DEF MaskInv, Bytes, Bare, MaskOf, Zero
  <1> QED BY <1>1, <1>2, <1>3 DEF HookExact

-----------------------------------------------------------------------------
(* The steps that leave the bytes of AES alone *)

LEMMA KeysKept ==
  ASSUME UNCHANGED << i, key, round_key, mpt >>, pc \in Early <=> pc' \in Early
  PROVE  \A n : KeyByte(n)' = KeyByte(n) /\ KeyMask(n)' = KeyMask(n)
  BY DEF KeyByte, KeyMask, Early

\* The steps of the key schedule
InKeys == pc \in {"init_keys"} \union Words \/ (pc = "add_round_key" /\ round < 10)

LEMMA StateKept ==
  ASSUME UNCHANGED << x, mpt, round >>, InKeys, InKeys'
  PROVE  \A r, c : StateByte(r, c)' = StateByte(r, c)
  <1>1. ASSUME NEW r, NEW c PROVE StateMask(r, c) = mpt[r] /\ StateMask(r, c)' = mpt[r]
    BY DEF InKeys, Words, StateMask
  <1>2. pc # "masked_aes" /\ pc' # "masked_aes"
    BY DEF InKeys, Words
  <1> QED BY <1>1, <1>2 DEF StateByte

SameBytes ==
  /\ \A n \in 0 .. 175 : KeyByte(n)' = KeyByte(n)
  /\ \A r \in Row, c \in Row : StateByte(r, c)' = StateByte(r, c)

LEMMA BytesKept ==
  ASSUME MaskInv, SameBytes, UNCHANGED << prog, i, key, round_key, ciphered_text, sbox >>,
         pc' \notin {"lookup", "done"}, pc # "done", pc \in Early => pc' \in Early
  PROVE  Bytes'
  <1>1. Bytes
    BY DEF MaskInv
  <1>2. /\ \A n \in 0 .. 175 : Bare(KeyByte(n)')
        /\ \A r \in Row, c \in Row : Bare(StateByte(r, c)')
    BY <1>1 DEF SameBytes, Bytes
  <1> QED BY <1>1, <1>2 DEF Bytes, Bare, Proper

LEMMA Stutters ==
  ASSUME SameBytes, UNCHANGED << i, round, ciphered_text, sbox, Stage >>, Stage = "sub" => UNCHANGED j
  PROVE  UNCHANGED Plain!vars
  <1>1. [n \in 0 .. 175 |-> KeyByte(n)]' = [n \in 0 .. 175 |-> KeyByte(n)]
    BY DEF SameBytes
  <1>2. [r \in Row |-> [c \in Row |-> StateByte(r, c)]]' = [r \in Row |-> [c \in Row |-> StateByte(r, c)]]
    BY DEF SameBytes
  <1> QED BY <1>1, <1>2 DEF Plain!vars, Plain!key, Plain!state

LEMMA StepMaskedAes == ASSUME MaskInv, masked_aes PROVE MaskInv' /\ UNCHANGED Plain!vars
  <1>1. /\ pc = "masked_aes" /\ pc' = "mask_plain_text" /\ mpt' = mix_column(mt)
        /\ x' = [r \in Row |-> [c \in Row |-> Unknown("P", r * 4 + c)]]
        /\ UNCHANGED << prog, i, j, round, key, round_key, temp, temp_sub, ciphered_text, sbox, sboxp_access >>
    BY DEF masked_aes, Goto
  <1>2. i = 4 /\ Counters /\ Shapes /\ Covering
    BY <1>1 DEF MaskInv, Counters, Early
  <1>3. SameBytes
    <2>1. \A n \in 0 .. 175 : KeyByte(n)' = KeyByte(n)
      BY <1>1 DEF KeyByte
    <2>2. ASSUME NEW r \in Row, NEW c \in Row PROVE StateByte(r, c)' = StateByte(r, c)
      <3>1. StateMask(r, c)' = Zero /\ x'[r][c] = Unknown("P", r * 4 + c)
        BY <1>1 DEF StateMask
      <3> QED BY <1>1, <3>1, SumCancels DEF StateByte
    <2> QED BY <2>1, <2>2 DEF SameBytes
  <1>4. Bytes'
    BY <1>1, <1>3, BytesKept DEF Early
  <1>5. Stage' = "add" /\ Stage = "add"
    BY <1>1 DEF Stage
  <1>6. Counters' /\ Shapes' /\ Temp' /\ Covering'
    BY <1>1, <1>2 DEF Counters, Shapes, Temp, Covering, Early, Words, Rounds, Measured, Hidden, MaskOf, OfSecret, Zero
  <1> QED BY <1>1, <1>3, <1>4, <1>5, <1>6, Stutters DEF MaskInv

LEMMA StepMaskPlainText == ASSUME MaskInv, mask_plain_text PROVE MaskInv' /\ UNCHANGED Plain!vars
  <1>1. /\ pc = "mask_plain_text" /\ pc' = "init_keys"
        /\ x' = [r \in Row |-> [c \in Row |-> x[r][c] ++ mpt[r]]]
        /\ UNCHANGED << prog, i, j, round, key, round_key, mpt, temp, temp_sub, ciphered_text, sbox, sboxp_access >>
    BY DEF mask_plain_text, Goto
  <1>2. Counters /\ Shapes /\ Covering
    BY DEF MaskInv
  <1>3. SameBytes
    <2>1. \A n \in 0 .. 175 : KeyByte(n)' = KeyByte(n)
      BY <1>1, KeysKept DEF Early
    <2>2. ASSUME NEW r \in Row, NEW c \in Row PROVE StateByte(r, c)' = StateByte(r, c)
      <3>1. StateMask(r, c)' = mpt[r] /\ x'[r][c] = x[r][c] ++ mpt[r] /\ StateMask(r, c) = Zero
        BY <1>1 DEF StateMask
      <3> QED BY <1>1, <3>1, SumCancels DEF StateByte
    <2> QED BY <2>1, <2>2 DEF SameBytes
  <1>4. Bytes'
    BY <1>1, <1>3, BytesKept DEF Early
  <1>5. Stage' = "add" /\ Stage = "add"
    BY <1>1 DEF Stage
  <1>6. Counters' /\ Shapes' /\ Temp' /\ Covering'
    BY <1>1, <1>2 DEF Counters, Shapes, Temp, Covering, Early, Words, Rounds, Measured, Hidden, MaskOf, OfSecret, Zero
  <1> QED BY <1>1, <1>3, <1>4, <1>5, <1>6, Stutters DEF MaskInv

LEMMA StepInitKeys == ASSUME MaskInv, init_masked_aes_keys PROVE MaskInv' /\ UNCHANGED Plain!vars
  <1>1. /\ pc = "init_keys" /\ pc' = "load"
        /\ round_key' = [n \in 0 .. 175 |-> IF n < 16 THEN key[n] ++ mpt[n % 4] ++ m ELSE round_key[n]]
        /\ key' = (IF prog.clears THEN [n \in 0 .. 15 |-> Zero] ELSE key)
        /\ stored' = {round_key'[n] : n \in 0 .. 15}
        /\ UNCHANGED << prog, i, j, round, mpt, temp, temp_sub, x, ciphered_text, sbox, sboxp_access >>
    BY DEF init_masked_aes_keys, Goto
  <1>2. i = 4 /\ round = 0 /\ sboxp_access = 0 /\ Counters /\ Shapes /\ Covering /\ Bytes
    BY <1>1 DEF MaskInv, Counters, Early
  <1>3. \A r \in Row : mpt[r] = RowMask(r)
    BY <1>1, Unmask
  <1>4. ASSUME NEW n \in 0 .. 15
        PROVE  /\ n % 4 \in Row /\ KeyByte(n) = key[n]
               /\ round_key'[n] = KeyByte(n) ++ (m ++ mpt[n % 4]) /\ Hidden(round_key'[n])
    <2>1. n % 4 \in Row
      BY DEF Row
    <2>2. KeyByte(n) = key[n] /\ Bare(KeyByte(n))
      BY <1>1, <1>2 DEF KeyByte, Bytes
    <2>3. round_key'[n] = key[n] ++ mpt[n % 4] ++ m
      BY <1>1
    <2>4. round_key'[n] = key[n] ++ (m ++ mpt[n % 4])
      BY <2>3, SumAssociates, SumCommutes
    <2>5. OnlyMasks(m ++ mpt[n % 4]) /\ m ++ mpt[n % 4] # {}
      BY <1>3, <2>1, MasksHide
    <2> QED BY <2>1, <2>2, <2>4, <2>5, HiddenUnder
  <1>5. SameBytes
    <2>1. ASSUME NEW n \in 0 .. 175 PROVE KeyByte(n)' = KeyByte(n)
      <3>1. CASE n < 16
        <4>1. KeyByte(n)' = round_key'[n] ++ KeyMask(n)' /\ KeyMask(n)' = m ++ mpt[n % 4]
          BY <1>1, <1>2, <3>1 DEF KeyByte, KeyMask
        <4> QED BY <1>4, <3>1, <4>1, SumCancels
      <3>2. CASE n >= 16
        BY <1>1, <1>2, <3>2 DEF KeyByte
      <3> QED BY <3>1, <3>2
    <2>2. \A r, c : StateByte(r, c)' = StateByte(r, c)
      BY <1>1, StateKept DEF InKeys, Words
    <2> QED BY <2>1, <2>2 DEF SameBytes
  <1>6. Bytes'
    <2>1. /\ \A n \in 0 .. 175 : Bare(KeyByte(n)')
          /\ \A r \in Row, c \in Row : Bare(StateByte(r, c)')
      BY <1>2, <1>5 DEF SameBytes, Bytes
    <2>2. \A n \in 0 .. 175 : n >= 4 * i' => round_key'[n] = Zero
      BY SMTT(30), <1>1, <1>2 DEF Bytes
    <2>3. prog.clears => \A n \in 0 .. 15 : key'[n] = Zero
      BY <1>1
    <2> QED BY <1>1, <1>2, <2>1, <2>2, <2>3 DEF Bytes, Bare, Proper
  <1>7. Stage' = "add" /\ Stage = "add"
    BY <1>1 DEF Stage
  <1>8. Shapes'
    BY ZenonT(40), <1>1, <1>2 DEF Shapes
  <1>9. Counters'
    BY <1>1, <1>2 DEF Counters, Early, Words, Rounds
  <1>10. Covering'
    <2>1. \A v \in stored' : Hidden(v)
      BY <1>1, <1>4
    <2> QED BY <1>1, <1>2, <2>1 DEF Covering, Hidden, MaskOf, OfSecret
  <1>11. Temp'
    BY <1>1 DEF Temp
  <1> QED BY <1>1, <1>5, <1>6, <1>7, <1>8, <1>9, <1>10, <1>11, Stutters DEF MaskInv

-----------------------------------------------------------------------------
(* The key schedule, but for the store of a word *)

\* What the steps of the schedule share.
LEMMA InWords ==
  ASSUME MaskInv, pc \in Words, pc' \in Words, UNCHANGED << Schedule, i, round_key >>
  PROVE  /\ SameBytes /\ UNCHANGED Stage
         /\ \A r \in Row : Word(r)' = Word(r) /\ Rotated(r)' = Rotated(r)
         /\ Hidden(temp_sub)'
         /\ UNCHANGED << prog, i, round, key, round_key, mpt, temp_sub, x, ciphered_text >>
  <1>1. UNCHANGED << prog, i, round, key, round_key, mpt, temp_sub, x, ciphered_text >>
    BY DEF Schedule
  <1>2. \A n : KeyByte(n)' = KeyByte(n)
    BY <1>1, KeysKept DEF Words, Early
  <1>3. \A r, c : StateByte(r, c)' = StateByte(r, c)
    BY <1>1, StateKept DEF InKeys
  <1>4. ASSUME NEW r \in Row PROVE Word(r)' = Word(r)
    BY <1>1 DEF Word, KeyByte, KeyMask, Words
  <1>5. ASSUME NEW r \in Row PROVE Rotated(r)' = Rotated(r)
    BY <1>4 DEF Rotated, Row
  <1>6. Stage' = "add" /\ Stage = "add"
    BY DEF Words, Stage
  <1>7. Hidden(temp_sub)'
    BY <1>1 DEF MaskInv, Covering, Hidden, MaskOf, OfSecret
  <1> QED BY <1>1, <1>2, <1>3, <1>4, <1>5, <1>6, <1>7 DEF SameBytes

\* The bytes of the last word are bare in AES and hidden in memory.
LEMMA WordsBare ==
  ASSUME MaskInv, pc \in Words, NEW r \in Row
  PROVE  /\ 4 * (i - 1) + r \in 0 .. 175 /\ 4 * (i - 1) + r < 4 * i
         /\ Bare(Word(r)) /\ Bare(Rotated(r)) /\ mpt[r] = RowMask(r)
         /\ round_key[4 * (i - 1) + r] = Word(r) ++ KeyMask(4 * (i - 1) + r)
         /\ OnlyMasks(KeyMask(4 * (i - 1) + r)) /\ KeyMask(4 * (i - 1) + r) # {}
         /\ KeyMask(4 * (i - 1) + r) = (IF i <= 40 THEN m ++ RowMask(r) ELSE mp)
  <1>1. i \in 4 .. 43
    BY DEF MaskInv, Counters
  <1>2. \A q \in Row : 4 * (i - 1) + q \in 0 .. 175 /\ 4 * (i - 1) + q < 4 * i
    BY <1>1 DEF Row
  <1>3. \A q \in Row : Bare(Word(q))
    BY <1>2 DEF MaskInv, Bytes, Word
  <1>4. Bare(Rotated(r))
    BY <1>3 DEF Rotated, Row
  <1>5. pc \notin Early /\ pc # "masked_aes"
    BY DEF Words, Early
  <1> DEFINE n == 4 * (i - 1) + r
  <1>6. n \in 0 .. 175 /\ n < 4 * i /\ (n < 160 <=> i <= 40) /\ n % 4 = r
    BY <1>1 DEF Row
  <1>7. Word(r) = KeyByte(n)
    BY DEF Word
  <1> HIDE DEF n
  <1>8. /\ round_key[n] = KeyByte(n) ++ KeyMask(n)
        /\ KeyMask(n) = (IF i <= 40 THEN m ++ RowMask(r) ELSE mp)
        /\ OnlyMasks(KeyMask(n)) /\ KeyMask(n) # {}
    BY <1>5, <1>6, Unmask
  <1>9. mpt[r] = RowMask(r)
    BY <1>5, Unmask
  <1> QED BY <1>3, <1>4, <1>6, <1>7, <1>8, <1>9 DEF n

LEMMA StepLoadWord == ASSUME MaskInv, LoadWord PROVE MaskInv' /\ UNCHANGED Plain!vars
  <1>1. /\ pc = "load" /\ pc' = (IF i % 4 = 0 THEN "rotate" ELSE "store")
        /\ temp' = [r \in Row |-> round_key[(i - 1) * 4 + r]]
        /\ stored' = Range(temp')
        /\ UNCHANGED << Schedule, i, j, round_key, sbox, sboxp_access >>
    BY DEF LoadWord, Goto
  <1>2. pc \in Words /\ pc' \in Words /\ Counters /\ Shapes /\ i \in 4 .. 43
    BY <1>1 DEF Words, MaskInv, Counters
  <1>3. /\ SameBytes /\ UNCHANGED Stage
        /\ \A r \in Row : Word(r)' = Word(r) /\ Rotated(r)' = Rotated(r)
        /\ Hidden(temp_sub)'
        /\ UNCHANGED << prog, i, round, key, round_key, mpt, temp_sub, x, ciphered_text >>
    BY <1>1, <1>2, InWords
  <1>4. ASSUME NEW r \in Row
        PROVE  /\ temp'[r] = Word(r) ++ (IF i <= 40 THEN m ++ RowMask(r) ELSE mp)
               /\ temp'[r] = Word(r) ++ KeyMask(4 * (i - 1) + r)
               /\ Hidden(temp'[r])
    <2>1. temp'[r] = round_key[4 * (i - 1) + r]
      BY <1>1, <1>2 DEF Row
    <2>2. temp'[r] = Word(r) ++ KeyMask(4 * (i - 1) + r)
      BY <1>2, <2>1, WordsBare
    <2> QED BY <1>2, <2>2, WordsBare, HiddenUnder
  <1>5. Bytes'
    BY <1>1, <1>2, <1>3, BytesKept DEF Words, Early
  <1>6. Counters'
    <2>1. CASE i % 4 = 0
      BY <1>1, <1>2, <1>3, <2>1 DEF Counters, Early, Words, Rounds
    <2>2. CASE i % 4 # 0
      <3>1. (i - 1) \div 4 = i \div 4
        BY <1>2, <2>2
      <3> QED BY <1>1, <1>2, <1>3, <2>2, <3>1 DEF Counters, Early, Words, Rounds
    <2> QED BY <2>1, <2>2
  <1>7. Shapes'
    BY <1>1, <1>2, <1>3 DEF Shapes
  <1>8. Temp'
    <2>1. CASE i % 4 = 0
      <3>1. i <= 40 /\ pc' = "rotate"
        BY <1>1, <1>2, <2>1
      <3> QED BY <1>3, <1>4, <3>1 DEF Temp
    <2>2. CASE i % 4 # 0
      <3>1. ASSUME NEW r \in Row PROVE temp'[r] = AddedByte(r)' ++ AddedMask(r)'
        <4>1. AddedByte(r)' = Word(r)' /\ AddedMask(r)' = KeyMask(4 * (i - 1) + r)
          BY <1>3, <2>2 DEF AddedByte, AddedMask, KeyMask
        <4> QED BY <1>3, <1>4, <4>1
      <3> QED BY <1>1, <1>3, <2>2, <3>1 DEF Temp
    <2> QED BY <2>1, <2>2
  <1>9. Covering'
    <2>1. \A v \in stored' : \E r \in Row : v = temp'[r]
      BY <1>1 DEF Range
    <2>2. \A v \in stored' : Hidden(v)
      BY <1>4, <2>1
    <2> QED BY <1>3, <1>4, <2>2 DEF Covering, Hidden, MaskOf, OfSecret
  <1>10. Stage # "sub"
    BY <1>1 DEF Stage
  <1> QED BY <1>1, <1>3, <1>5, <1>6, <1>7, <1>8, <1>9, <1>10, Stutters DEF MaskInv

LEMMA StepRotateWord == ASSUME MaskInv, RotateWord PROVE MaskInv' /\ UNCHANGED Plain!vars
  <1>1. /\ pc = "rotate" /\ pc' = "sub_word" /\ j' = 0
        /\ temp' = [r \in Row |-> temp[(r + 1) % 4] ++ mpt[(r + 1) % 4]]
        /\ stored' = Range(temp')
        /\ UNCHANGED << Schedule, i, round_key, sbox, sboxp_access >>
    BY DEF RotateWord, Goto
  <1>2. pc \in Words /\ pc' \in Words /\ Counters /\ Shapes /\ i \in 4 .. 43 /\ i % 4 = 0
    BY <1>1 DEF Words, MaskInv, Counters
  <1>3. /\ SameBytes /\ UNCHANGED Stage
        /\ \A r \in Row : Word(r)' = Word(r) /\ Rotated(r)' = Rotated(r)
        /\ Hidden(temp_sub)'
        /\ UNCHANGED << prog, i, round, key, round_key, mpt, temp_sub, x, ciphered_text >>
    BY <1>1, <1>2, InWords
  <1>4. ASSUME NEW r \in Row PROVE temp'[r] = Rotated(r) ++ m /\ Hidden(temp'[r])
    <2> DEFINE q == (r + 1) % 4
    <2>1. q \in Row
      BY DEF Row
    <2>2. temp'[r] = temp[q] ++ mpt[q]
      BY <1>1
    <2>3. Rotated(r) = Word(q)
      BY DEF Rotated
    <2> HIDE DEF q
    <2>4. temp[q] = Word(q) ++ (m ++ RowMask(q)) /\ mpt[q] = RowMask(q)
      BY <1>1, <1>2, <2>1, WordsBare DEF MaskInv, Temp
    <2>5. temp'[r] = Rotated(r) ++ m
      BY <2>2, <2>3, <2>4, SumAssociates, SumCancels
    <2> QED BY <1>2, <2>5, WordsBare, HiddenUnder, MasksHide
  <1>5. Bytes'
    BY <1>1, <1>2, <1>3, BytesKept DEF Words, Early
  <1>6. Counters'
    <2>1. 4 * ((i - 1) \div 4) = i - 4
      BY <1>2
    <2> QED BY <1>1, <1>2, <1>3, <2>1 DEF Counters, Early, Words, Rounds
  <1>7. Shapes'
    BY SMTT(30), <1>1, <1>2, <1>3 DEF Shapes
  <1>8. Temp'
    <2>1. \A r \in Row : ~(r < j') /\ temp'[r] = Rotated(r)' ++ m
      BY <1>1, <1>3, <1>4 DEF Row
    <2> QED BY <1>1, <2>1 DEF Temp
  <1>9. Covering'
    <2>1. \A v \in stored' : \E r \in Row : v = temp'[r]
      BY <1>1 DEF Range
    <2>2. \A v \in stored' : Hidden(v)
      BY <1>4, <2>1
    <2> QED BY <1>3, <1>4, <2>2 DEF Covering, Hidden, MaskOf, OfSecret
  <1>10. Stage # "sub"
    BY <1>1 DEF Stage
  <1> QED BY <1>1, <1>3, <1>5, <1>6, <1>7, <1>8, <1>9, <1>10, Stutters DEF MaskInv

\* The bytes of Aes are those of the programs.
LEMMA SameOperators ==
  /\ \A u, v : /\ Plain!Consulted(u, v) = Consulted(u, v) /\ Plain!SBox(u, v) = SBox(u, v)
               /\ Plain!Met(u, v) <=> Met(u, v)
  /\ \A u, v : Plain!++(u, v) = u ++ v
  /\ \A u : Plain!xtime(u) = xtime(u)
  /\ Plain!Zero = Zero /\ Plain!Row = Row /\ Plain!rcon = rcon
  /\ \A u, v : Plain!Unknown(u, v) = Unknown(u, v)
  BY DEF Plain!Consulted, Consulted, Plain!SBox, SBox, Plain!Met, Met, Plain!Unknown, Unknown,
         Plain!Cardinality, Cardinality, Plain!++, ++, Plain!xtime, xtime, Plain!Zero, Zero,
         Plain!Row, Row, Plain!rcon, rcon

\* A look into the S-box leaves what is in its table.
LEMMA Consulting ==
  ASSUME MaskInv, NEW v, Bare(v), sbox' = Consulted(sbox, v)
  PROVE  /\ Met(sbox', v) /\ sbox'[v] = SBox(sbox, v) /\ Bare(SBox(sbox, v))
         /\ \A u : Met(sbox, u) => Met(sbox', u) /\ sbox'[u] = sbox[u]
         /\ \A u \in DOMAIN (sbox') : Bare(u) /\ Bare(sbox'[u])
  <1>1. DOMAIN (sbox') = DOMAIN sbox \union {v} /\ \A u \in DOMAIN (sbox') : sbox'[u] = SBox(sbox, u)
    BY DEF Consulted
  <1>2. ASSUME NEW u PROVE Bare(SBox(sbox, u))
    BY BareUnknown DEF MaskInv, Bytes, SBox, Met
  <1>3. \A u : Met(sbox, u) => SBox(sbox, u) = sbox[u]
    BY DEF SBox
  <1> QED BY <1>1, <1>2, <1>3 DEF MaskInv, Bytes, Met

LEMMA StepSubWord ==
  ASSUME MaskInv, SubWord
  PROVE  /\ MaskInv' /\ SameBytes /\ Plain!Consult
         /\ \A u : Met(sbox, u) => Met(sbox', u) /\ sbox'[u] = sbox[u]
  <1>1. /\ pc = "sub_word" /\ pc' = (IF j < 3 THEN "sub_word" ELSE "rcon")
        /\ sbox' = Consulted(sbox, Hooked ++ m) /\ sboxp_access' = sboxp_access + 1
        /\ temp' = [temp EXCEPT ![j] = SBoxPrime] /\ j' = (j + 1) % 4
        /\ stored' = {SBoxPrime}
        /\ UNCHANGED << Schedule, i, round_key >>
    BY DEF SubWord, Goto, Access
  <1>2. /\ pc \in Words /\ pc' \in Words /\ Counters /\ Shapes /\ i \in 4 .. 43 /\ i % 4 = 0
        /\ j \in 0 .. 3 /\ sboxp_access = i - 4 + j
    BY <1>1 DEF Words, MaskInv, Counters
  <1>3. /\ SameBytes /\ UNCHANGED Stage
        /\ \A r \in Row : Word(r)' = Word(r) /\ Rotated(r)' = Rotated(r)
        /\ Hidden(temp_sub)'
        /\ UNCHANGED << prog, i, round, key, round_key, mpt, temp_sub, x, ciphered_text >>
    BY <1>1, <1>2, InWords
  <1>4. /\ \A r \in Row : r < j => Met(sbox, Rotated(r)) /\ temp[r] = sbox[Rotated(r)] ++ mp
        /\ \A r \in Row : ~(r < j) => temp[r] = Rotated(r) ++ m
    BY <1>1 DEF MaskInv, Temp
  <1> DEFINE v == Rotated(j)
  <1>5. j \in Row /\ Bare(v) /\ Hooked ++ m = v
    <2>1. j \in Row /\ ~(j < j)
      BY <1>2 DEF Row
    <2>2. Hooked = temp[j]
      BY <1>1, InvHook DEF HookExact
    <2>3. temp[j] = v ++ m
      BY <1>4, <2>1
    <2> HIDE DEF v
    <2>4. Hooked ++ m = v
      BY <2>2, <2>3, SumCancels
    <2>5. Bare(v)
      BY <1>2, <2>1, WordsBare DEF v
    <2> QED BY <2>1, <2>4, <2>5
  <1>6. v = Rotated(j)
    OBVIOUS
  <1> HIDE DEF v
  <1>7. /\ Met(sbox', v) /\ sbox'[v] = SBox(sbox, v) /\ Bare(SBox(sbox, v))
        /\ \A u : Met(sbox, u) => Met(sbox', u) /\ sbox'[u] = sbox[u]
        /\ \A u \in DOMAIN (sbox') : Bare(u) /\ Bare(sbox'[u])
    BY <1>1, <1>5, Consulting
  <1>8. SBoxPrime = sbox'[v] ++ mp /\ Hidden(SBoxPrime)
    <2>1. SBoxPrime = sbox'[v] ++ mp
      BY <1>5, <1>7 DEF SBoxPrime
    <2> QED BY <1>5, <1>7, <2>1, HiddenUnder, MasksHide
  <1>9. ASSUME NEW r \in Row
        PROVE  /\ r <= j => Met(sbox', Rotated(r)) /\ temp'[r] = sbox'[Rotated(r)] ++ mp
               /\ r > j => temp'[r] = Rotated(r) ++ m
               /\ Hidden(temp'[r])
    <2>1. DOMAIN temp = Row
      BY <1>2 DEF Shapes
    <2>2. CASE r = j
      BY <1>1, <1>2, <1>5, <1>6, <1>7, <1>8, <2>1, <2>2
    <2>3. CASE r # j
      <3>1. temp'[r] = temp[r]
        BY <1>1, <2>1, <2>3
      <3>2. (r <= j => r < j) /\ (r > j => ~(r < j))
        BY <1>2, <2>3 DEF Row
      <3>3. Hidden(temp[r])
        BY DEF MaskInv, Covering
      <3> QED BY <1>4, <1>7, <3>1, <3>2, <3>3
    <2> QED BY <2>2, <2>3
  <1>10. Bytes'
    <2>1. /\ \A n \in 0 .. 175 : Bare(KeyByte(n)')
          /\ \A r \in Row, c \in Row : Bare(StateByte(r, c)')
      BY <1>3 DEF SameBytes, MaskInv, Bytes
    <2>2. /\ \A n \in 0 .. 175 : n >= 4 * i' => round_key'[n] = Zero
          /\ prog'.clears => \A n \in 0 .. 15 : key'[n] = Zero
          /\ ciphered_text' = [n \in 0 .. 15 |-> Zero]
      BY SMTT(30), <1>1, <1>3 DEF MaskInv, Bytes, Early
    <2>3. pc' # "lookup"
      BY <1>2 DEF Words
    <2> QED BY <1>7, <2>1, <2>2, <2>3 DEF Bytes, Bare, Proper
  <1>11. Counters'
    <2>1. CASE j < 3
      <3>1. j' = j + 1 /\ sboxp_access' = i - 4 + j'
        BY <1>1, <1>2, <2>1
      <3> QED BY <1>1, <1>2, <1>3, <2>1, <3>1 DEF Counters, Early, Words, Rounds
    <2>2. CASE j = 3
      <3>1. j' = 0 /\ sboxp_access' = 4 * (i \div 4)
        BY <1>1, <1>2, <2>2
      <3> QED BY <1>1, <1>2, <1>3, <2>2, <3>1 DEF Counters, Early, Words, Rounds
    <2> QED BY <1>2, <2>1, <2>2
  <1>12. Shapes'
    BY ZenonT(40), <1>1, <1>2, <1>3 DEF Shapes
  <1>13. Temp'
    <2>1. CASE j < 3
      <3>1. \A r \in Row : (r < j' <=> r <= j) /\ (~(r < j') <=> r > j)
        BY <1>1, <1>2, <2>1 DEF Row
      <3> QED BY <1>1, <1>3, <1>9, <2>1, <3>1 DEF Temp
    <2>2. CASE j = 3
      <3>1. \A r \in Row : r <= j
        BY <2>2 DEF Row
      <3> QED BY <1>1, <1>3, <1>9, <2>2, <3>1 DEF Temp
    <2> QED BY <1>2, <2>1, <2>2
  <1>14. Covering'
    BY <1>1, <1>3, <1>8, <1>9 DEF Covering, Hidden, MaskOf, OfSecret
  <1>15. Plain!Consult
    <2>1. sbox' = Plain!Consulted(sbox, v) /\ v \in DOMAIN (sbox')
      BY <1>1, <1>5, <1>7, SameOperators DEF Met
    <2>2. Stage = "add" /\ Stage' = "add"
      BY <1>1, <1>2 DEF Stage
    <2>3. UNCHANGED << [n \in 0 .. 175 |-> KeyByte(n)], [r \in Row |-> [c \in Row |-> StateByte(r, c)]] >>
      BY <1>3 DEF SameBytes
    <2> QED BY <1>3, <2>1, <2>2, <2>3 DEF Plain!Consult, Plain!key, Plain!state
  <1> QED BY <1>3, <1>7, <1>10, <1>11, <1>12, <1>13, <1>14, <1>15 DEF MaskInv

LEMMA StepAddRcon == ASSUME MaskInv, AddRcon PROVE MaskInv' /\ UNCHANGED Plain!vars
  <1>1. /\ pc = "rcon" /\ pc' = "store"
        /\ temp' = [temp EXCEPT ![0] = temp[0] ++ rcon[i \div 4 - 1]]
        /\ stored' = {temp'[0]}
        /\ UNCHANGED << Schedule, i, j, round_key, sbox, sboxp_access >>
    BY DEF AddRcon, Goto
  <1>2. pc \in Words /\ pc' \in Words /\ Counters /\ Shapes /\ i \in 4 .. 43 /\ i % 4 = 0
    BY <1>1 DEF Words, MaskInv, Counters
  <1>3. /\ SameBytes /\ UNCHANGED Stage
        /\ \A r \in Row : Word(r)' = Word(r) /\ Rotated(r)' = Rotated(r)
        /\ Hidden(temp_sub)'
        /\ UNCHANGED << prog, i, round, key, round_key, mpt, temp_sub, x, ciphered_text >>
    BY <1>1, <1>2, InWords
  <1>4. \A r \in Row : Met(sbox, Rotated(r)) /\ temp[r] = sbox[Rotated(r)] ++ mp
    BY <1>1 DEF MaskInv, Temp
  <1>5. ASSUME NEW r \in Row
        PROVE  /\ temp'[r] = AddedByte(r) ++ AddedMask(r) /\ Hidden(temp'[r])
    <2> DEFINE u == sbox[Rotated(r)]
               k == IF r = 0 THEN rcon[i \div 4 - 1] ELSE Zero
    <2>1. AddedByte(r) = u ++ k /\ AddedMask(r) = mp
      BY <1>2 DEF AddedByte, AddedMask
    <2>2. Bare(u) /\ temp[r] = u ++ mp
      BY <1>4 DEF MaskInv, Bytes, Met
    <2>3. Bare(k)
      <3> DEFINE n == i \div 4 - 1
      <3>1. n \in 0 .. 9
        BY <1>2
      <3> HIDE DEF n
      <3>2. rcon[n] = Unknown("R", n)
        BY <3>1 DEF rcon
      <3>3. Bare(rcon[n])
        BY <3>2, BareUnknown
      <3> QED BY <3>3, BareZero DEF n
    <2>4. temp'[r] = temp[r] ++ k
      <3>1. DOMAIN temp = Row /\ 0 \in Row
        BY <1>2 DEF Shapes, Row
      <3>2. CASE r = 0
        BY <1>1, <3>1, <3>2
      <3>3. CASE r # 0
        BY <1>1, <3>1, <3>3, SumCancels
      <3> QED BY <3>2, <3>3
    <2> HIDE DEF u, k
    <2>5. temp'[r] = (u ++ k) ++ mp
      BY <2>2, <2>4, SumAssociates, SumCommutes
    <2>6. Hidden(temp'[r])
      BY <2>2, <2>3, <2>5, BareSum, HiddenUnder, MasksHide
    <2> QED BY <2>1, <2>5, <2>6
  <1>6. Bytes'
    BY <1>1, <1>2, <1>3, BytesKept DEF Words, Early
  <1>7. Counters'
    BY <1>1, <1>2, <1>3 DEF Counters, Early, Words, Rounds
  <1>8. Shapes'
    BY <1>1, <1>2, <1>3 DEF Shapes
  <1>9. Temp'
    <2>1. ASSUME NEW r \in Row PROVE AddedByte(r)' = AddedByte(r) /\ AddedMask(r)' = AddedMask(r)
      BY <1>1, <1>2, <1>3 DEF AddedByte, AddedMask
    <2> QED BY <1>1, <1>3, <1>4, <1>5, <2>1 DEF Temp
  <1>10. Covering'
    <2>1. 0 \in Row
      BY DEF Row
    <2> QED BY <1>1, <1>3, <1>5, <2>1 DEF Covering, Hidden, MaskOf, OfSecret
  <1>11. Stage # "sub"
    BY <1>1 DEF Stage
  <1> QED BY <1>1, <1>3, <1>6, <1>7, <1>8, <1>9, <1>10, <1>11, Stutters DEF MaskInv

-----------------------------------------------------------------------------
(* The store of a word *)

\* The three ways the program changes the masks of a sum
LEMMA RemaskOne ==
  ASSUME NEW old, NEW added, NEW k, NEW p
  PROVE  (p ++ ((old ++ k) ++ (added ++ p))) ++ Zero = (old ++ added) ++ k
  BY DEF ++, Zero

LEMMA RemaskLast ==
  ASSUME NEW old, NEW added, NEW k, NEW p
  PROVE  (k ++ ((old ++ k) ++ (added ++ p))) ++ Zero = (old ++ added) ++ p
  BY DEF ++, Zero

LEMMA RemaskHalves ==
  ASSUME NEW old, NEW added, NEW k, NEW l
  PROVE  (Zero ++ (old ++ l)) ++ (added ++ k) = (old ++ added) ++ (k ++ l)
  BY DEF ++, Zero

LEMMA HalfUnmasked ==
  ASSUME NEW u, NEW k, NEW l PROVE (u ++ (k ++ l)) ++ k = u ++ l /\ (u ++ (k ++ l)) ++ l = u ++ k
  BY DEF ++

LEMMA BothMasks ==
  ASSUME NEW old, NEW added, NEW k, NEW p PROVE (old ++ k) ++ (added ++ p) = (old ++ added) ++ (k ++ p)
  BY DEF ++

\* The byte four words before, and the mask of the new one
Old(r) == KeyByte(4 * (i - 4) + r)
NewMask(r) == IF i < 40 THEN m ++ RowMask(r) ELSE mp

LEMMA NewBytes ==
  ASSUME MaskInv, pc = "store", NEW r \in Row
  PROVE  /\ NewByte(r) = (Old(r) ++ AddedByte(r)) ++ NewMask(r)
         /\ Bare(Old(r) ++ AddedByte(r))
         /\ \A v \in Range(Halves(r)) : Hidden(v)
  <1>1. i \in 4 .. 43 /\ pc \in Words /\ pc \notin Early
    BY DEF MaskInv, Counters, Words, Early
  <1> DEFINE n == (i - 4) * 4 + r
             o == Old(r)
             d == AddedByte(r)
             k == RowMask(r)
  <1>2. n \in 0 .. 175 /\ n < 4 * i /\ n < 160 /\ n % 4 = r /\ n = 4 * (i - 4) + r
    BY <1>1 DEF Row
  <1>3. o = KeyByte(n) /\ Bare(o)
    BY <1>2 DEF Old, MaskInv, Bytes
  <1>4. round_key[n] = o ++ (m ++ k)
    BY <1>1, <1>2, <1>3, Unmask
  <1>5. temp[r] = d ++ AddedMask(r) /\ (i % 4 = 0 => Met(sbox, Rotated(r)))
    BY DEF MaskInv, Temp
  <1>6. AddedMask(r) = (IF i % 4 # 0 /\ i < 40 THEN m ++ k ELSE mp) /\ mpt[r] = k
    <2>1. i % 4 # 0 => (i <= 40 <=> i < 40)
      BY <1>1
    <2> QED BY <1>1, <2>1, WordsBare DEF AddedMask
  <1>7. Bare(d)
    <2>1. CASE i % 4 # 0
      BY <1>1, <2>1, WordsBare DEF AddedByte
    <2>2. CASE i % 4 = 0
      <3>1. Bare(sbox[Rotated(r)])
        BY <1>5, <2>2 DEF MaskInv, Bytes, Met
      <3> DEFINE q == i \div 4 - 1
      <3>2. q \in 0 .. 9
        BY <1>1, <2>2
      <3> HIDE DEF q
      <3>3. rcon[q] = Unknown("R", q)
        BY <3>2 DEF rcon
      <3>4. Bare(rcon[q]) /\ Bare(Zero)
        BY <3>3, BareUnknown, BareZero
      <3> QED BY <2>2, <3>1, <3>4, BareSum DEF AddedByte, q
    <2> QED BY <2>1, <2>2
  <1>8. Halves(r) = (IF i < 40 /\ i % 4 # 0 THEN << round_key[n] ++ m, temp[r] ++ mpt[r] >>
                                            ELSE << round_key[n] ++ temp[r] >>)
    BY DEF Halves
  <1> HIDE DEF n, o, d, k
  <1>9. /\ OnlyMasks(k) /\ k # {} /\ OnlyMasks(m) /\ m # {}
        /\ OnlyMasks((m ++ k) ++ mp) /\ (m ++ k) ++ mp # {}
    BY MasksHide DEF k
  <1>10. Bare(o ++ d)
    BY <1>3, <1>7, BareSum
  <1>11. CASE i < 40 /\ i % 4 # 0
    <2> DEFINE a1 == round_key[n] ++ m
               a2 == temp[r] ++ mpt[r]
    <2>1. Halves(r) = << a1, a2 >>
      BY <1>8, <1>11
    <2>2. a1 = (o ++ (m ++ k)) ++ m /\ a2 = (d ++ (m ++ k)) ++ k
      BY <1>4, <1>5, <1>6, <1>11
    <2>3. Remask(r) = Zero
      <3>1. ~(i < 40 /\ i % 4 = 0) /\ i < 40 /\ i % 4 # 0
        BY <1>11
      <3> QED BY <1>1, <3>1 DEF Remask
    <2> HIDE DEF a1, a2
    <2>4. NewByte(r) = (Zero ++ a1) ++ a2
      BY <2>1, <2>3 DEF NewByte
    <2>5. a1 = o ++ k /\ a2 = d ++ m
      BY <2>2, HalfUnmasked
    <2>6. NewByte(r) = (o ++ d) ++ (m ++ k)
      BY <2>4, <2>5, RemaskHalves
    <2>7. Hidden(a1) /\ Hidden(a2)
      BY <1>3, <1>7, <1>9, <2>5, HiddenUnder
    <2>8. \A v \in Range(Halves(r)) : v \in {a1, a2}
      BY <2>1 DEF Range
    <2> QED BY <1>10, <1>11, <2>6, <2>7, <2>8 DEF NewMask, o, d, k
  <1>12. CASE ~(i < 40 /\ i % 4 # 0)
    <2> DEFINE a1 == round_key[n] ++ temp[r]
    <2>1. Halves(r) = << a1 >>
      BY <1>8, <1>12
    <2>2. a1 = (o ++ (m ++ k)) ++ (d ++ mp)
      BY <1>4, <1>5, <1>6, <1>12
    <2>3. Remask(r) = (IF i < 40 THEN mp ELSE m ++ k)
      <3>1. CASE i < 40
        <4>1. i < 40 /\ i % 4 = 0
          BY <1>12, <3>1
        <4>2. ~(i >= 40)
          BY <1>1, <3>1
        <4> QED BY <4>1, <4>2 DEF Remask
      <3>2. CASE ~(i < 40)
        BY <1>1, <1>6, <3>2 DEF Remask
      <3> QED BY <3>1, <3>2
    <2> HIDE DEF a1
    <2>4. NewByte(r) = (Remask(r) ++ a1) ++ Zero
      BY <2>1 DEF NewByte
    <2>5. NewByte(r) = (o ++ d) ++ (IF i < 40 THEN m ++ k ELSE mp)
      <3> DEFINE mk == m ++ k
      <3>1. (mp ++ ((o ++ mk) ++ (d ++ mp))) ++ Zero = (o ++ d) ++ mk
        BY RemaskOne
      <3>2. (mk ++ ((o ++ mk) ++ (d ++ mp))) ++ Zero = (o ++ d) ++ mp
        BY RemaskLast
      <3>3. a1 = (o ++ mk) ++ (d ++ mp) /\ Remask(r) = (IF i < 40 THEN mp ELSE mk)
        BY <2>2, <2>3
      <3> HIDE DEF mk
      <3> QED BY <2>4, <3>1, <3>2, <3>3 DEF mk
    <2>6. a1 = (o ++ d) ++ ((m ++ k) ++ mp)
      BY <2>2, BothMasks
    <2>7. Hidden(a1)
      BY <1>9, <1>10, <2>6, HiddenUnder
    <2>8. \A v \in Range(Halves(r)) : v = a1
      BY <2>1 DEF Range
    <2> QED BY <1>10, <2>5, <2>7, <2>8 DEF NewMask, o, d, k
  <1> QED BY <1>11, <1>12

LEMMA StepStoreWord ==
  ASSUME MaskInv, StoreWord
  PROVE  /\ MaskInv' /\ Plain!ExpandWord /\ UNCHANGED sbox
         /\ \A n \in 0 .. 175 : n < 4 * i => KeyByte(n)' = KeyByte(n)
         /\ \A n \in 0 .. 175 : n \div 4 = i => KeyByte(n)' = KeyByte(n - 16) ++ AddedByte(n % 4)
  <1>1. /\ pc = "store" /\ pc' = (IF i < 43 THEN "load" ELSE "add_round_key")
        /\ round_key' = [n \in 0 .. 175 |-> IF n \div 4 = i THEN NewByte(n % 4) ELSE round_key[n]]
        /\ i' = i + 1
        /\ stored' = {NewByte(r) : r \in Row}
                       \union (IF prog.stepwise THEN UNION {Range(Halves(r)) : r \in Row} ELSE {})
        /\ UNCHANGED << Schedule, j, temp, sbox, sboxp_access >>
    BY DEF StoreWord, Goto
  <1>2. /\ Counters /\ Shapes /\ Bytes /\ Covering /\ i \in 4 .. 43 /\ round = 0 /\ i' \in 5 .. 44
        /\ pc \notin Early /\ pc' \notin Early /\ sboxp_access = 4 * (i \div 4)
    BY <1>1 DEF Words, Early, MaskInv, Counters
  <1>3. UNCHANGED << prog, round, key, mpt, temp_sub, x, ciphered_text >>
    BY <1>1 DEF Schedule
  <1>4. ASSUME NEW r \in Row
        PROVE  /\ NewByte(r) = (Old(r) ++ AddedByte(r)) ++ NewMask(r)
               /\ Bare(Old(r) ++ AddedByte(r)) /\ Hidden(NewByte(r))
               /\ \A v \in Range(Halves(r)) : Hidden(v)
    <2>1. /\ NewByte(r) = (Old(r) ++ AddedByte(r)) ++ NewMask(r)
          /\ Bare(Old(r) ++ AddedByte(r))
          /\ \A v \in Range(Halves(r)) : Hidden(v)
      BY <1>1, NewBytes
    <2>2. NewMask(r) # {} /\ OnlyMasks(NewMask(r))
      BY MasksHide DEF NewMask
    <2> QED BY <2>1, <2>2, HiddenUnder
  <1>5. ASSUME NEW n \in 0 .. 175, n \div 4 # i PROVE KeyByte(n)' = KeyByte(n)
    <2>1. round_key'[n] = round_key[n]
      BY <1>1, <1>5
    <2>2. KeyMask(n)' = KeyMask(n)
      BY <1>3 DEF KeyMask
    <2>3. n >= 4 * i' <=> n >= 4 * i
      BY <1>1, <1>2, <1>5
    <2> QED BY <1>2, <2>1, <2>2, <2>3 DEF KeyByte, Early
  <1>6. \A r, c : StateByte(r, c)' = StateByte(r, c)
    BY <1>1, <1>2, <1>3, StateKept DEF InKeys, Words
  <1>7. ASSUME NEW n \in 0 .. 175, n \div 4 = i
        PROVE  /\ KeyByte(n)' = KeyByte(n - 16) ++ AddedByte(n % 4)
               /\ n % 4 \in Row /\ Bare(KeyByte(n)')
    <2> DEFINE r == n % 4
    <2>1. /\ r \in Row /\ n - 16 = 4 * (i - 4) + r
          /\ ~(n >= 4 * (i + 1)) /\ (n < 160 <=> i < 40)
      BY <1>2, <1>7 DEF Row
    <2>2. round_key'[n] = NewByte(r)
      BY <1>1, <1>7
    <2>3. KeyMask(n)' = (IF n < 160 THEN m ++ mpt[r] ELSE mp)
      BY <1>3 DEF KeyMask
    <2>4. KeyByte(n)' = round_key'[n] ++ KeyMask(n)'
      BY <1>1, <1>2, <2>1 DEF KeyByte, Early
    <2>5. Old(r) = KeyByte(n - 16)
      BY <2>1 DEF Old
    <2> HIDE DEF r
    <2>6. KeyMask(n)' = NewMask(r)
      <3>1. mpt[r] = RowMask(r)
        BY <1>1, <2>1, Unmask
      <3> QED BY <2>1, <2>3, <3>1 DEF NewMask
    <2>7. KeyByte(n)' = Old(r) ++ AddedByte(r)
      BY <1>4, <2>1, <2>2, <2>4, <2>6, SumCancels
    <2>8. Bare(KeyByte(n)')
      BY <1>4, <2>1, <2>7
    <2> QED BY <2>1, <2>5, <2>7, <2>8 DEF r
  <1>8. Bytes'
    <2>1. \A n \in 0 .. 175 : Bare(KeyByte(n)')
      BY <1>2, <1>5, <1>7 DEF Bytes
    <2>2. \A r \in Row, c \in Row : Bare(StateByte(r, c)')
      BY <1>2, <1>6 DEF Bytes
    <2>3. ASSUME NEW n \in 0 .. 175, n >= 4 * i' PROVE round_key'[n] = Zero
      <3>1. n >= 4 * i /\ n \div 4 # i
        BY <1>1, <1>2, <2>3
      <3> QED BY <1>1, <1>2, <3>1 DEF Bytes
    <2>4. prog'.clears => \A n \in 0 .. 15 : key'[n] = Zero
      BY <1>2, <1>3 DEF Bytes
    <2>5. ciphered_text' = [n \in 0 .. 15 |-> Zero] /\ pc' # "lookup"
      BY <1>1, <1>2, <1>3 DEF Bytes
    <2>6. \A v \in DOMAIN (sbox') : Bare(v) /\ Bare(sbox'[v])
      BY <1>1, <1>2 DEF Bytes
    <2> QED BY <2>1, <2>2, <2>3, <2>4, <2>5, <2>6 DEF Bytes, Bare, Proper
  <1>9. Counters'
    <2>1. i < 43 => i' \in 4 .. 43 /\ sboxp_access = 4 * ((i' - 1) \div 4)
      BY <1>1, <1>2
    <2>2. i >= 43 => i' = 44 /\ sboxp_access >= 40
      BY <1>1, <1>2
    <2> QED BY <1>1, <1>2, <1>3, <2>1, <2>2 DEF Counters, Early, Words, Rounds
  <1>10. Shapes'
    BY <1>1, <1>2, <1>3 DEF Shapes
  <1>11. Temp'
    BY <1>1 DEF Temp
  <1>12. Covering'
    <2>1. \A v \in stored' : Hidden(v)
      BY <1>1, <1>4
    <2> QED BY <1>1, <1>2, <1>3, <2>1 DEF Covering, Hidden, MaskOf, OfSecret
  <1>13. Plain!ExpandWord
    <2> DEFINE W == [n \in 0 .. 175 |-> KeyByte(n)]
    <2>1. Stage = "add" /\ Stage' = "add"
      BY <1>1 DEF Stage
    <2>2. [r \in Row |-> [c \in Row |-> StateByte(r, c)]]' = [r \in Row |-> [c \in Row |-> StateByte(r, c)]]
      BY <1>6
    <2>3. ASSUME NEW r \in Row
          PROVE  Plain!Last(r) = Word(r) /\ Plain!Added(r) = AddedByte(r) /\ (i % 4 = 0 => Plain!Met(sbox, Plain!Last(r)))
      <3>1. ASSUME NEW q \in Row PROVE Plain!Last(q) = Word(q)
        <4>1. 4 * (i - 1) + q \in 0 .. 175
          BY <1>2 DEF Row
        <4> QED BY <4>1 DEF Plain!Last, Word
      <3>2. (r + 1) % 4 \in Row /\ (r + 3) % 4 \in Row /\ (((r + 3) % 4) + 1) % 4 = r
        BY DEF Row
      <3>3. Plain!Added(r) = AddedByte(r)
        BY <3>1, <3>2, SameOperators DEF Plain!Added, AddedByte, Rotated
      <3>4. i % 4 = 0 => Met(sbox, Rotated((r + 3) % 4))
        BY <1>1, <3>2 DEF MaskInv, Temp
      <3>5. Rotated((r + 3) % 4) = Word(r)
        BY <3>2 DEF Rotated
      <3> QED BY <3>1, <3>3, <3>4, <3>5, SameOperators
    <2>4. W' = [n \in 0 .. 175 |->
                  IF n \div 4 = i THEN Plain!++(W[n - 16], Plain!Added(n % 4)) ELSE W[n]]
      <3>1. ASSUME NEW n \in 0 .. 175
            PROVE  KeyByte(n)' = (IF n \div 4 = i THEN Plain!++(W[n - 16], Plain!Added(n % 4)) ELSE W[n])
        <4>1. CASE n \div 4 = i
          <5>1. n - 16 \in 0 .. 175
            BY <1>2, <4>1
          <5>2. W[n - 16] = KeyByte(n - 16)
            BY <5>1
          <5> HIDE DEF W
          <5> QED BY <1>7, <2>3, <4>1, <5>2, SameOperators
        <4>2. CASE n \div 4 # i
          BY <1>5, <4>2
        <4> QED BY <4>1, <4>2
      <3> HIDE DEF W
      <3>2. W' = [n \in 0 .. 175 |-> KeyByte(n)']
        BY DEF W
      <3> QED BY <3>1, <3>2
    <2>5. i < 44 /\ (i % 4 = 0 => \A r \in Plain!Row : Plain!Met(sbox, Plain!Last(r)))
      BY <1>2, <2>3, SameOperators
    <2> QED BY <1>1, <1>3, <2>1, <2>2, <2>4, <2>5 DEF Plain!ExpandWord, Plain!state
  <1>14. \A n \in 0 .. 175 : n < 4 * i => n \div 4 # i
    BY <1>2
  <1> QED BY <1>1, <1>5, <1>7, <1>8, <1>9, <1>10, <1>11, <1>12, <1>13, <1>14 DEF MaskInv

-----------------------------------------------------------------------------
(* The rounds *)

SameKeys == \A n \in 0 .. 175 : KeyByte(n)' = KeyByte(n)

LEMMA InRounds ==
  ASSUME MaskInv, pc \in Rounds, pc' \in Rounds, UNCHANGED << prog, i, key, round_key, mpt, temp >>
  PROVE  /\ \A n : KeyByte(n)' = KeyByte(n)
         /\ UNCHANGED [n \in 0 .. 175 |-> KeyByte(n)]
         /\ Temp' /\ \A r \in Row : Hidden(temp[r])' /\ mpt[r] = RowMask(r)
         /\ i = 44 /\ sboxp_access \in Nat /\ sboxp_access >= 40
         /\ j \in 0 .. 15 /\ round \in 0 .. 10
  <1>1. \A n : KeyByte(n)' = KeyByte(n)
    BY KeysKept DEF Rounds, Early
  <1>2. i = 44 /\ sboxp_access \in Nat /\ sboxp_access >= 40 /\ j \in 0 .. 15 /\ round \in 0 .. 10
    BY DEF MaskInv, Counters
  <1>3. Temp' /\ \A r \in Row : Hidden(temp[r])'
    BY DEF Temp, Rounds, MaskInv, Covering, Hidden, MaskOf, OfSecret
  <1>4. \A r \in Row : mpt[r] = RowMask(r)
    BY Unmask DEF Rounds
  <1> QED BY <1>1, <1>2, <1>3, <1>4

LEMMA RoundBytes ==
  ASSUME MaskInv, pc \in Rounds, pc' \in Rounds, UNCHANGED << prog, i, key, round_key, mpt, temp >>,
         \A r \in Row, c \in Row : Bare(StateByte(r, c)'),
         \A v \in DOMAIN (sbox') : Bare(v) /\ Bare(sbox'[v]),
         pc' # "done" => pc # "done" /\ UNCHANGED ciphered_text,
         pc' = "lookup" => temp_sub' = x'[j' \div 4][j' % 4]
  PROVE  Bytes'
  <1>1. Bytes
    BY DEF MaskInv
  <1>2. \A n \in 0 .. 175 : Bare(KeyByte(n)')
    BY <1>1, InRounds DEF Bytes
  <1>3. /\ \A n \in 0 .. 175 : n >= 4 * i' => round_key'[n] = Zero
        /\ prog'.clears => \A n \in 0 .. 15 : key'[n] = Zero
        /\ pc' # "done" => ciphered_text' = [n \in 0 .. 15 |-> Zero]
    BY <1>1 DEF Bytes, Rounds, Early
  <1> QED BY <1>2, <1>3 DEF Bytes, Bare, Proper

\* Hidden bytes stay hidden.
LEMMA SubHidden == ASSUME MaskInv, UNCHANGED temp_sub PROVE Hidden(temp_sub)'
  BY DEF MaskInv, Covering, Hidden, MaskOf, OfSecret

LEMMA RoundCovering ==
  ASSUME \A r \in Row : Hidden(temp[r])', Hidden(temp_sub)', Measured' => \A v \in stored' : Hidden(v)
  PROVE  Covering'
  <1>1. Measured' => (\A v \in stored : Hidden(v))'
    BY DEF Hidden, MaskOf, OfSecret
  <1> QED BY <1>1 DEF Covering

\* The bytes that are written in a round, when all of the state is.
LEMMA StateHidden ==
  ASSUME NEW S, \A r \in Row, c \in Row : Hidden(S[r][c]), S = [r \in Row |-> [c \in Row |-> S[r][c]]]
  PROVE  \A v \in UNION {Range(S[r]) : r \in Row} : Hidden(v)
  <1>1. ASSUME NEW r \in Row, NEW v \in Range(S[r]) PROVE Hidden(v)
    <2>1. DOMAIN S[r] = Row
      OBVIOUS
    <2> QED BY <2>1 DEF Range
  <1> QED BY <1>1

LEMMA StepAddRoundKey ==
  ASSUME MaskInv, add_round_key PROVE MaskInv' /\ SameKeys /\ Plain!AddRoundKey
  <1>1. /\ pc = "add_round_key" /\ pc' = (IF round < 10 THEN "index" ELSE "output")
        /\ x' = [r \in Row |-> [c \in Row |-> x[r][c] ++ round_key[round * 16 + c * 4 + r]]]
        /\ j' = 0 /\ stored' = UNION {Range(x'[r]) : r \in Row}
        /\ UNCHANGED << prog, i, key, round_key, mpt, temp, ciphered_text, round, temp_sub, sbox, sboxp_access >>
    BY DEF add_round_key, Goto, Cipher
  <1>2. pc \in Rounds /\ pc' \in Rounds /\ Shapes /\ Counters
    BY <1>1 DEF Rounds, MaskInv
  <1>3. /\ \A n : KeyByte(n)' = KeyByte(n)
        /\ UNCHANGED [n \in 0 .. 175 |-> KeyByte(n)]
        /\ Temp' /\ \A r \in Row : Hidden(temp[r])' /\ mpt[r] = RowMask(r)
        /\ i = 44 /\ sboxp_access \in Nat /\ sboxp_access >= 40 /\ round \in 0 .. 10
    BY <1>1, <1>2, InRounds
  <1>4. ASSUME NEW r \in Row, NEW c \in Row
        PROVE  /\ StateByte(r, c)' = StateByte(r, c) ++ KeyByte(round * 16 + c * 4 + r)
               /\ round * 16 + c * 4 + r \in 0 .. 175
               /\ Bare(StateByte(r, c)') /\ (round < 10 => Hidden(x'[r][c]))
    <2> DEFINE n == round * 16 + c * 4 + r
               u == StateByte(r, c)
               k == KeyByte(n)
               l == RowMask(r)
    <2>1. n \in 0 .. 175 /\ n < 4 * i /\ n % 4 = r /\ (n < 160 <=> round < 10)
      BY <1>3 DEF Row
    <2>2. x'[r][c] = x[r][c] ++ round_key[n]
      BY <1>1
    <2>3. x[r][c] = u ++ (IF round < 10 THEN l ELSE mp)
      <3>1. x[r][c] = u ++ StateMask(r, c)
        BY <1>1, Unmask
      <3>2. StateMask(r, c) = (IF round < 10 THEN l ELSE mp)
        BY <1>1, <1>3 DEF StateMask
      <3> QED BY <3>1, <3>2
    <2>4. StateByte(r, c)' = x'[r][c] ++ (IF round < 10 THEN m ELSE Zero)
      <3>1. ~(r * 4 + c < 0)
        BY DEF Row
      <3>2. StateMask(r, c)' = (IF round < 10 THEN m ELSE Zero)
        BY <1>1, <3>1 DEF StateMask
      <3>3. StateByte(r, c)' = x'[r][c] ++ StateMask(r, c)'
        BY <1>1 DEF StateByte
      <3> QED BY <3>2, <3>3
    <2>5. Bare(u) /\ Bare(k)
      BY <2>1 DEF MaskInv, Bytes
    <2> HIDE DEF n
    <2>6. round_key[n] = k ++ (IF round < 10 THEN m ++ l ELSE mp)
      BY <1>1, <1>2, <2>1, Unmask DEF Early
    <2> HIDE DEF u, k, l
    <2>7. CASE round < 10
      <3>1. x'[r][c] = (u ++ l) ++ (k ++ (m ++ l))
        BY <2>2, <2>3, <2>6, <2>7
      <3>2. (u ++ l) ++ (k ++ (m ++ l)) = (u ++ k) ++ m
        BY DEF ++
      <3>3. StateByte(r, c)' = u ++ k
        BY <2>4, <2>7, <3>1, <3>2, SumCancels
      <3>4. Bare(u ++ k) /\ Hidden((u ++ k) ++ m)
        BY <2>5, BareSum, HiddenUnder, MasksHide
      <3> QED BY <2>1, <3>1, <3>2, <3>3, <3>4 DEF u, k, n
    <2>8. CASE ~(round < 10)
      <3>1. x'[r][c] = (u ++ mp) ++ (k ++ mp)
        BY <2>2, <2>3, <2>6, <2>8
      <3>2. (u ++ mp) ++ (k ++ mp) = u ++ k
        BY DEF ++
      <3>3. StateByte(r, c)' = u ++ k
        BY <2>4, <2>8, <3>1, <3>2, SumCancels
      <3>4. Bare(u ++ k)
        BY <2>5, BareSum
      <3> QED BY <2>1, <2>8, <3>3, <3>4 DEF u, k, n
    <2> QED BY <2>7, <2>8
  <1>5. Bytes'
    <2>1. \A v \in DOMAIN (sbox') : Bare(v) /\ Bare(sbox'[v])
      BY <1>1 DEF MaskInv, Bytes
    <2> QED BY <1>1, <1>2, <1>4, <2>1, RoundBytes
  <1>6. Counters'
    BY <1>1, <1>2, <1>3 DEF Counters, Early, Words, Rounds
  <1>7. Shapes'
    BY <1>1, <1>2 DEF Shapes
  <1>8. Covering'
    <2>1. CASE round < 10
      <3> DEFINE S == x'
      <3>1. S = [r \in Row |-> [c \in Row |-> S[r][c]]] /\ stored' = UNION {Range(S[r]) : r \in Row}
        BY <1>1
      <3>2. \A r \in Row, c \in Row : Hidden(S[r][c])
        BY <1>4, <2>1
      <3> HIDE DEF S
      <3>3. \A v \in stored' : Hidden(v)
        BY <3>1, <3>2, StateHidden
      <3> QED BY <1>1, <1>3, <3>3, SubHidden, RoundCovering
    <2>2. CASE ~(round < 10)
      BY <1>1, <1>3, <2>2, SubHidden, RoundCovering DEF Measured
    <2> QED BY <2>1, <2>2
  <1>9. Plain!AddRoundKey
    <2>1. Stage = "add" /\ Stage' = (IF round < 10 THEN "sub" ELSE "out")
      BY <1>1 DEF Stage
    <2>2. [r \in Row |-> [c \in Row |-> StateByte(r, c)]]' =
            [r \in Row |-> [c \in Row |-> StateByte(r, c) ++ KeyByte(round * 16 + c * 4 + r)]]
      BY <1>4
    <2>3. 4 * (round + 1) <= i
      BY <1>3
    <2> DEFINE S == [r \in Row |-> [c \in Row |-> StateByte(r, c)]]
               W == [n \in 0 .. 175 |-> KeyByte(n)]
    <2>4. S' = [r \in Plain!Row |-> [c \in Plain!Row |-> Plain!++(S[r][c], W[round * 16 + c * 4 + r])]]
      <3>1. ASSUME NEW r \in Row, NEW c \in Row
            PROVE  StateByte(r, c)' = Plain!++(S[r][c], W[round * 16 + c * 4 + r])
        <4>1. S[r][c] = StateByte(r, c) /\ W[round * 16 + c * 4 + r] = KeyByte(round * 16 + c * 4 + r)
          BY <1>4
        <4> HIDE DEF S, W
        <4> QED BY <1>4, <4>1, SameOperators
      <3>2. S' = [r \in Row |-> [c \in Row |-> StateByte(r, c)']]
        BY DEF S
      <3> HIDE DEF S, W
      <3> QED BY <3>1, <3>2, SameOperators
    <2> QED BY <1>1, <1>3, <2>1, <2>3, <2>4 DEF Plain!AddRoundKey, Plain!key
  <1> QED BY <1>3, <1>5, <1>6, <1>7, <1>8, <1>9 DEF MaskInv, SameKeys

LEMMA StepIndexByte == ASSUME MaskInv, IndexByte PROVE MaskInv' /\ SameKeys /\ UNCHANGED Plain!vars
  <1>1. /\ pc = "index" /\ pc' = "lookup" /\ temp_sub' = x[j \div 4][j % 4] /\ stored' = {temp_sub'}
        /\ UNCHANGED << prog, i, key, round_key, mpt, temp, ciphered_text, j, round, x, sbox, sboxp_access >>
    BY DEF IndexByte, Goto, Cipher
  <1>2. pc \in Rounds /\ pc' \in Rounds /\ Shapes /\ Counters /\ Measured
    BY <1>1 DEF Rounds, MaskInv, Measured, Labels
  <1>3. /\ \A n : KeyByte(n)' = KeyByte(n)
        /\ Temp' /\ \A r \in Row : Hidden(temp[r])' /\ mpt[r] = RowMask(r)
        /\ i = 44 /\ sboxp_access \in Nat /\ sboxp_access >= 40 /\ j \in 0 .. 15 /\ round \in 0 .. 10
    BY <1>1, <1>2, InRounds
  <1>4. ASSUME NEW r, NEW c PROVE StateByte(r, c)' = StateByte(r, c)
    BY <1>1 DEF StateByte, StateMask
  <1>5. Bytes'
    <2>1. \A r \in Row, c \in Row : Bare(StateByte(r, c)')
      BY <1>4 DEF MaskInv, Bytes
    <2>2. \A v \in DOMAIN (sbox') : Bare(v) /\ Bare(sbox'[v])
      BY <1>1 DEF MaskInv, Bytes
    <2> QED BY <1>1, <1>2, <2>1, <2>2, RoundBytes
  <1>6. Counters'
    BY <1>1, <1>2, <1>3 DEF Counters, Early, Words, Rounds
  <1>7. Shapes'
    BY <1>1, <1>2 DEF Shapes
  <1>8. Covering'
    <2> DEFINE q == j \div 4
               c == j % 4
    <2>1. q \in Row /\ c \in Row
      BY <1>3 DEF Row
    <2>2. temp_sub' = x[q][c]
      BY <1>1
    <2> HIDE DEF q, c
    <2>3. Hidden(x[q][c])
      BY <1>2, <2>1, Unmask
    <2>4. Hidden(temp_sub') /\ \A v \in stored' : Hidden(v)
      BY <1>1, <2>2, <2>3
    <2>5. Hidden(temp_sub)'
      BY <2>4 DEF Hidden, MaskOf, OfSecret
    <2> QED BY <1>3, <2>4, <2>5, RoundCovering
  <1>9. Stage' = "sub" /\ Stage = "sub"
    BY <1>1 DEF Stage
  <1>10. SameBytes
    BY <1>3, <1>4 DEF SameBytes
  <1> QED BY <1>1, <1>3, <1>5, <1>6, <1>7, <1>8, <1>9, <1>10, Stutters DEF MaskInv, SameKeys

LEMMA StepLookupByte ==
  ASSUME MaskInv, LookupByte
  PROVE  /\ MaskInv' /\ SameKeys /\ Plain!SubByte
         /\ \A u : Met(sbox, u) => Met(sbox', u) /\ sbox'[u] = sbox[u]
  <1>1. /\ pc = "lookup" /\ pc' = (IF j < 15 THEN "index" ELSE "shift_rows")
        /\ sbox' = Consulted(sbox, Hooked ++ m) /\ sboxp_access' = sboxp_access + 1
        /\ x' = [x EXCEPT ![j \div 4][j % 4] = SBoxPrime] /\ j' = (j + 1) % 16
        /\ stored' = {SBoxPrime}
        /\ UNCHANGED << prog, i, key, round_key, mpt, temp, ciphered_text, round, temp_sub >>
    BY DEF LookupByte, Access, Goto, Cipher
  <1>2. pc \in Rounds /\ pc' \in Rounds /\ Shapes /\ Counters /\ round <= 9
    BY <1>1 DEF Rounds, MaskInv, Counters
  <1>3. /\ \A n : KeyByte(n)' = KeyByte(n)
        /\ UNCHANGED [n \in 0 .. 175 |-> KeyByte(n)]
        /\ Temp' /\ \A r \in Row : Hidden(temp[r])' /\ mpt[r] = RowMask(r)
        /\ i = 44 /\ sboxp_access \in Nat /\ sboxp_access >= 40 /\ j \in 0 .. 15 /\ round \in 0 .. 10
    BY <1>1, <1>2, InRounds
  <1> DEFINE jr == j \div 4
             jc == j % 4
  <1>4. /\ jr \in Row /\ jc \in Row /\ 4 * jr + jc = j
        /\ \A r \in Row, c \in Row : r * 4 + c = j => r = jr /\ c = jc
        /\ x' = [x EXCEPT ![jr][jc] = SBoxPrime]
    BY <1>1, <1>3 DEF Row
  <1>5. Hooked = x[jr][jc]
    BY <1>1, InvHook DEF HookExact
  <1>6. jr * 4 + jc = j
    BY <1>4 DEF Row
  <1>7. j \div 4 = jr /\ j % 4 = jc
    OBVIOUS
  <1> HIDE DEF jr, jc
  <1> DEFINE v == StateByte(jr, jc)
  <1>8. Hooked ++ m = v /\ Bare(v)
    <2>1. StateMask(jr, jc) = m
      BY <1>1, <1>3, <1>6 DEF StateMask
    <2>2. x[jr][jc] = v ++ m
      BY <1>1, <1>4, <2>1, Unmask
    <2> QED BY <1>4, <1>5, <2>2, SumCancels DEF MaskInv, Bytes
  <1>9. v = StateByte(jr, jc)
    OBVIOUS
  <1> HIDE DEF v
  <1>10. /\ Bare(SBox(sbox, v)) /\ sbox' = Consulted(sbox, v)
         /\ \A u : Met(sbox, u) => Met(sbox', u) /\ sbox'[u] = sbox[u]
         /\ \A u \in DOMAIN (sbox') : Bare(u) /\ Bare(sbox'[u])
    BY <1>1, <1>8, Consulting
  <1>11. SBoxPrime = SBox(sbox, v) ++ mp /\ Hidden(SBoxPrime)
    <2>1. SBoxPrime = SBox(sbox, v) ++ mp
      BY <1>8 DEF SBoxPrime
    <2> QED BY <1>4, <1>10, <2>1, HiddenUnder, MasksHide
  <1>12. /\ x' = [r \in Row |-> [c \in Row |-> x'[r][c]]]
         /\ \A r \in Row, c \in Row :
              x'[r][c] = (IF r = jr /\ c = jc THEN SBoxPrime ELSE x[r][c])
    <2>1. x = [r \in Row |-> [c \in Row |-> x[r][c]]]
      BY <1>2 DEF Shapes
    <2>2. x' = [r \in Row |-> IF r = jr THEN [x[r] EXCEPT ![jc] = SBoxPrime] ELSE x[r]]
      BY <1>4, <2>1
    <2>3. ASSUME NEW r \in Row
          PROVE  x'[r] = [c \in Row |-> IF r = jr /\ c = jc THEN SBoxPrime ELSE x[r][c]]
      <3>1. x[r] = [c \in Row |-> x[r][c]]
        BY <2>1
      <3>2. CASE r = jr
        BY <2>2, <3>1, <3>2
      <3>3. CASE r # jr
        BY <2>2, <3>1, <3>3
      <3> QED BY <3>2, <3>3
    <2>4. DOMAIN (x') = Row /\ x' = [r \in Row |-> x'[r]]
      BY <2>2
    <2> HIDE <2>2
    <2>5. ASSUME NEW r \in Row PROVE x'[r] = [c \in Row |-> x'[r][c]]
      BY <2>3
    <2> QED BY <2>3, <2>4, <2>5
  <1>13. ASSUME NEW r \in Row, NEW c \in Row
         PROVE  /\ StateByte(r, c)' = (IF r = jr /\ c = jc THEN SBox(sbox, v) ELSE StateByte(r, c))
                /\ Bare(StateByte(r, c)')
    <2>1. Bare(StateByte(r, c))
      BY DEF MaskInv, Bytes
    <2>2. r * 4 + c \in 0 .. 15 /\ (r * 4 + c = j <=> r = jr /\ c = jc)
      BY <1>4, <1>6 DEF Row
    <2>3. StateMask(r, c)' = (IF r * 4 + c <= j THEN mp ELSE m)
      <3>1. CASE j < 15
        <4>1. pc' = "index" /\ j' = j + 1 /\ (r * 4 + c < j' <=> r * 4 + c <= j)
          BY <1>1, <1>3, <2>2, <3>1
        <4> QED BY <4>1 DEF StateMask
      <3>2. CASE j = 15
        <4>1. pc' = "shift_rows" /\ r * 4 + c <= j
          BY <1>1, <2>2, <3>2
        <4> QED BY <4>1 DEF StateMask
      <3> QED BY <1>3, <3>1, <3>2
    <2>4. StateByte(r, c)' = x'[r][c] ++ StateMask(r, c)'
      BY <1>1 DEF StateByte
    <2>5. CASE r = jr /\ c = jc
      <3>1. StateMask(r, c)' = mp /\ x'[r][c] = SBox(sbox, v) ++ mp
        BY <1>3, <1>11, <1>12, <2>2, <2>3, <2>5
      <3> QED BY <1>10, <2>4, <2>5, <3>1, SumCancels
    <2>6. CASE ~(r = jr /\ c = jc)
      <3>1. x'[r][c] = x[r][c]
        BY <1>12, <2>6
      <3>2. r * 4 + c <= j <=> r * 4 + c < j
        BY <1>3, <2>2, <2>6
      <3>3. StateMask(r, c)' = StateMask(r, c)
        BY <1>1, <2>3, <3>2 DEF StateMask
      <3>4. StateByte(r, c) = x[r][c] ++ StateMask(r, c)
        BY <1>1 DEF StateByte
      <3> QED BY <2>1, <2>4, <2>6, <3>1, <3>3, <3>4
    <2> QED BY <2>5, <2>6
  <1>14. Bytes'
    <2>1. pc' # "lookup" /\ pc' # "done" /\ pc # "done"
      BY <1>1
    <2>2. \A r \in Row, c \in Row : Bare(StateByte(r, c)')
      BY <1>13
    <2>3. \A u \in DOMAIN (sbox') : Bare(u) /\ Bare(sbox'[u])
      BY <1>10
    <2> QED BY <1>1, <1>2, <2>1, <2>2, <2>3, RoundBytes
  <1>15. Counters'
    <2>1. j' \in 0 .. 15 /\ sboxp_access' \in Nat /\ sboxp_access' >= 40
      BY <1>1, <1>3
    <2> QED BY <1>1, <1>2, <1>3, <2>1 DEF Counters, Early, Words, Rounds
  <1>16. Shapes'
    BY <1>1, <1>2, <1>12 DEF Shapes
  <1>17. Covering'
    <2>1. \A u \in stored' : Hidden(u)
      BY <1>1, <1>11
    <2> QED BY <1>1, <1>3, <2>1, SubHidden, RoundCovering
  <1>18. Plain!SubByte
    <2> DEFINE S == [r \in Row |-> [c \in Row |-> StateByte(r, c)]]
    <2>1. Stage = "sub" /\ Stage' = (IF j < 15 THEN "sub" ELSE "shift")
      BY <1>1 DEF Stage
    <2>2. S[jr][jc] = v
      BY <1>4, <1>9
    <2>3. S' = [S EXCEPT ![jr][jc] = SBox(sbox, v)]
      <3>1. S' = [r \in Row |-> [c \in Row |-> StateByte(r, c)']]
        OBVIOUS
      <3>2. ASSUME NEW r \in Row
            PROVE  [c \in Row |-> StateByte(r, c)'] =
                     (IF r = jr THEN [S[r] EXCEPT ![jc] = SBox(sbox, v)] ELSE S[r])
        <4>1. S[r] = [c \in Row |-> StateByte(r, c)]
          OBVIOUS
        <4>2. CASE r = jr
          BY <1>13, <4>1, <4>2
        <4>3. CASE r # jr
          BY <1>13, <4>1, <4>3
        <4> QED BY <4>2, <4>3
      <3>3. DOMAIN S = Row
        OBVIOUS
      <3> HIDE DEF S
      <3>4. S' = [r \in Row |-> IF r = jr THEN [S[r] EXCEPT ![jc] = SBox(sbox, v)] ELSE S[r]]
        BY <3>1, <3>2
      <3> QED BY <1>4, <3>3, <3>4
    <2>4. Plain!SBox(sbox, v) = SBox(sbox, v) /\ sbox' = Plain!Consulted(sbox, v)
      BY <1>10, SameOperators
    <2>5. (IF Stage = "sub" THEN j ELSE 0) = j /\ (IF Stage' = "sub" THEN j' ELSE 0) = (j + 1) % 16
      <3>1. CASE j < 15
        BY <1>1, <2>1, <3>1
      <3>2. CASE j = 15
        BY <2>1, <3>2
      <3> QED BY <1>3, <2>1, <3>1, <3>2
    <2>6. S' = [S EXCEPT ![j \div 4][j % 4] = Plain!SBox(sbox, S[j \div 4][j % 4])]
          /\ sbox' = Plain!Consulted(sbox, S[j \div 4][j % 4])
      BY <1>7, <2>2, <2>3, <2>4
    <2> QED BY <1>1, <1>3, <2>1, <2>5, <2>6 DEF Plain!SubByte, Plain!key
  <1> QED BY <1>3, <1>10, <1>14, <1>15, <1>16, <1>17, <1>18 DEF MaskInv, SameKeys

LEMMA StepShiftRows ==
  ASSUME MaskInv, shift_rows PROVE MaskInv' /\ SameKeys /\ Plain!ShiftRows
  <1>1. /\ pc = "shift_rows" /\ pc' = (IF round < 9 THEN "change_masks" ELSE "add_round_key")
        /\ x' = [r \in Row |-> [c \in Row |-> x[r][(c + r) % 4]]]
        /\ round' = (IF round < 9 THEN round ELSE 10)
        /\ stored' = UNION {Range(x'[r]) : r \in 1 .. 3}
        /\ UNCHANGED << prog, i, key, round_key, mpt, temp, ciphered_text, j, temp_sub, sbox, sboxp_access >>
    BY DEF shift_rows, Shifted, Goto, Cipher
  <1>2. pc \in Rounds /\ pc' \in Rounds /\ Shapes /\ Counters /\ round <= 9 /\ Measured
    BY <1>1 DEF Rounds, MaskInv, Counters, Measured, Labels
  <1>3. /\ \A n : KeyByte(n)' = KeyByte(n)
        /\ UNCHANGED [n \in 0 .. 175 |-> KeyByte(n)]
        /\ Temp' /\ \A r \in Row : Hidden(temp[r])' /\ mpt[r] = RowMask(r)
        /\ i = 44 /\ sboxp_access \in Nat /\ sboxp_access >= 40 /\ j \in 0 .. 15 /\ round \in 0 .. 10
    BY <1>1, <1>2, InRounds
  <1>4. ASSUME NEW r \in Row, NEW c \in Row
        PROVE  /\ (c + r) % 4 \in Row /\ x'[r][c] = x[r][(c + r) % 4]
               /\ StateByte(r, c)' = StateByte(r, (c + r) % 4)
               /\ Bare(StateByte(r, c)') /\ Hidden(x'[r][c])
    <2> DEFINE d == (c + r) % 4
    <2>1. d \in Row
      BY DEF Row
    <2>2. x'[r][c] = x[r][d]
      BY <1>1
    <2> HIDE DEF d
    <2>3. StateMask(r, d) = mp
      BY <1>1 DEF StateMask
    <2>4. StateMask(r, c)' = mp
      BY <1>1, <1>2, <1>3 DEF StateMask
    <2>5. StateByte(r, d) = x[r][d] ++ mp
      BY <1>1, <2>3 DEF StateByte
    <2>6. StateByte(r, c)' = x'[r][c] ++ mp
      BY <1>1, <2>4 DEF StateByte
    <2>7. Bare(StateByte(r, d)) /\ Hidden(x[r][d])
      BY <1>2, <2>1, Unmask DEF MaskInv, Bytes
    <2> QED BY <2>1, <2>2, <2>5, <2>6, <2>7 DEF d
  <1>5. Bytes'
    <2>1. \A v \in DOMAIN (sbox') : Bare(v) /\ Bare(sbox'[v])
      BY <1>1 DEF MaskInv, Bytes
    <2> QED BY <1>1, <1>2, <1>4, <2>1, RoundBytes
  <1>6. Counters'
    BY <1>1, <1>2, <1>3 DEF Counters, Early, Words, Rounds
  <1>7. Shapes'
    BY <1>1, <1>2 DEF Shapes
  <1>8. Covering'
    <2> DEFINE S == x'
    <2>1. S = [r \in Row |-> [c \in Row |-> S[r][c]]] /\ stored' = UNION {Range(S[r]) : r \in 1 .. 3}
      BY <1>1
    <2>2. \A r \in Row, c \in Row : Hidden(S[r][c])
      BY <1>4
    <2> HIDE DEF S
    <2>3. UNION {Range(S[r]) : r \in 1 .. 3} \subseteq UNION {Range(S[r]) : r \in Row}
      BY DEF Row
    <2>4. \A v \in stored' : Hidden(v)
      BY <2>1, <2>2, <2>3, StateHidden
    <2> QED BY <1>1, <1>3, <2>4, SubHidden, RoundCovering
  <1>9. Plain!ShiftRows
    <2> DEFINE S == [r \in Row |-> [c \in Row |-> StateByte(r, c)]]
    <2>1. Stage = "shift" /\ Stage' = (IF round < 9 THEN "mix" ELSE "add")
      BY <1>1 DEF Stage
    <2>2. S' = [r \in Plain!Row |-> [c \in Plain!Row |-> S[r][(c + r) % 4]]]
      <3>1. ASSUME NEW r \in Row, NEW c \in Row PROVE StateByte(r, c)' = S[r][(c + r) % 4]
        BY <1>4
      <3>2. S' = [r \in Row |-> [c \in Row |-> StateByte(r, c)']]
        BY DEF S
      <3> HIDE DEF S
      <3> QED BY <3>1, <3>2, SameOperators
    <2> QED BY <1>1, <1>3, <2>1, <2>2 DEF Plain!ShiftRows, Plain!key
  <1> QED BY <1>3, <1>5, <1>6, <1>7, <1>8, <1>9 DEF MaskInv, SameKeys

LEMMA StepChangeMasks ==
  ASSUME MaskInv, change_masks PROVE MaskInv' /\ SameKeys /\ UNCHANGED Plain!vars
  <1>1. /\ pc = "change_masks" /\ pc' = "mix_columns"
        /\ x' = [r \in Row |-> [c \in Row |-> x[r][c] ++ mt[r] ++ mp]]
        /\ UNCHANGED << prog, i, key, round_key, mpt, temp, ciphered_text, j, round, temp_sub, sbox, sboxp_access >>
    BY DEF change_masks, MaskChanges, Goto, Cipher
  <1>2. pc \in Rounds /\ pc' \in Rounds /\ Shapes /\ Counters /\ round <= 8 /\ Measured
    BY <1>1 DEF Rounds, MaskInv, Counters, Measured, Labels
  <1>3. /\ \A n : KeyByte(n)' = KeyByte(n)
        /\ Temp' /\ \A r \in Row : Hidden(temp[r])' /\ mpt[r] = RowMask(r)
        /\ i = 44 /\ sboxp_access \in Nat /\ sboxp_access >= 40 /\ j \in 0 .. 15 /\ round \in 0 .. 10
    BY <1>1, <1>2, InRounds
  <1>4. ASSUME NEW r \in Row, NEW c \in Row
        PROVE  /\ StateByte(r, c)' = StateByte(r, c) /\ Bare(StateByte(r, c)')
               /\ Hidden(x'[r][c]) /\ Hidden(x[r][c] ++ mt[r])
    <2> DEFINE u == StateByte(r, c)
               k == mt[r]
    <2>1. StateMask(r, c) = mp /\ StateMask(r, c)' = k
      BY <1>1 DEF StateMask
    <2>2. x[r][c] = u ++ mp
      BY <1>1, <2>1, Unmask
    <2>3. StateByte(r, c)' = x'[r][c] ++ k
      BY <1>1, <2>1 DEF StateByte
    <2>4. x'[r][c] = (x[r][c] ++ k) ++ mp
      BY <1>1
    <2>5. Bare(u)
      BY DEF MaskInv, Bytes
    <2>6. OnlyMasks(k) /\ k # {} /\ OnlyMasks(mp ++ k) /\ mp ++ k # {}
      BY MasksHide
    <2>7. u = StateByte(r, c) /\ k = mt[r]
      OBVIOUS
    <2> HIDE DEF u, k
    <2>8. (u ++ mp) ++ k = u ++ (mp ++ k)
      BY SumAssociates
    <2>9. ((u ++ mp) ++ k) ++ mp = u ++ k
      BY DEF ++
    <2>10. x'[r][c] = u ++ k /\ StateByte(r, c)' = u
      BY <2>2, <2>3, <2>4, <2>9, SumCancels
    <2>11. Hidden(u ++ k) /\ Hidden(u ++ (mp ++ k))
      BY <2>5, <2>6, HiddenUnder
    <2> QED BY <2>2, <2>5, <2>7, <2>8, <2>10, <2>11
  <1>5. Bytes'
    <2>1. \A v \in DOMAIN (sbox') : Bare(v) /\ Bare(sbox'[v])
      BY <1>1 DEF MaskInv, Bytes
    <2> QED BY <1>1, <1>2, <1>4, <2>1, RoundBytes
  <1>6. Counters'
    BY <1>1, <1>2, <1>3 DEF Counters, Early, Words, Rounds
  <1>7. Shapes'
    BY <1>1, <1>2 DEF Shapes
  <1>8. Covering'
    <2> DEFINE S == x'
               H == {x[r][c] ++ mt[r] : r \in Row, c \in Row}
               U == UNION {Range(S[r]) : r \in Row}
    <2>1. \A v \in stored' : v \in U \/ v \in H
      <3> DEFINE G == {x[r][c] ++ MaskChanges(r)[1] : r \in Row, c \in Row}
      <3>1. stored' = U \union (IF prog.stepwise THEN G ELSE {})
        BY DEF change_masks
      <3>2. \A v \in G : v \in H
        BY DEF MaskChanges
      <3> HIDE DEF U, H, G
      <3> QED BY <3>1, <3>2
    <2>0. S = [r \in Row |-> [c \in Row |-> S[r][c]]]
      BY <1>1
    <2>2. \A r \in Row, c \in Row : Hidden(S[r][c])
      BY <1>4
    <2>3. \A v \in H : Hidden(v)
      BY <1>4
    <2> HIDE DEF S, H
    <2>4. \A v \in U : Hidden(v)
      BY <2>0, <2>2, StateHidden
    <2> HIDE DEF U
    <2>5. \A v \in stored' : Hidden(v)
      BY <2>1, <2>3, <2>4
    <2> QED BY <1>1, <1>3, <2>5, SubHidden, RoundCovering
  <1>9. Stage' = "mix" /\ Stage = "mix"
    BY <1>1 DEF Stage
  <1>10. SameBytes
    BY <1>3, <1>4 DEF SameBytes
  <1> QED BY <1>1, <1>3, <1>5, <1>6, <1>7, <1>8, <1>9, <1>10, Stutters DEF MaskInv, SameKeys

\* A column of masked bytes is mixed as the column and its masks are.
LEMMA MixedColumn ==
  ASSUME NEW u0, NEW k0, NEW u1, NEW k1, NEW u2, NEW k2, NEW u3, NEW k3,
         Proper(u0), Proper(u1), Proper(k0), Proper(k1)
  PROVE  xtime(u0 ++ k0) ++ (u3 ++ k3) ++ (u2 ++ k2) ++ xtime(u1 ++ k1) ++ (u1 ++ k1)
           = (xtime(u0 ++ u1) ++ u1 ++ u2 ++ u3) ++ (xtime(k0) ++ k3 ++ k2 ++ xtime(k1) ++ k1)
  <1>1. /\ xtime(u0 ++ k0) = xtime(u0) ++ xtime(k0) /\ xtime(u1 ++ k1) = xtime(u1) ++ xtime(k1)
        /\ xtime(u0 ++ u1) = xtime(u0) ++ xtime(u1)
    BY XtimeSum
  <1> DEFINE a0 == xtime(u0)
             b0 == xtime(k0)
             a1 == xtime(u1)
             b1 == xtime(k1)
  <1> HIDE DEF a0, b0, a1, b1
  <1>2. (a0 ++ b0) ++ (u3 ++ k3) ++ (u2 ++ k2) ++ (a1 ++ b1) ++ (u1 ++ k1)
          = ((a0 ++ a1) ++ u1 ++ u2 ++ u3) ++ (b0 ++ k3 ++ k2 ++ b1 ++ k1)
    <2> SUFFICES ASSUME NEW t
                 PROVE  t \in (a0 ++ b0) ++ (u3 ++ k3) ++ (u2 ++ k2) ++ (a1 ++ b1) ++ (u1 ++ k1)
                          <=> t \in ((a0 ++ a1) ++ u1 ++ u2 ++ u3) ++ (b0 ++ k3 ++ k2 ++ b1 ++ k1)
      OBVIOUS
    <2> QED BY InSum
  <1> QED BY <1>1, <1>2 DEF a0, b0, a1, b1


LEMMA StepMixColumns ==
  ASSUME MaskInv, mix_columns PROVE MaskInv' /\ SameKeys /\ Plain!MixColumns
  <1>1. /\ pc = "mix_columns" /\ pc' = "add_round_key"
        /\ x' = [r \in Row |-> [c \in Row |-> mix_column(Column(c))[r]]]
        /\ round' = round + 1 /\ stored' = UNION {Range(x'[r]) : r \in Row}
        /\ UNCHANGED << prog, i, key, round_key, mpt, temp, ciphered_text, j, temp_sub, sbox, sboxp_access >>
    BY DEF mix_columns, Goto, Cipher
  <1>2. pc \in Rounds /\ pc' \in Rounds /\ Shapes /\ Counters /\ round <= 8 /\ Measured
    BY <1>1 DEF Rounds, MaskInv, Counters, Measured, Labels
  <1>3. /\ \A n : KeyByte(n)' = KeyByte(n)
        /\ UNCHANGED [n \in 0 .. 175 |-> KeyByte(n)]
        /\ Temp' /\ \A r \in Row : Hidden(temp[r])' /\ mpt[r] = RowMask(r)
        /\ i = 44 /\ sboxp_access \in Nat /\ sboxp_access >= 40 /\ j \in 0 .. 15 /\ round \in 0 .. 10
    BY <1>1, <1>2, InRounds
  <1> DEFINE Mix(r, c) == xtime(StateByte(r, c) ++ StateByte((r + 1) % 4, c)) ++ StateByte((r + 1) % 4, c)
                            ++ StateByte((r + 2) % 4, c) ++ StateByte((r + 3) % 4, c)
  <1>4. ASSUME NEW r \in Row, NEW c \in Row
        PROVE  StateByte(r, c)' = Mix(r, c) /\ Bare(Mix(r, c)) /\ Hidden(x'[r][c])
    <2> DEFINE r1 == (r + 1) % 4
               r2 == (r + 2) % 4
               r3 == (r + 3) % 4
    <2>1. r1 \in Row /\ r2 \in Row /\ r3 \in Row
      BY DEF Row
    <2>2. x'[r][c] = xtime(x[r][c]) ++ x[r3][c] ++ x[r2][c] ++ xtime(x[r1][c]) ++ x[r1][c]
      BY <1>1, <2>1 DEF mix_column, Column
    <2>3. RowMask(r) = xtime(mt[r]) ++ mt[r3] ++ mt[r2] ++ xtime(mt[r1]) ++ mt[r1]
      BY DEF RowMask, mix_column
    <2>4. Mix(r, c) = xtime(StateByte(r, c) ++ StateByte(r1, c)) ++ StateByte(r1, c)
                        ++ StateByte(r2, c) ++ StateByte(r3, c)
      OBVIOUS
    <2> HIDE DEF r1, r2, r3, Mix
    <2>5. ASSUME NEW q \in Row
          PROVE  /\ x[q][c] = StateByte(q, c) ++ mt[q] /\ Bare(StateByte(q, c)) /\ OnlyMasks(mt[q])
                 /\ Proper(StateByte(q, c)) /\ Proper(mt[q])
      <3>1. StateMask(q, c) = mt[q]
        BY <1>1 DEF StateMask
      <3>2. x[q][c] = StateByte(q, c) ++ mt[q] /\ Bare(StateByte(q, c))
        BY <1>1, <3>1, Unmask DEF MaskInv, Bytes
      <3> QED BY <3>2, MaskTerms DEF Bare, OnlyMasks
    <2> DEFINE u0 == StateByte(r, c)
               u1 == StateByte(r1, c)
               u2 == StateByte(r2, c)
               u3 == StateByte(r3, c)
               k0 == mt[r]
               k1 == mt[r1]
               k2 == mt[r2]
               k3 == mt[r3]
    <2>6. /\ x[r][c] = u0 ++ k0 /\ x[r1][c] = u1 ++ k1 /\ x[r2][c] = u2 ++ k2 /\ x[r3][c] = u3 ++ k3
          /\ Bare(u0) /\ Bare(u1) /\ Bare(u2) /\ Bare(u3)
          /\ Proper(u0) /\ Proper(u1) /\ Proper(k0) /\ Proper(k1)
      BY <2>1, <2>5
    <2>7. /\ RowMask(r) = xtime(k0) ++ k3 ++ k2 ++ xtime(k1) ++ k1
          /\ Mix(r, c) = xtime(u0 ++ u1) ++ u1 ++ u2 ++ u3
      BY <2>3, <2>4
    <2> HIDE DEF u0, u1, u2, u3, k0, k1, k2, k3
    <2>8. x'[r][c] = xtime(u0 ++ k0) ++ (u3 ++ k3) ++ (u2 ++ k2) ++ xtime(u1 ++ k1) ++ (u1 ++ k1)
      BY <2>2, <2>6
    <2>9. x'[r][c] = Mix(r, c) ++ RowMask(r)
      BY <2>6, <2>7, <2>8, MixedColumn
    <2>10. Bare(Mix(r, c))
      <3>1. Bare(xtime(u0 ++ u1))
        BY <2>6, BareSum, BareXtime
      <3> QED BY <2>6, <2>7, <3>1, BareSum
    <2>11. StateMask(r, c)' = RowMask(r)
      <3>1. mpt'[r] = RowMask(r) /\ round' < 10
        BY <1>1, <1>2, <1>3
      <3> QED BY <1>1, <3>1 DEF StateMask
    <2>12. StateByte(r, c)' = x'[r][c] ++ StateMask(r, c)'
      BY <1>1 DEF StateByte
    <2>13. StateByte(r, c)' = Mix(r, c)
      BY <2>9, <2>11, <2>12, SumCancels
    <2>14. Hidden(x'[r][c])
      BY <2>9, <2>10, MasksHide, HiddenUnder
    <2> QED BY <2>10, <2>13, <2>14
  <1>5. Bytes'
    <2>1. \A v \in DOMAIN (sbox') : Bare(v) /\ Bare(sbox'[v])
      BY <1>1 DEF MaskInv, Bytes
    <2>2. \A r \in Row, c \in Row : Bare(StateByte(r, c)')
      BY <1>4
    <2>3. pc' # "done" /\ pc # "done" /\ pc' # "lookup"
      BY <1>1
    <2> QED BY <1>1, <1>2, <2>1, <2>2, <2>3, RoundBytes
  <1>6. Counters'
    BY <1>1, <1>2, <1>3 DEF Counters, Early, Words, Rounds
  <1>7. Shapes'
    BY <1>1, <1>2 DEF Shapes
  <1>8. Covering'
    <2> DEFINE S == x'
    <2>1. S = [r \in Row |-> [c \in Row |-> S[r][c]]] /\ stored' = UNION {Range(S[r]) : r \in Row}
      BY <1>1
    <2>2. \A r \in Row, c \in Row : Hidden(S[r][c])
      BY <1>4
    <2> HIDE DEF S
    <2>3. \A v \in stored' : Hidden(v)
      BY <2>1, <2>2, StateHidden
    <2> QED BY <1>1, <1>3, <2>3, SubHidden, RoundCovering
  <1>9. Plain!MixColumns
    <2> DEFINE S == [r \in Row |-> [c \in Row |-> StateByte(r, c)]]
    <2>1. Stage = "mix" /\ Stage' = "add"
      BY <1>1 DEF Stage
    <2>2. ASSUME NEW r \in Row, NEW c \in Row PROVE StateByte(r, c)' = Plain!Mixed(r, c)
      <3>1. r \in Row /\ (r + 1) % 4 \in Row /\ (r + 2) % 4 \in Row /\ (r + 3) % 4 \in Row
        BY DEF Row
      <3>2. Plain!Mixed(r, c) = Mix(r, c)
        BY <3>1, SameOperators DEF Plain!Mixed
      <3> QED BY <1>4, <3>2
    <2>3. S' = [r \in Row |-> [c \in Row |-> StateByte(r, c)']]
      OBVIOUS
    <2> HIDE DEF S
    <2>4. S' = [r \in Plain!Row |-> [c \in Plain!Row |-> Plain!Mixed(r, c)]]
      BY <2>2, <2>3, SameOperators
    <2> QED BY <1>1, <1>3, <2>1, <2>4 DEF Plain!MixColumns, Plain!key, S
  <1> QED BY <1>3, <1>5, <1>6, <1>7, <1>8, <1>9 DEF MaskInv, SameKeys

LEMMA StepOutput ==
  ASSUME MaskInv, Output PROVE MaskInv' /\ SameKeys /\ Plain!Cipher
  <1>1. /\ pc = "output" /\ pc' = "done"
        /\ ciphered_text' = [n \in 0 .. 15 |-> x[n % 4][n \div 4]]
        /\ UNCHANGED << prog, i, key, round_key, mpt, temp, x, j, round, temp_sub, sbox, sboxp_access >>
    BY DEF Output, Goto
  <1>2. pc \in Rounds /\ pc' \in Rounds /\ Shapes /\ Counters
    BY <1>1 DEF Rounds, MaskInv
  <1>3. /\ \A n : KeyByte(n)' = KeyByte(n)
        /\ UNCHANGED [n \in 0 .. 175 |-> KeyByte(n)]
        /\ Temp' /\ \A r \in Row : Hidden(temp[r])' /\ mpt[r] = RowMask(r)
        /\ i = 44 /\ sboxp_access \in Nat /\ sboxp_access >= 40 /\ j \in 0 .. 15 /\ round \in 0 .. 10
    BY <1>1, <1>2, InRounds
  <1>4. ASSUME NEW r \in Row, NEW c \in Row
        PROVE  StateByte(r, c)' = StateByte(r, c) /\ Bare(StateByte(r, c)') /\ x[r][c] = StateByte(r, c)
    <2>1. StateMask(r, c) = Zero /\ StateMask(r, c)' = Zero
      BY <1>1 DEF StateMask
    <2>2. StateByte(r, c) = x[r][c] ++ Zero /\ StateByte(r, c)' = x[r][c] ++ Zero
      BY <1>1, <2>1 DEF StateByte
    <2>3. Bare(StateByte(r, c))
      BY DEF MaskInv, Bytes
    <2> QED BY <2>2, <2>3, SumCancels
  <1>5. Bytes'
    <2>1. \A v \in DOMAIN (sbox') : Bare(v) /\ Bare(sbox'[v])
      BY <1>1 DEF MaskInv, Bytes
    <2> QED BY <1>1, <1>2, <1>4, <2>1, RoundBytes
  <1>6. Counters'
    BY <1>1, <1>2, <1>3 DEF Counters, Early, Words, Rounds
  <1>7. Shapes'
    BY <1>1, <1>2 DEF Shapes
  <1>8. Covering'
    BY <1>1, <1>3, SubHidden, RoundCovering DEF Measured
  <1>9. Plain!Cipher
    <2> DEFINE S == [r \in Row |-> [c \in Row |-> StateByte(r, c)]]
    <2>1. Stage = "out" /\ Stage' = "done"
      BY <1>1 DEF Stage
    <2>2. S' = S
      BY <1>4
    <2>3. ciphered_text' = [n \in 0 .. 15 |-> S[n % 4][n \div 4]]
      <3>1. ASSUME NEW n \in 0 .. 15 PROVE x[n % 4][n \div 4] = S[n % 4][n \div 4]
        <4>1. n % 4 \in Row /\ n \div 4 \in Row
          BY DEF Row
        <4> QED BY <1>4, <4>1
      <3> QED BY <1>1, <3>1
    <2> QED BY <1>1, <1>3, <2>1, <2>2, <2>3 DEF Plain!Cipher, Plain!key
  <1> QED BY <1>3, <1>5, <1>6, <1>7, <1>8, <1>9 DEF MaskInv, SameKeys


-----------------------------------------------------------------------------
(* Every step *)

LEMMA PlainInit == Init => Plain!Init
  <1> SUFFICES ASSUME Init PROVE Plain!Init
    OBVIOUS
  <1>1. /\ pc = "masked_aes" /\ i = 4 /\ round = 0 /\ j = 0 /\ key = [n \in 0 .. 15 |-> Unknown("S", n)]
        /\ ciphered_text = [n \in 0 .. 15 |-> Zero] /\ sbox = [v \in {} |-> Zero]
    BY DEF Init
  <1>2. Stage = "add"
    BY <1>1 DEF Stage
  <1>3. ASSUME NEW n \in 0 .. 175 PROVE KeyByte(n) = (IF n < 16 THEN Unknown("S", n) ELSE Zero)
    BY <1>1 DEF KeyByte
  <1>4. \A r \in Row, c \in Row : StateByte(r, c) = Unknown("P", r * 4 + c)
    BY <1>1 DEF StateByte
  <1> QED BY <1>1, <1>2, <1>3, <1>4, SameOperators DEF Plain!Init

LEMMA MaskIdle == ASSUME MaskInv, UNCHANGED vars PROVE MaskInv'
  <1>1. UNCHANGED << prog, pc, i, j, round, key, round_key, mpt, temp, temp_sub, x, ciphered_text,
                     sbox, sboxp_access, stored >>
    BY DEF vars, memory
  <1>2. \A n \in 0 .. 175 : KeyByte(n)' = KeyByte(n)
    BY <1>1 DEF KeyByte, KeyMask
  <1>3. \A r \in Row, c \in Row : StateByte(r, c)' = StateByte(r, c)
    BY <1>1 DEF StateByte, StateMask
  <1>4. Counters' /\ Shapes'
    BY <1>1 DEF MaskInv, Counters, Shapes
  <1>5. Bytes'
    <2>1. Bytes
      BY DEF MaskInv
    <2>2. /\ \A n \in 0 .. 175 : Bare(KeyByte(n)')
          /\ \A r \in Row, c \in Row : Bare(StateByte(r, c)')
      BY <1>2, <1>3, <2>1 DEF Bytes
    <2> QED BY <1>1, <2>1, <2>2 DEF Bytes, Bare, Proper
  <1>6. \A r : KeyByte(4 * (i - 1) + r)' = KeyByte(4 * (i - 1) + r) /\ KeyMask(4 * (i - 1) + r)' = KeyMask(4 * (i - 1) + r)
    BY <1>1 DEF KeyByte, KeyMask
  <1>7. \A r : Word(r)' = Word(r) /\ Rotated(r)' = Rotated(r) /\ AddedByte(r)' = AddedByte(r) /\ AddedMask(r)' = AddedMask(r)
    BY <1>1, <1>6 DEF Word, Rotated, AddedByte, AddedMask
  <1>8. Temp'
    BY <1>1, <1>7 DEF MaskInv, Temp, Met
  <1>9. Covering'
    BY <1>1 DEF MaskInv, Covering, Hidden, Measured, MaskOf, OfSecret
  <1> QED BY <1>4, <1>5, <1>8, <1>9 DEF MaskInv

LEMMA MaskNext ==
  ASSUME MaskInv, [Next]_vars PROVE MaskInv' /\ [Plain!Next]_Plain!vars
  <1>1. CASE masked_aes
    BY <1>1, StepMaskedAes
  <1>2. CASE mask_plain_text
    BY <1>2, StepMaskPlainText
  <1>3. CASE init_masked_aes_keys
    BY <1>3, StepInitKeys
  <1>4. CASE LoadWord
    BY <1>4, StepLoadWord
  <1>5. CASE RotateWord
    BY <1>5, StepRotateWord
  <1>6. CASE SubWord
    BY <1>6, StepSubWord DEF Plain!Next
  <1>7. CASE AddRcon
    BY <1>7, StepAddRcon
  <1>8. CASE StoreWord
    BY <1>8, StepStoreWord DEF Plain!Next
  <1>9. CASE add_round_key
    BY <1>9, StepAddRoundKey DEF Plain!Next
  <1>10. CASE IndexByte
    BY <1>10, StepIndexByte
  <1>11. CASE LookupByte
    BY <1>11, StepLookupByte DEF Plain!Next
  <1>12. CASE shift_rows
    BY <1>12, StepShiftRows DEF Plain!Next
  <1>13. CASE change_masks
    BY <1>13, StepChangeMasks
  <1>14. CASE mix_columns
    BY <1>14, StepMixColumns DEF Plain!Next
  <1>15. CASE Output
    BY <1>15, StepOutput DEF Plain!Next
  <1>16. CASE UNCHANGED vars
    <2>1. UNCHANGED << pc, i, j, round, key, round_key, mpt, x, ciphered_text, sbox, Stage >>
      BY <1>16 DEF vars, memory, Stage
    <2>2. SameBytes
      BY <2>1 DEF SameBytes, KeyByte, KeyMask, StateByte, StateMask
    <2> QED BY <1>16, <2>1, <2>2, MaskIdle, Stutters
  <1> QED BY <1>1, <1>2, <1>3, <1>4, <1>5, <1>6, <1>7, <1>8, <1>9, <1>10, <1>11, <1>12, <1>13, <1>14,
             <1>15, <1>16 DEF Next

LEMMA MaskInvariant == Spec => []MaskInv
  <1>1. MaskInv /\ [Next]_vars => MaskInv'
    BY MaskNext
  <1> QED BY <1>1, MaskInit, PTL DEF Spec

-----------------------------------------------------------------------------
\* In the measured part of any of the ten programs no byte of the memory, and
\* none that is written to it, the volatile halves included, depends on the
\* key without depending on a mask, and neither does the key's own array in
\* the programs that clear it.
THEOREM NothingUnmasked == Spec => []Masked
  BY MaskInvariant, InvMasked, PTL

\* The hook, which counts its accesses and ignores the address, answers for
\* the byte the program reads, and what the S-box is given has no mask.
THEOREM HookAnswersExactly == Spec => []HookExact
  BY MaskInvariant, InvHook, PTL

\* Each of the ten programs implements AES: under the mask of its place every
\* byte of the memory is that of an unmasked AES, step by step.
THEOREM MaskedComputesAes == Spec => ComputesAes
  <1>1. MaskInv /\ [Next]_vars => [Plain!Next]_Plain!vars
    BY MaskNext
  <1> QED BY <1>1, PlainInit, MaskInvariant, PTL DEF Spec, ComputesAes, Plain!Spec


-----------------------------------------------------------------------------
(* The key schedule, from its first byte *)

\* The byte that byte n substitutes, when it substitutes one
Turned(n) == KeyByte(4 * (n \div 4 - 1) + ((n + 1) % 4))

KeyInv ==
  \A n \in 0 .. 175 : n < 4 * i =>
    /\ KeyByte(n) = RefKey(n)
    /\ n >= 16 /\ (n \div 4) % 4 = 0 => Met(sbox, Turned(n))

\* The table forgets nothing.
Grows == \A u : Met(sbox, u) => Met(sbox', u) /\ sbox'[u] = sbox[u]

LEMMA ByteKept ==
  ASSUME Grows, NEW n \in 0 .. 175, \A k \in 0 .. n : KeyByte(k)' = KeyByte(k),
         KeyByte(n) = RefKey(n), n >= 16 /\ (n \div 4) % 4 = 0 => Met(sbox, Turned(n))
  PROVE  KeyByte(n)' = RefKey(n)' /\ (n >= 16 /\ (n \div 4) % 4 = 0 => Met(sbox, Turned(n))')
  <1>1. KeyByte(n)' = KeyByte(n)
    OBVIOUS
  <1>2. CASE n < 16
    BY <1>1, <1>2 DEF RefKey
  <1>3. CASE n >= 16
    <2> DEFINE q == 4 * (n \div 4 - 1) + ((n + 1) % 4)
    <2>1. n - 16 \in 0 .. n /\ n - 4 \in 0 .. n /\ q \in 0 .. n /\ ~(n < 16)
      BY <1>3
    <2> HIDE DEF q
    <2>2. KeyByte(n - 16)' = KeyByte(n - 16) /\ KeyByte(n - 4)' = KeyByte(n - 4) /\ KeyByte(q)' = KeyByte(q)
      BY <2>1
    <2>3. Turned(n) = KeyByte(q) /\ Turned(n)' = KeyByte(q)'
      BY DEF Turned, q
    <2>4. CASE (n \div 4) % 4 = 0
      <3>1. Met(sbox, KeyByte(q)) /\ Met(sbox', KeyByte(q)) /\ sbox'[KeyByte(q)] = sbox[KeyByte(q)]
        BY <1>3, <2>3, <2>4 DEF Grows
      <3>2. SBox(sbox', KeyByte(q)) = SBox(sbox, KeyByte(q))
        BY <3>1 DEF SBox
      <3>3. RefKey(n) = KeyByte(n - 16) ++ (SBox(sbox, KeyByte(q)) ++ IF n % 4 = 0 THEN rcon[n \div 16 - 1] ELSE Zero)
        BY <2>1, <2>4 DEF RefKey, q
      <3>4. RefKey(n)' = KeyByte(n - 16)' ++ (SBox(sbox', KeyByte(q)') ++ IF n % 4 = 0 THEN rcon[n \div 16 - 1] ELSE Zero)
        BY <2>1, <2>4 DEF RefKey, q
      <3>5. RefKey(n)' = RefKey(n)
        BY <2>2, <3>2, <3>3, <3>4
      <3>6. Met(sbox, Turned(n))'
        BY <2>2, <2>3, <3>1 DEF Met
      <3> QED BY <1>1, <3>5, <3>6
    <2>5. CASE (n \div 4) % 4 # 0
      <3>1. RefKey(n) = KeyByte(n - 16) ++ KeyByte(n - 4)
        BY <2>1, <2>5 DEF RefKey
      <3>2. RefKey(n)' = KeyByte(n - 16)' ++ KeyByte(n - 4)'
        BY <2>1, <2>5 DEF RefKey
      <3> QED BY <1>1, <2>2, <2>5, <3>1, <3>2
    <2> QED BY <2>4, <2>5
  <1> QED BY <1>2, <1>3

LEMMA KeysStay ==
  ASSUME MaskInv, KeyInv, SameKeys, UNCHANGED i, Grows PROVE KeyInv'
  <1>1. ASSUME NEW n \in 0 .. 175, n < 4 * i
        PROVE  KeyByte(n)' = RefKey(n)' /\ (n >= 16 /\ (n \div 4) % 4 = 0 => Met(sbox, Turned(n))')
    <2>1. \A k \in 0 .. n : KeyByte(k)' = KeyByte(k)
      BY DEF SameKeys
    <2>2. KeyByte(n) = RefKey(n) /\ (n >= 16 /\ (n \div 4) % 4 = 0 => Met(sbox, Turned(n)))
      BY <1>1 DEF KeyInv
    <2> QED BY <2>1, <2>2, ByteKept
  <1> QED BY <1>1 DEF KeyInv

\* A stutter of AES leaves the round keys.
LEMMA KeysStutter == ASSUME MaskInv, KeyInv, UNCHANGED Plain!vars PROVE KeyInv'
  <1>1. UNCHANGED << [n \in 0 .. 175 |-> KeyByte(n)], i, sbox >>
    BY DEF Plain!vars, Plain!key
  <1> DEFINE W == [n \in 0 .. 175 |-> KeyByte(n)]
  <1>2. SameKeys
    <2> SUFFICES ASSUME NEW n \in 0 .. 175 PROVE KeyByte(n)' = KeyByte(n)
      BY DEF SameKeys
    <2>1. W'[n] = KeyByte(n)' /\ W[n] = KeyByte(n) /\ W' = W
      BY <1>1
    <2> HIDE DEF W
    <2> QED BY <2>1
  <1>3. Grows
    BY <1>1 DEF Grows, Met
  <1> QED BY <1>1, <1>2, <1>3, KeysStay

LEMMA KeysStored == ASSUME MaskInv, KeyInv, StoreWord PROVE KeyInv'
  <1>1. /\ \A n \in 0 .. 175 : n < 4 * i => KeyByte(n)' = KeyByte(n)
        /\ \A n \in 0 .. 175 : n \div 4 = i => KeyByte(n)' = KeyByte(n - 16) ++ AddedByte(n % 4)
        /\ UNCHANGED sbox
    BY StepStoreWord
  <1>2. i' = i + 1 /\ i \in 4 .. 43
    BY DEF StoreWord, Goto, MaskInv, Counters, Words
  <1>3. Grows
    BY <1>1 DEF Grows, Met
  <1>4. ASSUME NEW n \in 0 .. 175, n < 4 * i
        PROVE  KeyByte(n)' = RefKey(n)' /\ (n >= 16 /\ (n \div 4) % 4 = 0 => Met(sbox, Turned(n))')
    <2>1. \A k \in 0 .. n : KeyByte(k)' = KeyByte(k)
      BY <1>1, <1>2, <1>4
    <2>2. KeyByte(n) = RefKey(n) /\ (n >= 16 /\ (n \div 4) % 4 = 0 => Met(sbox, Turned(n)))
      BY <1>4 DEF KeyInv
    <2> QED BY <1>3, <2>1, <2>2, ByteKept
  <1>5. ASSUME NEW n \in 0 .. 175, n \div 4 = i
        PROVE  KeyByte(n)' = RefKey(n)' /\ (n >= 16 /\ (n \div 4) % 4 = 0 => Met(sbox, Turned(n))')
    <2> DEFINE r == n % 4
               t == (n + 1) % 4
               q == 4 * (n \div 4 - 1) + t
    <2>1. /\ r \in Row /\ t \in Row /\ t = (r + 1) % 4 /\ n >= 16 /\ ~(n < 16)
          /\ (n \div 4) % 4 = i % 4
      BY <1>2, <1>5 DEF Row
    <2>2. n - 4 = 4 * (i - 1) + r /\ q = 4 * (i - 1) + t /\ (i % 4 = 0 => n \div 16 - 1 = i \div 4 - 1)
      BY <1>2, <1>5
    <2>3. n - 16 \in 0 .. 175 /\ n - 16 < 4 * i /\ n - 4 \in 0 .. 175 /\ n - 4 < 4 * i /\ q \in 0 .. 175 /\ q < 4 * i
      BY <1>2, <1>5
    <2> HIDE DEF r, t, q
    <2>4. KeyByte(n - 16)' = KeyByte(n - 16) /\ KeyByte(n - 4)' = KeyByte(n - 4) /\ KeyByte(q)' = KeyByte(q)
      BY <1>1, <2>3
    <2>5. Word(r) = KeyByte(n - 4) /\ Rotated(r) = KeyByte(q)
      BY <2>1, <2>2 DEF Word, Rotated
    <2>6. KeyByte(n)' = KeyByte(n - 16)' ++ AddedByte(r)
      BY <1>1, <1>5, <2>4 DEF r
    <2>7. CASE i % 4 = 0
      <3>1. Met(sbox, KeyByte(q))
        BY <2>1, <2>5, <2>7 DEF StoreWord, Goto, MaskInv, Temp
      <3>2. AddedByte(r) = SBox(sbox, KeyByte(q)) ++ IF n % 4 = 0 THEN rcon[n \div 16 - 1] ELSE Zero
        BY <2>2, <2>5, <2>7, <3>1 DEF AddedByte, SBox, r
      <3>3. RefKey(n)' = KeyByte(n - 16)' ++ (SBox(sbox', KeyByte(q)') ++ IF n % 4 = 0 THEN rcon[n \div 16 - 1] ELSE Zero)
        BY <2>1, <2>7 DEF RefKey, q, t
      <3>4. Met(sbox, Turned(n))'
        <4>1. Turned(n)' = KeyByte(q)'
          BY DEF Turned, q, t
        <4> QED BY <1>1, <2>4, <3>1, <4>1 DEF Met
      <3> QED BY <1>1, <2>4, <2>6, <3>2, <3>3, <3>4
    <2>8. CASE i % 4 # 0
      <3>1. RefKey(n)' = KeyByte(n - 16)' ++ KeyByte(n - 4)'
        BY <2>1, <2>8 DEF RefKey
      <3>2. AddedByte(r) = KeyByte(n - 4)
        BY <2>5, <2>8 DEF AddedByte
      <3> QED BY <2>1, <2>4, <2>6, <2>8, <3>1, <3>2
    <2> QED BY <2>7, <2>8
  <1>6. \A n \in 0 .. 175 : n < 4 * i' => n < 4 * i \/ n \div 4 = i
    BY <1>2
  <1> QED BY <1>4, <1>5, <1>6 DEF KeyInv

LEMMA KeyNext == ASSUME MaskInv, KeyInv, [Next]_vars PROVE KeyInv'
  <1>1. CASE masked_aes \/ mask_plain_text \/ init_masked_aes_keys
    BY <1>1, StepMaskedAes, StepMaskPlainText, StepInitKeys, KeysStutter
  <1>2. CASE LoadWord \/ RotateWord \/ AddRcon
    BY <1>2, StepLoadWord, StepRotateWord, StepAddRcon, KeysStutter
  <1>3. CASE IndexByte \/ change_masks
    BY <1>3, StepIndexByte, StepChangeMasks, KeysStutter
  <1>4. CASE SubWord
    <2>1. SameBytes /\ Grows
      BY <1>4, StepSubWord DEF Grows
    <2> QED BY <1>4, <2>1, KeysStay DEF SubWord, SameBytes, SameKeys
  <1>5. CASE StoreWord
    BY <1>5, KeysStored
  <1>6. CASE LookupByte
    <2>1. SameKeys /\ Grows
      BY <1>6, StepLookupByte DEF Grows
    <2> QED BY <1>6, <2>1, KeysStay DEF LookupByte, Cipher
  <1>7. CASE add_round_key \/ shift_rows \/ mix_columns \/ Output
    <2>1. SameKeys
      BY <1>7, StepAddRoundKey, StepShiftRows, StepMixColumns, StepOutput
    <2>2. UNCHANGED << i, sbox >>
      BY <1>7 DEF add_round_key, shift_rows, mix_columns, Output, Cipher
    <2>3. Grows
      BY <2>2 DEF Grows, Met
    <2> QED BY <2>1, <2>2, <2>3, KeysStay
  <1>8. CASE UNCHANGED vars
    <2>1. SameKeys /\ UNCHANGED << i, sbox >>
      BY <1>8 DEF SameKeys, KeyByte, KeyMask, vars, memory
    <2>2. Grows
      BY <2>1 DEF Grows, Met
    <2> QED BY <2>1, <2>2, KeysStay
  <1> QED BY <1>1, <1>2, <1>3, <1>4, <1>5, <1>6, <1>7, <1>8 DEF Next

LEMMA KeyInit == Init => KeyInv
  <1> SUFFICES ASSUME Init, NEW n \in 0 .. 175, n < 4 * i
               PROVE  KeyByte(n) = RefKey(n) /\ n < 16
    BY DEF KeyInv
  <1>1. i = 4 /\ pc = "masked_aes" /\ key = [k \in 0 .. 15 |-> Unknown("S", k)]
    BY DEF Init
  <1> QED BY <1>1 DEF KeyByte, RefKey

\* At every moment the words of the key schedule that are ready are those of
\* FIPS 197 under the masks the comments document, in all ten programs.
THEOREM RoundKeysExact == Spec => []KeysExact
  <1>1. MaskInv /\ KeyInv /\ [Next]_vars => KeyInv'
    BY KeyNext
  <1>2. KeyInv => KeysExact
    BY DEF KeyInv, KeysExact
  <1> QED BY <1>1, <1>2, KeyInit, MaskInvariant, PTL DEF Spec
=============================================================================
