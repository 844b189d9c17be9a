--------------------------------- MODULE Aes ---------------------------------
(***************************************************************************)
(* What a masked AES program promises: AES-128 of FIPS 197 on the same     *)
(* bytes, without a mask.  The key is expanded a word at a time, the bytes *)
(* of the state are substituted one after the other, and the S-box may be  *)
(* consulted at any time.                                                  *)
(***************************************************************************)
EXTENDS AesBytes

VARIABLES
  w, words,    \* the round keys, and how many of their words are known
  s,           \* the state, by rows, and so is the plain text, as in the programs
  stage, round, j,   \* the transformation that comes next, and its byte
  out,         \* the ciphered text
  sbox

key == << w, words >>
state == << s, stage, round, j >>
vars == << key, state, out, sbox >>

Init ==
  /\ w = [n \in 0 .. 175 |-> IF n < 16 THEN Unknown("S", n) ELSE Zero] /\ words = 4
  /\ s = [r \in Row |-> [c \in Row |-> Unknown("P", r * 4 + c)]]
  /\ stage = "add" /\ round = 0 /\ j = 0
  /\ out = [n \in 0 .. 15 |-> Zero] /\ sbox = [v \in {} |-> Zero]

Consult ==
  /\ \E v \in DOMAIN (sbox') : sbox' = Consulted(sbox, v)
  /\ UNCHANGED << key, state, out >>

\* Byte r of the word before, and what is added to that of the word four before
Last(r) == w[4 * (words - 1) + r]
Added(r) ==
  IF words % 4 # 0 THEN Last(r)
  ELSE sbox[Last((r + 1) % 4)] ++ IF r = 0 THEN rcon[words \div 4 - 1] ELSE Zero

ExpandWord ==
  /\ words < 44
  /\ words % 4 = 0 => \A r \in Row : Met(sbox, Last(r))
  /\ w' = [n \in 0 .. 175 |-> IF n \div 4 = words THEN w[n - 16] ++ Added(n % 4) ELSE w[n]]
  /\ words' = words + 1
  /\ UNCHANGED << state, out, sbox >>

AddRoundKey ==
  /\ stage = "add" /\ 4 * (round + 1) <= words
  /\ s' = [r \in Row |-> [c \in Row |-> s[r][c] ++ w[round * 16 + c * 4 + r]]]
  /\ stage' = IF round < 10 THEN "sub" ELSE "out"
  /\ UNCHANGED << key, round, j, out, sbox >>

SubByte ==
  /\ stage = "sub"
  /\ LET byte == s[j \div 4][j % 4]
     IN  /\ s' = [s EXCEPT ![j \div 4][j % 4] = SBox(sbox, byte)]
         /\ sbox' = Consulted(sbox, byte)
  /\ j' = (j + 1) % 16
  /\ stage' = IF j < 15 THEN "sub" ELSE "shift"
  /\ UNCHANGED << key, round, out >>

\* The last round does not mix the columns.
ShiftRows ==
  /\ stage = "shift"
  /\ s' = [r \in Row |-> [c \in Row |-> s[r][(c + r) % 4]]]
  /\ IF round < 9 THEN stage' = "mix" /\ round' = round ELSE stage' = "add" /\ round' = 10
  /\ UNCHANGED << key, j, out, sbox >>

Mixed(r, c) ==
  xtime(s[r][c] ++ s[(r + 1) % 4][c]) ++ s[(r + 1) % 4][c] ++ s[(r + 2) % 4][c] ++ s[(r + 3) % 4][c]

MixColumns ==
  /\ stage = "mix"
  /\ s' = [r \in Row |-> [c \in Row |-> Mixed(r, c)]]
  /\ stage' = "add" /\ round' = round + 1
  /\ UNCHANGED << key, j, out, sbox >>

Cipher ==
  /\ stage = "out"
  /\ out' = [n \in 0 .. 15 |-> s[n % 4][n \div 4]]
  /\ stage' = "done"
  /\ UNCHANGED << key, s, round, j, sbox >>

Next ==
  \/ Consult \/ ExpandWord \/ AddRoundKey \/ SubByte \/ ShiftRows \/ MixColumns \/ Cipher

Spec == Init /\ [][Next]_vars
=============================================================================
