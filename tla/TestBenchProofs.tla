---------------------------- MODULE TestBenchProofs ----------------------------
(***************************************************************************)
(* For every bench, circuit and number of shares: as many lanes as the     *)
(* order of the masking never add up to anything about a secret, and no    *)
(* mask serves twice.                                                      *)
(***************************************************************************)
EXTENDS TestBench, FiniteSetTheorems, TLAPS

-----------------------------------------------------------------------------
(* The instructions                                                        *)

Name == STRING \X Nat
Sharing == {i \in DOMAIN bench.program : bench.program[i].op = "share"}
LanesAt(i) == bench.program[i].lanes
SecretAt(i) == bench.program[i].secret

\* What a bench respects, instruction by instruction.
LEMMA Respected ==
  ASSUME bench \in Benches
  PROVE  /\ bench.from \in Nat /\ IsFiniteSet(bench.random)
         /\ \A i \in DOMAIN bench.program :
              /\ LanesAt(i) \in Seq(Name)
              /\ i \in Sharing <=> SecretAt(i) # << >>
              /\ ToSet(LanesAt(i)) \intersect bench.random = {}
              /\ bench.program[i].op = "mask" => \A j \in Sharing : SecretAt(j) \notin ToSet(LanesAt(i))
         /\ \A i \in Sharing :
              /\ Len(LanesAt(i)) > 0 /\ SecretAt(i) \notin bench.random
              /\ \A k, m \in DOMAIN LanesAt(i) : LanesAt(i)[k] = LanesAt(i)[m] => k = m
         /\ \A i, j \in Sharing :
              (SecretAt(i) = SecretAt(j) => i = j) /\ Len(LanesAt(i)) = Len(LanesAt(j))
         /\ \A i \in Sharing, j \in DOMAIN bench.program :
              ToSet(LanesAt(i)) = ToSet(LanesAt(j)) \/ ToSet(LanesAt(i)) \intersect ToSet(LanesAt(j)) = {}
  <1>1. WellFormed(bench)
    BY BenchesAssumption
  <1>2. bench.program \in Seq([op : STRING, secret : {<< >>} \union Name, lanes : Seq(Name)])
    BY <1>1 DEF WellFormed, Name
  <1>3. \A i \in DOMAIN bench.program : LanesAt(i) \in Seq(Name)
    <2> SUFFICES ASSUME NEW i \in DOMAIN bench.program PROVE LanesAt(i) \in Seq(Name)
      OBVIOUS
    <2> DEFINE Instrs == [op : STRING, secret : {<< >>} \union Name, lanes : Seq(Name)]
    <2>1. \A instr \in Instrs : instr.lanes \in Seq(Name)
      OBVIOUS
    <2>2. bench.program[i] \in Instrs
      <3> HIDE DEF Instrs
      <3>1. bench.program \in Seq(Instrs)
        BY <1>2 DEF Instrs
      <3> QED BY <3>1
    <2> HIDE DEF Instrs
    <2> QED BY <2>1, <2>2 DEF LanesAt
  <1>4. \A i \in DOMAIN bench.program :
          /\ i \in Sharing <=> SecretAt(i) # << >>
          /\ ToSet(LanesAt(i)) \intersect bench.random = {}
          /\ bench.program[i].op = "mask" => \A j \in Sharing : SecretAt(j) \notin ToSet(LanesAt(i))
    <2> SUFFICES ASSUME NEW i \in DOMAIN bench.program
                 PROVE  /\ i \in Sharing <=> SecretAt(i) # << >>
                        /\ ToSet(LanesAt(i)) \intersect bench.random = {}
                        /\ bench.program[i].op = "mask" =>
                             \A j \in Sharing : SecretAt(j) \notin ToSet(LanesAt(i))
      OBVIOUS
    <2>1. i \in Sharing <=> SecretAt(i) # << >>
      BY <1>1 DEF WellFormed, Sharing, SecretAt
    <2>2. ToSet(LanesAt(i)) \intersect bench.random = {}
      BY <1>1 DEF WellFormed, LanesAt
    <2>3. ASSUME bench.program[i].op = "mask", NEW j \in Sharing PROVE SecretAt(j) \notin ToSet(LanesAt(i))
      <3>1. ToSet(LanesAt(i))
              \intersect {bench.program[k].secret : k \in {k \in DOMAIN bench.program : bench.program[k].op = "share"}} = {}
        BY <1>1, <2>3 DEF WellFormed, LanesAt
      <3>2. SecretAt(j) \in {bench.program[k].secret : k \in {k \in DOMAIN bench.program : bench.program[k].op = "share"}}
        BY <2>3 DEF Sharing, SecretAt
      <3> QED BY <3>1, <3>2
    <2> QED BY <2>1, <2>2, <2>3
  <1>5. \A i \in Sharing :
          /\ Len(LanesAt(i)) > 0 /\ SecretAt(i) \notin bench.random
          /\ \A k, m \in DOMAIN LanesAt(i) : LanesAt(i)[k] = LanesAt(i)[m] => k = m
    BY <1>1 DEF WellFormed, Sharing, LanesAt, SecretAt
  <1>6. \A i, j \in Sharing :
          (SecretAt(i) = SecretAt(j) => i = j) /\ Len(LanesAt(i)) = Len(LanesAt(j))
    BY <1>1 DEF WellFormed, Sharing, LanesAt, SecretAt
  <1>7. \A i \in Sharing, j \in DOMAIN bench.program :
          ToSet(LanesAt(i)) = ToSet(LanesAt(j)) \/ ToSet(LanesAt(i)) \intersect ToSet(LanesAt(j)) = {}
    BY <1>1 DEF WellFormed, Sharing, LanesAt
  <1>8. bench.from \in Nat /\ IsFiniteSet(bench.random)
    BY <1>1 DEF WellFormed
  <1> QED BY <1>3, <1>4, <1>5, <1>6, <1>7, <1>8

\* Secrets are what the sharing instructions share.
LEMMA SharedSecrets ==
  ASSUME bench \in Benches
  PROVE  /\ \A i \in Sharing : SecretAt(i) \in Shared
         /\ \A secret \in Shared : \E i \in Sharing :
              secret = SecretAt(i) /\ SharesIn(secret) = Len(LanesAt(i))
  <1>1. \A i \in Sharing : SecretAt(i) \in Shared
    BY Respected DEF Shared, Sharing, SecretAt, ToSet
  <1>2. ASSUME NEW secret \in Shared
        PROVE  \E i \in Sharing : secret = SecretAt(i) /\ SharesIn(secret) = Len(LanesAt(i))
    <2>1. PICK x \in ToSet(bench.program) : x.secret = secret /\ secret # << >>
      BY DEF Shared
    <2>2. /\ (CHOOSE y \in ToSet(bench.program) : y.secret = secret) \in ToSet(bench.program)
          /\ (CHOOSE y \in ToSet(bench.program) : y.secret = secret).secret = secret
      BY <2>1
    <2>3. PICK i \in DOMAIN bench.program :
            bench.program[i] = (CHOOSE y \in ToSet(bench.program) : y.secret = secret)
      BY <2>2 DEF ToSet
    <2>4. SecretAt(i) = secret /\ SharesIn(secret) = Len(LanesAt(i))
      BY <2>2, <2>3 DEF SecretAt, LanesAt, SharesIn
    <2> QED BY <2>1, <2>4, Respected
  <1> QED BY <1>1, <1>2

\* Numbering a finite sequence of lanes reaches them all.
LEMMA LanesFinite == ASSUME NEW lanes \in Seq(Name) PROVE IsFiniteSet(ToSet(lanes))
  <1>1. lanes \in Surjection(1 .. Len(lanes), ToSet(lanes))
    BY DEF Surjection, ToSet
  <1>2. IsFiniteSet(1 .. Len(lanes))
    BY FS_Interval
  <1> QED BY <1>1, <1>2, FS_Surjection

-----------------------------------------------------------------------------
(* What the lanes hold                                                     *)

\* The symbols a mask on lane l may be.
MasksOf(l) == {<< "M", l >>} \union {<< "M", l, n >> : n \in Nat}
\* A lane without shares
Masking(l) == held[l] \subseteq MasksOf(l) /\ (l \in Shared => held[l] = {})
\* The lanes of an instruction carry the shares it drove.
SharedBy(i) ==
  \A k \in DOMAIN LanesAt(i) :
    /\ LanesAt(i)[k] \in DOMAIN held
    /\ held[LanesAt(i)[k]] = get_shares(SecretAt(i), Len(LanesAt(i)))[k]

HeldInv ==
  /\ bench \in Benches /\ pc \in Nat \ {0} /\ steps \in Nat
  /\ IsFiniteSet(DOMAIN held)
  /\ \A l \in DOMAIN held :
       Masking(l) \/ \E i \in Sharing : l \in ToSet(LanesAt(i)) /\ SharedBy(i)

\* Driving some lanes keeps the shares of an instruction that drives none of
\* them, and the masks elsewhere.
LEMMA KeptElsewhere ==
  ASSUME HeldInv, UNCHANGED << bench, config >>, NEW driven,
         DOMAIN held' = DOMAIN held \union driven, \A l \in DOMAIN held \ driven : held'[l] = held[l],
         \A i \in Sharing : ToSet(LanesAt(i)) \intersect driven # {}
           => ToSet(LanesAt(i)) \subseteq driven,
         NEW l \in DOMAIN held \ driven
  PROVE  Masking(l)' \/ \E i \in Sharing' : l \in ToSet(LanesAt(i)') /\ SharedBy(i)'
  <1>1. /\ Shared' = Shared /\ Sharing' = Sharing
        /\ \A i : LanesAt(i)' = LanesAt(i) /\ SecretAt(i)' = SecretAt(i)
        /\ \A s, n : get_shares(s, n)' = get_shares(s, n)
    BY DEF Shared, Sharing, LanesAt, SecretAt, get_shares
  <1>2. held'[l] = held[l]
    OBVIOUS
  <1>3. CASE Masking(l)
    BY <1>1, <1>2, <1>3 DEF Masking, MasksOf
  <1>4. CASE \E i \in Sharing : l \in ToSet(LanesAt(i)) /\ SharedBy(i)
    <2>1. PICK i \in Sharing : l \in ToSet(LanesAt(i)) /\ SharedBy(i)
      BY <1>4
    <2>2. ToSet(LanesAt(i)) \intersect driven = {}
      BY <2>1
    <2>3. \A k \in DOMAIN LanesAt(i) : LanesAt(i)[k] \in DOMAIN held \ driven
      BY <2>1, <2>2 DEF SharedBy, ToSet
    <2>4. SharedBy(i)'
      BY <1>1, <2>1, <2>3 DEF SharedBy
    <2> QED BY <1>1, <2>1, <2>4
  <1> QED BY <1>3, <1>4 DEF HeldInv

LEMMA DriveHeld == ASSUME HeldInv, Drive PROVE HeldInv'
  <1> DEFINE n == Len(Instr.lanes)
             driven == ToSet(Instr.lanes)
             place(l) == CHOOSE i \in DOMAIN Instr.lanes : Instr.lanes[i] = l
  <1>1. /\ held' = Driven(Values) /\ UNCHANGED << bench, config, steps >> /\ pc' = pc + 1
        /\ pc \in DOMAIN bench.program /\ pc' \in Nat \ {0}
    BY BenchesAssumption DEF Drive, At, HeldInv, WellFormed
  <1>2. Instr.lanes = LanesAt(pc) /\ Instr.secret = SecretAt(pc) /\ LanesAt(pc) \in Seq(Name)
    BY <1>1, Respected DEF Instr, LanesAt, SecretAt, HeldInv
  <1>3. /\ DOMAIN held' = DOMAIN held \union driven
        /\ \A l \in DOMAIN held \ driven : held'[l] = held[l]
        /\ \A l \in driven : held'[l] = Values[place(l)]
    BY <1>1 DEF Driven
  <1>4. \A l \in driven : place(l) \in DOMAIN Instr.lanes /\ Instr.lanes[place(l)] = l
    BY DEF ToSet
  <1>5. /\ Shared' = Shared /\ Sharing' = Sharing
        /\ \A i : LanesAt(i)' = LanesAt(i) /\ SecretAt(i)' = SecretAt(i)
        /\ \A s, m : get_shares(s, m)' = get_shares(s, m)
    BY <1>1 DEF Shared, Sharing, LanesAt, SecretAt, get_shares
  <1>6. \A i \in Sharing : ToSet(LanesAt(i)) \intersect driven # {} => ToSet(LanesAt(i)) \subseteq driven
    BY <1>1, <1>2, Respected DEF HeldInv
  <1>7. IsFiniteSet(DOMAIN held')
    <2>1. IsFiniteSet(driven) /\ IsFiniteSet(DOMAIN held)
      BY <1>2, LanesFinite DEF HeldInv
    <2>2. DOMAIN held' = DOMAIN held \union driven
      BY <1>3
    <2> HIDE DEF driven
    <2>3. IsFiniteSet(DOMAIN held \union driven)
      BY <2>1, FS_Union
    <2> QED BY <2>2, <2>3
  <1> HIDE DEF driven, place
  <1>8. ASSUME NEW l \in driven
        PROVE  Masking(l)' \/ \E i \in Sharing' : l \in ToSet(LanesAt(i)') /\ SharedBy(i)'
    <2>1. CASE Instr.op = "share"
      <3>1. pc \in Sharing /\ \A k, m \in DOMAIN LanesAt(pc) : LanesAt(pc)[k] = LanesAt(pc)[m] => k = m
        BY <1>1, <2>1, Respected DEF Sharing, Instr, HeldInv
      <3>2. Values = get_shares(SecretAt(pc), Len(LanesAt(pc)))
        BY <1>2, <2>1 DEF Values
      <3>3. ASSUME NEW k \in DOMAIN LanesAt(pc)
            PROVE  LanesAt(pc)[k] \in DOMAIN held' /\ held'[LanesAt(pc)[k]] = get_shares(SecretAt(pc), Len(LanesAt(pc)))[k]
        <4>1. LanesAt(pc)[k] \in driven
          BY <1>2 DEF driven, ToSet
        <4>2. place(LanesAt(pc)[k]) = k
          BY <1>2, <1>4, <3>1, <4>1
        <4> QED BY <1>3, <3>2, <4>1, <4>2
      <3>4. PICK i \in Sharing : i = pc
        BY <3>1
      <3>5. SharedBy(i)'
        BY <1>5, <3>3, <3>4 DEF SharedBy
      <3> QED BY <1>2, <1>5, <3>4, <3>5 DEF driven
    <2>2. CASE Instr.op = "mask"
      <3>0. Values = [i \in DOMAIN Instr.lanes |-> {<< "M", Instr.lanes[i] >>}]
        BY <2>2 DEF Values
      <3>1. held'[l] = {<< "M", l >>}
        BY <1>3, <1>4, <3>0
      <3>2. l \notin Shared
        <4>1. \A j \in Sharing : SecretAt(j) # l
          BY <1>1, <1>2, <2>2, Respected DEF HeldInv, Instr, driven
        <4> QED BY <4>1, SharedSecrets DEF HeldInv
      <3> QED BY <1>5, <3>1, <3>2 DEF Masking, MasksOf
    <2>3. CASE Instr.op = "const"
      <3>0. Values = [i \in DOMAIN Instr.lanes |-> {}]
        BY <2>3 DEF Values
      <3>1. held'[l] = {}
        BY <1>3, <1>4, <3>0
      <3> QED BY <3>1 DEF Masking
    <2> QED BY <2>1, <2>2, <2>3 DEF Drive, At
  <1>9. ASSUME NEW l \in DOMAIN held'
        PROVE  Masking(l)' \/ \E i \in Sharing' : l \in ToSet(LanesAt(i)') /\ SharedBy(i)'
    <2>1. CASE l \in driven
      BY <1>8, <2>1
    <2>2. CASE l \in DOMAIN held \ driven
      BY <1>1, <1>3, <1>6, <2>2, KeptElsewhere
    <2> QED BY <1>3, <2>1, <2>2
  <1> QED BY <1>1, <1>7, <1>9 DEF HeldInv

\* A cycle gives the random ports masks, or leaves everything as it is.
LEMMA PreparedHeld ==
  ASSUME HeldInv, step, bench' = bench, pc' \in Nat \ {0}
  PROVE  HeldInv' /\ steps' \in {steps, steps + 1}
  <1>1. /\ held' = Prepared /\ UNCHANGED << bench, config >>
        /\ steps' \in {steps, steps + 1} /\ steps' \in Nat /\ bench \in Benches
    BY DEF step, Count, HeldInv
  <1>2. CASE steps < bench.from
    <2>1. held' = held
      BY <1>1, <1>2 DEF Prepared
    <2>2. /\ DOMAIN held' = DOMAIN held \union {} /\ \A l \in DOMAIN held \ {} : held'[l] = held[l]
          /\ \A i \in Sharing : ToSet(LanesAt(i)) \intersect {} = {}
      BY <2>1
    <2>3. \A l \in DOMAIN held \ {} :
            Masking(l)' \/ \E i \in Sharing' : l \in ToSet(LanesAt(i)') /\ SharedBy(i)'
      BY <1>1, <2>2, KeptElsewhere
    <2> QED BY <1>1, <2>1, <2>3 DEF HeldInv
  <1>3. CASE ~(steps < bench.from)
    <2>1. held' = [l \in DOMAIN held \union bench.random |->
                     IF l \in bench.random THEN {<< "M", l, steps >>} ELSE held[l]]
      BY <1>1, <1>3 DEF Prepared, MaskNumber
    <2>2. /\ DOMAIN held' = DOMAIN held \union bench.random
          /\ \A l \in DOMAIN held \ bench.random : held'[l] = held[l]
          /\ \A l \in bench.random : held'[l] = {<< "M", l, steps >>}
      BY <2>1
    <2>3. \A i \in Sharing : ToSet(LanesAt(i)) \intersect bench.random = {}
      BY <1>1, Respected DEF Sharing
    <2>4. ASSUME NEW l \in DOMAIN held \ bench.random
          PROVE  Masking(l)' \/ \E i \in Sharing' : l \in ToSet(LanesAt(i)') /\ SharedBy(i)'
      BY <1>1, <2>2, <2>3, KeptElsewhere
    <2>5. ASSUME NEW l \in bench.random PROVE Masking(l)'
      <3>1. l \notin Shared
        BY <1>1, Respected, SharedSecrets
      <3>2. Shared' = Shared
        BY <1>1 DEF Shared
      <3>3. << "M", l, steps >> \in MasksOf(l)
        BY DEF MasksOf, HeldInv
      <3> QED BY <2>2, <3>1, <3>2, <3>3 DEF Masking
    <2>6. IsFiniteSet(DOMAIN held')
      <3>1. IsFiniteSet(bench.random) /\ IsFiniteSet(DOMAIN held)
        BY <1>1, Respected DEF HeldInv
      <3>2. IsFiniteSet(DOMAIN held \union bench.random)
        BY <3>1, FS_Union
      <3> QED BY <2>2, <3>2
    <2> QED BY <1>1, <2>2, <2>4, <2>5, <2>6 DEF HeldInv
  <1> QED BY <1>1, <1>2, <1>3

\* What the other instructions leave alone.
LEMMA OtherHeld ==
  ASSUME HeldInv, UNCHANGED << bench, held, steps, config >>, pc' \in Nat \ {0}
  PROVE  HeldInv'
  <1>1. \A l \in DOMAIN held \ {} :
          Masking(l)' \/ \E i \in Sharing' : l \in ToSet(LanesAt(i)') /\ SharedBy(i)'
    <2>1. /\ DOMAIN held' = DOMAIN held \union {} /\ \A l \in DOMAIN held \ {} : held'[l] = held[l]
          /\ \A i \in Sharing : ToSet(LanesAt(i)) \intersect {} = {}
      OBVIOUS
    <2> QED BY <2>1, KeptElsewhere
  <1> QED BY <1>1 DEF HeldInv

\* Every transition drives, takes a cycle, or does neither.
LEMMA Transitions ==
  ASSUME HeldInv, [Next]_vars
  PROVE  /\ UNCHANGED << bench, config >> /\ pc' \in Nat \ {0}
         /\ \/ Drive
            \/ step
            \/ UNCHANGED << held, steps, newest, tainted >>
  BY DEF Next, vars, Configure, Drive, Step, step, WaitStep, WaitEnd, StartCircuit,
         begin_measure, end_measure, stat, Exit, HeldInv

LEMMA HeldInvariant == Spec => []HeldInv
  <1>1. Init => HeldInv
    <2> SUFFICES ASSUME Init PROVE HeldInv
      OBVIOUS
    <2>1. held = << >>
      BY Zenon DEF Init
    <2>2. DOMAIN held = {}
      BY <2>1
    <2> QED BY <2>2, FS_EmptySet DEF Init, HeldInv
  <1>2. HeldInv /\ [Next]_vars => HeldInv'
    <2> SUFFICES ASSUME HeldInv, [Next]_vars PROVE HeldInv'
      OBVIOUS
    <2> QED BY Transitions, DriveHeld, PreparedHeld, OtherHeld
  <1> QED BY <1>1, <1>2, PTL DEF Spec

-----------------------------------------------------------------------------
(* What lanes add up to                                                    *)

\* A shared secret is on no lane, or its shares are on the lanes of its instruction.
LEMMA WhereShared ==
  ASSUME HeldInv, NEW i \in Sharing, NEW l \in DOMAIN held, NEW s \in held[l], s[2] = SecretAt(i)
  PROVE  l \in ToSet(LanesAt(i)) /\ SharedBy(i)
  <1>1. bench \in Benches /\ SecretAt(i) \in Shared
    BY SharedSecrets DEF HeldInv
  <1>2. ~Masking(l)
    <2> SUFFICES ASSUME Masking(l) PROVE FALSE
      OBVIOUS
    <2>1. s[2] = l
      BY DEF Masking, MasksOf
    <2> QED BY <1>1, <2>1 DEF Masking
  <1>3. PICK j \in Sharing : l \in ToSet(LanesAt(j)) /\ SharedBy(j)
    BY <1>2 DEF HeldInv
  <1>4. PICK k \in DOMAIN LanesAt(j) : l = LanesAt(j)[k] /\ s \in get_shares(SecretAt(j), Len(LanesAt(j)))[k]
    BY <1>3 DEF ToSet, SharedBy
  <1>5. s[2] = SecretAt(j)
    <2>1. k \in 1 .. Len(LanesAt(j))
      BY <1>1, Respected DEF Sharing
    <2> QED BY <1>4, <2>1 DEF get_shares, RealShares, PseudoShares
  <1>6. i = j
    BY <1>1, <1>5, Respected
  <1> QED BY <1>3, <1>6

LEMMA PseudoSharesAre ==
  ASSUME NEW secret, NEW n \in Nat \ {0}
  PROVE  /\ \A k \in 2 .. n : PseudoShares(secret, n)[k] = {<< "M", secret, k >>}
         /\ PseudoShares(secret, n)[1] = {<< "S", secret >>} \union {<< "M", secret, k >> : k \in 2 .. n}
  <1>1. ASSUME NEW k \in 2 .. n PROVE PseudoShares(secret, n)[k] = {<< "M", secret, k >>}
    <2>1. k \in 1 .. n /\ k > 1
      OBVIOUS
    <2> QED BY <2>1 DEF PseudoShares
  <1>2. 1 \in 1 .. n /\ ~(1 > 1)
    OBVIOUS
  <1>3. PseudoShares(secret, n)[1] = {<< "S", secret >>} \union {<< "M", secret, k >> : k \in 2 .. n}
    BY <1>2, Zenon DEF PseudoShares
  <1> QED BY <1>1, <1>3

\* Under TPS: the k-th lane of a secret has its mask, the first one the secret
\* under all of them.
LEMMA SharesHeld ==
  ASSUME HeldInv, config.property = "TPS", NEW i \in Sharing, SharedBy(i)
  PROVE  /\ DOMAIN LanesAt(i) = 1 .. Len(LanesAt(i)) /\ Len(LanesAt(i)) \in Nat \ {0}
         /\ \A k \in 2 .. Len(LanesAt(i)) : held[LanesAt(i)[k]] = {<< "M", SecretAt(i), k >>}
         /\ held[LanesAt(i)[1]]
              = {<< "S", SecretAt(i) >>} \union {<< "M", SecretAt(i), k >> : k \in 2 .. Len(LanesAt(i))}
         /\ \A k \in 1 .. Len(LanesAt(i)) : LanesAt(i)[k] \in DOMAIN held
  <1>1. DOMAIN LanesAt(i) = 1 .. Len(LanesAt(i)) /\ Len(LanesAt(i)) \in Nat \ {0}
    BY Respected DEF HeldInv, Sharing
  <1>2. \A k \in 1 .. Len(LanesAt(i)) :
          held[LanesAt(i)[k]] = PseudoShares(SecretAt(i), Len(LanesAt(i)))[k]
    BY <1>1 DEF SharedBy, get_shares
  <1>3. \A k \in 2 .. Len(LanesAt(i)) : held[LanesAt(i)[k]] = {<< "M", SecretAt(i), k >>}
    <2> SUFFICES ASSUME NEW k \in 2 .. Len(LanesAt(i))
                 PROVE  held[LanesAt(i)[k]] = {<< "M", SecretAt(i), k >>}
      OBVIOUS
    <2>1. k \in 1 .. Len(LanesAt(i))
      BY <1>1
    <2> QED BY <1>1, <1>2, <2>1, PseudoSharesAre
  <1>4. held[LanesAt(i)[1]]
          = {<< "S", SecretAt(i) >>} \union {<< "M", SecretAt(i), k >> : k \in 2 .. Len(LanesAt(i))}
    <2>1. 1 \in 1 .. Len(LanesAt(i))
      BY <1>1
    <2> QED BY <1>1, <1>2, <2>1, PseudoSharesAre
  <1> QED BY <1>1, <1>3, <1>4 DEF SharedBy

\* An atom is in a sum of lanes when it is on one of them only, not when it is on two.
LEMMA SumOfOne ==
  ASSUME NEW lanes, NEW l \in lanes, NEW s \in held[l], \A m \in lanes : s \in held[m] => m = l
  PROVE  s \in Sum(lanes)
  <1>1. {m \in lanes : s \in held[m]} = {l}
    OBVIOUS
  <1>2. Cardinality({l}) % 2 = 1
    <2>1. Cardinality({l}) = 1
      BY FS_Singleton
    <2> QED BY <2>1
  <1>3. s \in UNION {held[m] : m \in lanes}
    OBVIOUS
  <1> QED BY <1>1, <1>2, <1>3 DEF Sum

LEMMA SumOfTwo ==
  ASSUME NEW lanes, NEW l \in lanes, NEW k \in lanes, l # k, NEW s, s \in held[l], s \in held[k],
         \A m \in lanes : s \in held[m] => m = l \/ m = k
  PROVE  s \notin Sum(lanes)
  <1>1. {m \in lanes : s \in held[m]} = {l} \union {k}
    OBVIOUS
  <1>2. Cardinality({l} \union {k}) % 2 = 0
    <2>1. k \notin {l}
      OBVIOUS
    <2>2. IsFiniteSet({l}) /\ Cardinality({l}) = 1
      BY FS_Singleton
    <2>3. Cardinality({l} \union {k}) = Cardinality({l}) + 1
      BY <2>1, <2>2, FS_AddElement
    <2>4. Cardinality({l} \union {k}) = 2
      BY <2>2, <2>3
    <2> QED BY <2>4
  <1>3. Cardinality({m \in lanes : s \in held[m]}) % 2 = 0
    BY <1>1, <1>2, Zenon
  <1> QED BY <1>3 DEF Sum

LEMMA SumOfNone ==
  ASSUME NEW lanes, NEW s \in Sum(lanes)
  PROVE  \E l \in lanes : s \in held[l]
  BY DEF Sum

\* The lanes of a secret are those of its instruction, when it is on any lane.
LEMMA LanesAre ==
  ASSUME HeldInv, config.property = "TPS", NEW i \in Sharing, LanesOf(SecretAt(i)) # {}
  PROVE  SharedBy(i) /\ LanesOf(SecretAt(i)) = ToSet(LanesAt(i))
  <1>1. ASSUME NEW l \in LanesOf(SecretAt(i)) PROVE l \in ToSet(LanesAt(i)) /\ SharedBy(i)
    <2>1. PICK s \in held[l] : s[2] = SecretAt(i) /\ l \in DOMAIN held
      BY DEF LanesOf
    <2> QED BY <2>1, WhereShared
  <1>2. SharedBy(i)
    BY <1>1
  <1>3. ASSUME NEW l \in ToSet(LanesAt(i)) PROVE l \in LanesOf(SecretAt(i))
    <2>1. PICK k \in 1 .. Len(LanesAt(i)) : l = LanesAt(i)[k]
      BY <1>2, SharesHeld DEF ToSet
    <2>2. l \in DOMAIN held
      BY <1>2, <2>1, SharesHeld
    <2>3. CASE k = 1
      <3>1. << "S", SecretAt(i) >> \in held[l]
        BY <1>2, <2>1, <2>3, SharesHeld
      <3>2. Len(<< "S", SecretAt(i) >>) >= 2 /\ << "S", SecretAt(i) >>[2] = SecretAt(i)
        OBVIOUS
      <3> QED BY <2>2, <3>1, <3>2 DEF LanesOf
    <2>4. CASE k # 1
      <3>1. k \in 2 .. Len(LanesAt(i))
        BY <1>2, <2>1, <2>4, SharesHeld
      <3>2. << "M", SecretAt(i), k >> \in held[l]
        BY <1>2, <2>1, <3>1, SharesHeld
      <3>3. Len(<< "M", SecretAt(i), k >>) >= 2 /\ << "M", SecretAt(i), k >>[2] = SecretAt(i)
        OBVIOUS
      <3> QED BY <2>2, <3>2, <3>3 DEF LanesOf
    <2> QED BY <2>3, <2>4
  <1> QED BY <1>1, <1>2, <1>3

\* Together they add up to the secret: every mask is on two of them.
LEMMA AllAddUp ==
  ASSUME HeldInv, config.property = "TPS", NEW i \in Sharing, SharedBy(i)
  PROVE  Sum(ToSet(LanesAt(i))) = {<< "S", SecretAt(i) >>}
  <1> DEFINE n == Len(LanesAt(i))
             lane(k) == LanesAt(i)[k]
             all == ToSet(LanesAt(i))
  <1>1. /\ n \in Nat \ {0} /\ all = {lane(k) : k \in 1 .. n}
        /\ \A k \in 2 .. n : held[lane(k)] = {<< "M", SecretAt(i), k >>}
        /\ held[lane(1)] = {<< "S", SecretAt(i) >>} \union {<< "M", SecretAt(i), k >> : k \in 2 .. n}
    BY SharesHeld DEF ToSet
  <1>2. \A k, m \in 1 .. n : lane(k) = lane(m) => k = m
    BY SharesHeld, Respected DEF HeldInv
  <1> HIDE DEF n, lane, all
  <1>3. << "S", SecretAt(i) >> \in Sum(all)
    <2>1. lane(1) \in all /\ << "S", SecretAt(i) >> \in held[lane(1)]
      BY <1>1
    <2>2. \A m \in all : << "S", SecretAt(i) >> \in held[m] => m = lane(1)
      <3> SUFFICES ASSUME NEW k \in 1 .. n, << "S", SecretAt(i) >> \in held[lane(k)] PROVE k = 1
        BY <1>1
      <3>1. k \in 2 .. n \/ k = 1
        BY <1>1
      <3> QED BY <1>1, <3>1
    <2> QED BY <2>1, <2>2, SumOfOne
  <1>4. ASSUME NEW s \in Sum(all) PROVE s = << "S", SecretAt(i) >>
    <2>1. PICK l \in all : s \in held[l]
      BY SumOfNone
    <2>2. PICK k \in 1 .. n : l = lane(k)
      BY <1>1
    <2>3. SUFFICES ASSUME s # << "S", SecretAt(i) >> PROVE FALSE
      OBVIOUS
    <2>4. PICK j \in 2 .. n : s = << "M", SecretAt(i), j >>
      <3>1. k \in 2 .. n \/ k = 1
        BY <1>1
      <3> QED BY <1>1, <2>1, <2>2, <2>3, <3>1
    <2>5. lane(1) \in all /\ lane(j) \in all /\ lane(1) # lane(j)
      BY <1>1, <1>2
    <2>6. s \in held[lane(1)] /\ s \in held[lane(j)]
      BY <1>1, <2>4
    <2>7. ASSUME NEW m \in all, s \in held[m] PROVE m = lane(1) \/ m = lane(j)
      <3>1. PICK x \in 1 .. n : m = lane(x)
        BY <1>1
      <3>2. x \in 2 .. n \/ x = 1
        BY <1>1
      <3>3. CASE x \in 2 .. n
        <4>1. << "M", SecretAt(i), j >> = << "M", SecretAt(i), x >>
          BY <1>1, <2>4, <2>7, <3>1, <3>3
        <4>2. j = x
          BY <4>1
        <4> QED BY <3>1, <4>2
      <3> QED BY <3>1, <3>2, <3>3
    <2>8. s \notin Sum(all)
      BY <2>5, <2>6, <2>7, SumOfTwo
    <2> QED BY <2>8
  <1> QED BY <1>3, <1>4 DEF all

\* The lanes that carry shares are finitely many, on ports that were driven.
LEMMA SharedLanesFinite == ASSUME HeldInv PROVE SharedLanes \subseteq DOMAIN held /\ IsFiniteSet(SharedLanes)
  <1>1. SharedLanes \subseteq DOMAIN held
    BY DEF SharedLanes, LanesOf
  <1> QED BY <1>1, FS_Subset DEF HeldInv

\* Fewer lanes than shares miss a share of every secret they carry, whose mask
\* stays in their sum.
LEMMA FewHide ==
  ASSUME HeldInv, config.property = "TPS", NEW T \in SUBSET SharedLanes,
         NEW i \in Sharing, NEW n \in Nat, n < Len(LanesAt(i)), Cardinality(T) = n,
         NEW s \in Sum(T), s[1] = "S"
  PROVE  \E m \in Sum(T) : m[1] = "M"
  <1>1. PICK l \in T : s \in held[l]
    BY SumOfNone
  <1>2. PICK j \in Sharing : l \in ToSet(LanesAt(j)) /\ SharedBy(j)
    <2>1. l \in DOMAIN held
      BY SharedLanesFinite
    <2>2. ~Masking(l)
      BY <1>1 DEF Masking, MasksOf
    <2> QED BY <2>1, <2>2 DEF HeldInv
  <1> DEFINE N == Len(LanesAt(j))
             lane == LanesAt(j)
  <1>3. /\ N \in Nat \ {0} /\ n < N /\ DOMAIN lane = 1 .. N
        /\ \A k \in 2 .. N : held[lane[k]] = {<< "M", SecretAt(j), k >>}
        /\ held[lane[1]] = {<< "S", SecretAt(j) >>} \union {<< "M", SecretAt(j), k >> : k \in 2 .. N}
        /\ \A k, m \in 1 .. N : lane[k] = lane[m] => k = m
    BY <1>2, SharesHeld, Respected DEF HeldInv
  <1>4. l = lane[1]
    <2>1. PICK k \in 1 .. N : l = lane[k]
      BY <1>2, <1>3 DEF ToSet
    <2>2. k \in 2 .. N \/ k = 1
      BY <1>3
    <2> QED BY <1>1, <1>3, <2>1, <2>2
  <1> HIDE DEF N, lane
  <1>5. PICK k \in 2 .. N : lane[k] \notin T
    <2>1. SUFFICES ASSUME \A k \in 2 .. N : lane[k] \in T PROVE FALSE
      OBVIOUS
    <2>2. \A k \in 1 .. N : lane[k] \in T
      <3> SUFFICES ASSUME NEW k \in 1 .. N PROVE lane[k] \in T
        OBVIOUS
      <3>1. k \in 2 .. N \/ k = 1
        BY <1>3
      <3> QED BY <1>4, <2>1, <3>1
    <2> DEFINE f == [k \in 1 .. N |-> lane[k]]
    <2>3. f \in Injection(1 .. N, T)
      BY <1>3, <2>2 DEF Injection, IsInjective
    <2> HIDE DEF f
    <2>4. IsFiniteSet(T)
      BY SharedLanesFinite, FS_Subset
    <2>5. Cardinality(1 .. N) = N
      BY <1>3, FS_Interval
    <2>6. Cardinality(1 .. N) <= Cardinality(T)
      BY <2>3, <2>4, FS_Injection
    <2> QED BY <1>3, <2>5, <2>6
  <1> DEFINE m == << "M", SecretAt(j), k >>
  <1>6. m \in held[l] /\ m[1] = "M" /\ m[2] = SecretAt(j)
    BY <1>3, <1>4, <1>5
  <1>7. ASSUME NEW p \in T, m \in held[p] PROVE p = l
    <2>1. p \in ToSet(LanesAt(j))
      BY <1>6, <1>7, SharedLanesFinite, WhereShared
    <2>2. PICK x \in 1 .. N : p = lane[x]
      BY <1>3, <2>1 DEF ToSet, lane
    <2>3. x \in 2 .. N \/ x = 1
      BY <1>3
    <2>4. CASE x \in 2 .. N
      <3>1. << "M", SecretAt(j), k >> = << "M", SecretAt(j), x >>
        BY <1>3, <1>7, <2>2, <2>4
      <3>2. k = x
        BY <3>1
      <3> QED BY <1>5, <1>7, <2>2, <3>2
    <2> QED BY <1>4, <2>2, <2>3, <2>4
  <1> HIDE DEF m
  <1>8. m \in Sum(T)
    BY <1>6, <1>7, SumOfOne
  <1> QED BY <1>6, <1>8

\* Under TPS the shares on the ports add up to the secret, and fewer lanes than
\* a secret has shares never add up to anything about a secret without a mask;
\* under NI and SNI no secret is in the circuit.  For any number of shares, any
\* circuit and any way the bench drives, holds and clears its ports.
THEOREM SharesAlwaysSound == Spec => []SharesSound
  <1>1. HeldInv => SharesSound
    <2> SUFFICES ASSUME HeldInv PROVE SharesSound
      OBVIOUS
    <2>1. ASSUME config.property = "TPS", NEW secret \in Shared, Cardinality(LanesOf(secret)) = SharesIn(secret)
          PROVE  Sum(LanesOf(secret)) = {<< "S", secret >>}
      <3>1. PICK i \in Sharing : secret = SecretAt(i) /\ SharesIn(secret) = Len(LanesAt(i))
        BY SharedSecrets DEF HeldInv
      <3>2. Len(LanesAt(i)) > 0
        BY <3>1, Respected DEF HeldInv
      <3>3. LanesOf(secret) # {}
        BY <2>1, <3>1, <3>2, FS_EmptySet
      <3> QED BY <2>1, <3>1, <3>3, LanesAre, AllAddUp
    <2>2. ASSUME config.property = "TPS", NEW secret \in Shared, NEW n \in 1 .. SharesIn(secret) - 1,
                 NEW T \in kSubset(n, SharedLanes), \E s \in Sum(T) : s[1] = "S"
          PROVE  \E s \in Sum(T) : s[1] = "M"
      <3>1. PICK i \in Sharing : SharesIn(secret) = Len(LanesAt(i))
        BY SharedSecrets DEF HeldInv
      <3>2. Len(LanesAt(i)) \in Nat
        BY <3>1, Respected DEF HeldInv, Sharing
      <3>3. n \in Nat /\ n < Len(LanesAt(i))
        BY <3>1, <3>2
      <3>4. T \in SUBSET SharedLanes /\ Cardinality(T) = n
        BY DEF kSubset
      <3> QED BY <2>2, <3>3, <3>4, FewHide
    <2>3. ASSUME config.property # "TPS", NEW l \in DOMAIN held, NEW s \in held[l] PROVE s[1] # "S"
      <3>1. CASE Masking(l)
        BY <2>3, <3>1 DEF Masking, MasksOf
      <3>2. CASE \E i \in Sharing : l \in ToSet(LanesAt(i)) /\ SharedBy(i)
        <4>1. PICK i \in Sharing : l \in ToSet(LanesAt(i)) /\ SharedBy(i)
          BY <3>2
        <4>2. LanesAt(i) \in Seq(Name)
          BY Respected DEF HeldInv, Sharing
        <4>3. PICK k \in 1 .. Len(LanesAt(i)) : s \in RealShares(SecretAt(i), Len(LanesAt(i)))[k]
          BY <2>3, <4>1, <4>2 DEF ToSet, SharedBy, get_shares
        <4> QED BY <4>3 DEF RealShares
      <3> QED BY <3>1, <3>2 DEF HeldInv
    <2> QED BY <2>1, <2>2, <2>3 DEF SharesSound
  <1> QED BY <1>1, HeldInvariant, PTL

-----------------------------------------------------------------------------
(* Masks                                                                   *)

\* The masks on the ports are older than the step, but before the first one.
MaskInv ==
  /\ newest \in Nat /\ (newest < steps \/ newest = 0)
  /\ steps <= bench.from => DOMAIN held \intersect bench.random = {}

\* The masks of a cycle all have its number.
LEMMA NumbersAre ==
  ASSUME HeldInv, MaskInv, held' = Prepared
  PROVE  /\ Numbers(held') \subseteq {steps}
         /\ steps < bench.from => held' = held
  <1>1. steps \in Nat /\ bench.from \in Nat
    BY Respected DEF HeldInv
  <1>2. CASE steps < bench.from
    <2>1. held' = held /\ DOMAIN held \intersect bench.random = {}
      BY <1>1, <1>2 DEF Prepared, MaskInv
    <2> QED BY <2>1 DEF Numbers
  <1>3. CASE ~(steps < bench.from)
    <2>1. held' = [l \in DOMAIN held \union bench.random |->
                     IF l \in bench.random THEN {<< "M", l, steps >>} ELSE held[l]]
      BY <1>3 DEF Prepared, MaskNumber
    <2>2. \A l \in DOMAIN held' \intersect bench.random : held'[l] = {<< "M", l, steps >>}
      BY <2>1
    <2>3. ASSUME NEW s \in UNION {held'[l] : l \in DOMAIN held' \intersect bench.random} PROVE s[3] = steps
      BY <2>2
    <2> QED BY <1>3, <2>3 DEF Numbers
  <1> QED BY <1>2, <1>3

\* No mask serves in two cycles, for any bench and circuit, when every cycle
\* converges: the ones prepare_step drives are newer than those before.
THEOREM MasksAlwaysFresh == ASSUME Convergence = {TRUE} PROVE Spec => FreshMasks
  <1>1. Init => MaskInv
    <2> SUFFICES ASSUME Init PROVE MaskInv
      OBVIOUS
    <2>1. held = << >>
      BY Zenon DEF Init
    <2> QED BY <2>1 DEF Init, MaskInv
  <1>2. ASSUME HeldInv, MaskInv, [Next]_vars
        PROVE  /\ MaskInv'
               /\ steps' # steps => \A n \in Numbers(held') : newest < n \/ newest = 0
    <2>1. UNCHANGED << bench, config >> /\ (Drive \/ step \/ UNCHANGED << held, steps, newest, tainted >>)
      BY <1>2, Transitions
    <2>2. CASE Drive
      <3>1. /\ UNCHANGED << steps, newest >> /\ pc \in DOMAIN bench.program
            /\ DOMAIN held' = DOMAIN held \union ToSet(LanesAt(pc))
        BY <1>2, <2>2, BenchesAssumption DEF Drive, Driven, At, Instr, LanesAt, HeldInv, WellFormed
      <3>2. ToSet(LanesAt(pc)) \intersect bench.random = {}
        BY <1>2, <3>1, Respected DEF HeldInv
      <3> QED BY <1>2, <2>1, <3>1, <3>2 DEF MaskInv
    <2>3. CASE step
      <3>1. held' = Prepared /\ newest' = Max(Numbers(held') \union {newest}) /\ steps' = steps + 1
        BY <2>3 DEF step, Count
      <3>2. Numbers(held') \subseteq {steps} /\ (steps < bench.from => held' = held) /\ steps \in Nat
            /\ newest \in Nat /\ bench.from \in Nat
        BY <1>2, <3>1, NumbersAre, Respected DEF HeldInv, MaskInv
      <3>3. newest' \in {steps, newest}
        <4>1. Numbers(held') \union {newest} = {newest} \/ Numbers(held') \union {newest} = {steps, newest}
          BY <3>2
        <4>2. ASSUME NEW a \in Nat, NEW b \in Nat PROVE Max({a, b}) \in {a, b} /\ Max({a}) = a
          BY DEF Max
        <4> QED BY <3>1, <3>2, <4>1, <4>2, Zenon
      <3>4. newest' \in Nat /\ newest' < steps'
        BY <1>2, <3>1, <3>2, <3>3 DEF MaskInv
      <3>5. steps' <= bench.from' => DOMAIN held' \intersect bench.random' = {}
        BY <1>2, <2>1, <3>1, <3>2 DEF MaskInv
      <3>6. \A n \in Numbers(held') : newest < n \/ newest = 0
        BY <1>2, <3>2 DEF MaskInv
      <3> QED BY <3>4, <3>5, <3>6 DEF MaskInv
    <2>4. CASE UNCHANGED << held, steps, newest, tainted >>
      BY <1>2, <2>1, <2>4 DEF MaskInv
    <2> QED BY <2>1, <2>2, <2>3, <2>4
  <1>3. HeldInv /\ MaskInv /\ [Next]_vars
          => MaskInv' /\ [steps' # steps => \A n \in Numbers(held') : newest < n \/ newest = 0]_vars
    BY <1>2
  <1> QED BY <1>1, <1>3, HeldInvariant, PTL DEF Spec, FreshMasks

=============================================================================
