------------------------------ MODULE TestBench ------------------------------
(***************************************************************************)
(* The harness of a gadget or an accelerator: main() of a simulate.cpp and *)
(* its prepare_step, one action per instruction, around Manager::step, the *)
(* measure and get_shares.  The circuit is seen by what the bench drives   *)
(* on its ports and by the cycle at which it signals that it is done.      *)
(*                                                                         *)
(* An expression is the set of the symbols it adds:                        *)
(*   << "S", secret >>         the secret itself                           *)
(*   << "M", secret, i >>      the mask that is the i-th of getPseudoShares            *)
(*   << "A", secret, i >>      the i-th share of getRealShares             *)
(*   << "M", lane >>           symbol(lane, 'M')                           *)
(*   << "M", lane, step >>     the mask prepare_step named by get_steps()  *)
(***************************************************************************)
EXTENDS Configuration, Sequences, FiniteSets, SequencesExt, FiniteSetsExt

CONSTANTS
  Benches,      \* the programs, records of TestBenches
  Latencies,    \* cycles the circuit may compute before it signals done
  Never,        \* ... that of a circuit that never does, and bound of the counters
  Convergence   \* what Manager::step may find: top.eval() converged or not

\* What the main() of a bench respects: a secret is shared once, on lanes of its
\* own or on exactly those of an earlier one, all the secrets in as many shares;
\* the ports prepare_step drives are driven by nothing else; no mask has the
\* name of a secret.
WellFormed(b) ==
  LET Name == STRING \X Nat
      lanes(i) == ToSet(b.program[i].lanes)
      sharing == {i \in DOMAIN b.program : b.program[i].op = "share"}
      secrets == {b.program[i].secret : i \in sharing}
  IN /\ b.program \in Seq([op : STRING, secret : {<< >>} \union Name, lanes : Seq(Name)])
     /\ b.from \in Nat /\ b.random \subseteq Name /\ IsFiniteSet(b.random)
     /\ \A i \in DOMAIN b.program : i \in sharing <=> b.program[i].secret # << >>
     /\ \A i \in sharing :
          /\ Len(b.program[i].lanes) > 0
          /\ \A k, m \in DOMAIN b.program[i].lanes :
               b.program[i].lanes[k] = b.program[i].lanes[m] => k = m
     /\ \A i, j \in sharing :
          /\ b.program[i].secret = b.program[j].secret => i = j
          /\ Len(b.program[i].lanes) = Len(b.program[j].lanes)
     /\ \A i \in sharing, j \in DOMAIN b.program :
          lanes(i) = lanes(j) \/ lanes(i) \intersect lanes(j) = {}
     /\ \A i \in DOMAIN b.program :
          /\ lanes(i) \intersect b.random = {}
          /\ b.program[i].op = "mask" => lanes(i) \intersect secrets = {}
     /\ b.random \intersect secrets = {}

ASSUME BenchesAssumption == \A b \in Benches : WellFormed(b)

VARIABLES
  bench, latency,   \* fixed
  phase,            \* how the constructor of Configuration ended, then "done"
  config,           \* the options
  pc,               \* the next instruction of bench.program
  held,             \* the expression on every lane driven so far
  steps, measure,   \* of the Manager
  started,          \* the steps taken since the circuit was started
  shown,            \* what stat() printed: the cycles, or "nothing"
  tainted,          \* ghost: a committed cycle carried a secret
  verified,         \* ghost: measured cycles
  newest            \* ghost: the highest step number in the masks committed so far

vars == << bench, latency, phase, config, pc, held, steps, measure, started, shown,
           tainted, verified, newest >>

Measuring == measure.started /\ ~measure.ended
NotStarted == 0
\* Cycles are counted up to a bound no latency and no limit reaches
Capped(n) == IF n < Never THEN n + 1 ELSE n

Init ==
  /\ bench \in Benches
  /\ latency \in Latencies
  \* a loop without a limit ends because its circuit does, and no circuit of
  \* the others needs their 6000 cycles
  /\ latency = Never => bench.limit < Never
  /\ phase = "starting" /\ config \in Options
  /\ pc = 1 /\ held = << >> /\ steps = 0 /\ started = NotStarted /\ shown = << >>
  /\ measure = [started |-> FALSE, ended |-> FALSE, begin_cycle |-> 0, end_cycle |-> 0]
  /\ tainted = FALSE /\ verified = 0 /\ newest = 0

Configure ==
  /\ phase = "starting"
  /\ phase' = Outcome(bench.type, config)
  /\ UNCHANGED << bench, latency, config, pc, held, steps, measure, started, shown,
                  tainted, verified, newest >>

-----------------------------------------------------------------------------
(* Manager::get_shares                                                     *)

RealShares(secret, n) == [i \in 1 .. n |-> {<< "A", secret, i >>}]

\* The secret under n - 1 masks, then the masks (mutant: under the second only)
PseudoSharesShort(secret, n) ==
  [i \in 1 .. n |-> IF i > 1 THEN {<< "M", secret, i >>} ELSE {<< "S", secret >>, << "M", secret, 2 >>}]
PseudoShares(secret, n) ==
  [i \in 1 .. n |-> IF i > 1 THEN {<< "M", secret, i >>}
                    ELSE {<< "S", secret >>} \union {<< "M", secret, j >> : j \in 2 .. n}]

get_shares(secret, n) ==
  IF config.property = "TPS" THEN PseudoShares(secret, n) ELSE RealShares(secret, n)

-----------------------------------------------------------------------------
(* The instructions                                                        *)

Instr == bench.program[pc]
At(op) == phase = "running" /\ pc <= Len(bench.program) /\ Instr.op = op

\* held with the i-th lane of the instruction carrying value(i)
Driven(value) ==
  [l \in DOMAIN held \union ToSet(Instr.lanes) |->
     IF l \in ToSet(Instr.lanes) THEN value[CHOOSE i \in DOMAIN Instr.lanes : Instr.lanes[i] = l]
     ELSE held[l]]

Values ==
  CASE Instr.op = "share" -> get_shares(Instr.secret, Len(Instr.lanes))
    [] Instr.op = "mask"  -> [i \in DOMAIN Instr.lanes |-> {<< "M", Instr.lanes[i] >>}]
    [] Instr.op = "const" -> [i \in DOMAIN Instr.lanes |-> {}]

Drive ==
  /\ At("share") \/ At("mask") \/ At("const")
  /\ held' = Driven(Values)
  /\ pc' = pc + 1
  /\ UNCHANGED << bench, latency, phase, config, steps, measure, started, shown, tainted,
                  verified, newest >>

\* The number in the names of the masks (mutant: that of the measured cycle)
MeasureNumber == IF Measuring THEN steps - measure.begin_cycle ELSE steps
MaskNumber == steps

\* prepare_step: new masks on the ports that take some
Prepared ==
  IF steps < bench.from THEN held
  ELSE [l \in DOMAIN held \union bench.random |->
          IF l \in bench.random THEN {<< "M", l, MaskNumber >>} ELSE held[l]]

\* A cycle that did not converge is not counted (mutant: none is)
CountNever(converged) == steps
Count(converged) == IF converged THEN steps + 1 ELSE steps

\* ghost
Secret(symbol) == symbol[1] \in {"S", "A"}
Secrets(lanes) == UNION {{s \in lanes[l] : Secret(s)} : l \in DOMAIN lanes}
Numbers(lanes) == {s[3] : s \in UNION {lanes[l] : l \in DOMAIN lanes \intersect bench.random}}

step ==
  /\ held' = Prepared
  /\ \E converged \in Convergence : steps' = Count(converged)
  /\ verified' = IF Measuring THEN Capped(verified) ELSE verified
  /\ started' = IF started = NotStarted THEN NotStarted ELSE Capped(started)
  /\ tainted' = (tainted \/ Secrets(held') # {})
  /\ newest' = Max(Numbers(held') \union {newest})
  /\ UNCHANGED << bench, latency, phase, config, measure, shown >>

Step == At("step") /\ step /\ pc' = pc + 1

done == latency # Never /\ started > latency

WaitStep == At("wait") /\ ~done /\ steps < bench.limit /\ step /\ UNCHANGED pc

WaitEnd ==
  /\ At("wait") /\ (done \/ steps >= bench.limit)
  /\ pc' = pc + 1
  /\ UNCHANGED << bench, latency, phase, config, held, steps, measure, started, shown, tainted,
                  verified, newest >>

StartCircuit ==
  /\ At("start")
  /\ started' = 1 /\ pc' = pc + 1
  /\ UNCHANGED << bench, latency, phase, config, held, steps, measure, shown, tainted, verified,
                  newest >>

begin_measure ==
  /\ At("begin") /\ pc' = pc + 1
  /\ measure' = IF measure.started THEN measure
                ELSE [measure EXCEPT !.started = TRUE, !.begin_cycle = steps]
  /\ UNCHANGED << bench, latency, phase, config, held, steps, started, shown, tainted, verified,
                  newest >>

\* end_cycle_ (mutant: one too late)
EndLate == steps + 1
EndCycle == steps

end_measure ==
  /\ At("end") /\ pc' = pc + 1
  /\ measure' = IF ~Measuring THEN measure
                ELSE [measure EXCEPT !.ended = TRUE, !.end_cycle = EndCycle]
  /\ UNCHANGED << bench, latency, phase, config, held, steps, started, shown, tainted, verified,
                  newest >>

stat ==
  /\ At("stat") /\ pc' = pc + 1
  /\ shown' = IF measure.started /\ measure.ended
              THEN << measure.end_cycle - measure.begin_cycle >> ELSE << "nothing" >>
  /\ UNCHANGED << bench, latency, phase, config, held, steps, measure, started, tainted, verified,
                  newest >>

Exit ==
  /\ phase = "running" /\ pc > Len(bench.program)
  /\ phase' = "done"
  /\ UNCHANGED << bench, latency, config, pc, held, steps, measure, started, shown, tainted,
                  verified, newest >>

Next ==
  \/ Configure \/ Drive \/ Step \/ WaitStep \/ WaitEnd \/ StartCircuit
  \/ begin_measure \/ end_measure \/ stat \/ Exit

\* main() is one thread that never waits for anything but itself
Spec == Init /\ [][Next]_vars /\ WF_vars(Next)

-----------------------------------------------------------------------------
Stopped == phase \notin {"starting", "running"}

TypeOK ==
  /\ bench \in Benches /\ latency \in Latencies /\ config \in Options
  /\ phase \in {"starting", "help", "refused", "aborted", "running", "done"}
  /\ pc \in 1 .. Len(bench.program) + 1
  /\ steps \in Nat /\ started \in Nat /\ verified \in 0 .. steps /\ newest \in 0 .. steps
  /\ measure.begin_cycle <= steps /\ measure.end_cycle <= steps

\* What a set of lanes adds up to
Sum(lanes) == {s \in UNION {held[l] : l \in lanes} : Cardinality({l \in lanes : s \in held[l]}) % 2 = 1}
\* The lanes that share a secret now, and how many shares it was cut in
LanesOf(secret) ==
  {l \in DOMAIN held : \E s \in held[l] : Len(s) >= 2 /\ s[2] = secret}
Shared == {i.secret : i \in ToSet(bench.program)} \ {<< >>}
SharedLanes == UNION {LanesOf(secret) : secret \in Shared}
SharesIn(secret) ==
  LET i == CHOOSE i \in ToSet(bench.program) : i.secret = secret IN Len(i.lanes)

\* Under TPS the shares on the ports add up to the secret, and as many lanes
\* as the order of the masking, whichever secrets they share,
\* never add up to anything about a secret; under NI and SNI every lane is one
\* share and no secret is in the circuit.
SharesSound ==
  /\ config.property = "TPS" =>
       \A secret \in Shared :
         LET all == LanesOf(secret)
         IN Cardinality(all) = SharesIn(secret) => Sum(all) = {<< "S", secret >>}
  /\ config.property = "TPS" =>
       \A secret \in Shared : \A n \in 1 .. SharesIn(secret) - 1 :
         \A T \in kSubset(n, SharedLanes) :
           (\E s \in Sum(T) : s[1] = "S") => \E s \in Sum(T) : s[1] = "M"
  /\ config.property # "TPS" => \A l \in DOMAIN held : \A s \in held[l] : s[1] # "S"

\* A mask never serves in two cycles: the ones prepare_step drives are newer
\* than all those of the cycles before.
FreshMasks ==
  [][steps' # steps => \A n \in Numbers(held') : newest < n \/ newest = 0]_vars

\* No cycle that may show a secret, because one is on the ports or entered the
\* circuit before, escapes the measure.
SecretsMeasured ==
  [][steps' # steps /\ tainted' => Measuring]_vars

\* The cycles stat() prints are those that were measured, and every bench that
\* gives a secret to its circuit prints them.
StatExact ==
  /\ shown # << >> => shown = << verified >>
  /\ phase = "done" /\ tainted => shown # << >>

\* Every run ends, a circuit that never answers included: the limit of the
\* wait loop is on a step number that grows.
Ends == <>Stopped

\* The assertion "Verification order should be superior or equal to one"
\* (configuration.cpp)
OrderAtLeastOne == phase = "running" => config.order >= 1
=============================================================================
