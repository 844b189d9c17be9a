---------------------------- MODULE CpuBenchProofs ----------------------------
(***************************************************************************)
(* For every layout the linker may choose, every mask and every bound:     *)
(* what is measured is what the program asked to measure, the printed      *)
(* statistics are those of the measured cycles, the nodes of the memory    *)
(* are worth its data, and the masked table is where the program looks     *)
(* for it.                                                                 *)
(***************************************************************************)
EXTENDS CpuBench, TLAPS, FiniteSetTheorems, SequenceTheorems, WellFoundedInduction

Measures == [started : BOOLEAN, ended : BOOLEAN, begin_cycle : Nat, end_cycle : Nat]

\* How far the route of a program goes, and which of its places are measured.
LEMMA Routes ==
  /\ Hang = Len(Route(program)) /\ Hang \in {4, 8} /\ Route(program)[1] = "boot"
  /\ program.window = "init" => Hang = 4
  /\ program.window # "init" => Hang = 8
  /\ \A k \in 1 .. Hang : Route(program)[k] = "_start" <=> k = 2
  /\ \A k \in 1 .. Hang : Route(program)[k] = "_hang" <=> k = Hang
  /\ program.window # "init" => \A k \in 1 .. Hang :
       /\ Route(program)[k] = "start_analysis" <=> k = 4
       /\ Route(program)[k] = "body" <=> k = 5
       /\ Route(program)[k] = "end_analysis" <=> k = 6
  <1>1. CASE program.window = "init"
    <2>1. Route(program) = << "boot", "_start", "body", "_hang" >>
      BY <1>1 DEF Route
    <2> QED BY <1>1, <2>1 DEF Hang
  <1>2. CASE program.window # "init"
    <2>1. Route(program) = << "boot", "_start", "keys", "start_analysis", "body", "end_analysis", "tail", "_hang" >>
      BY <1>2 DEF Route
    <2> QED BY <1>2, <2>1 DEF Hang
  <1> QED BY <1>1, <1>2

\* Before the program runs nothing is measured or redirected.
Before ==
  /\ at = (IF phase = "init" THEN 2 ELSE 1)
  /\ ~measure.started /\ ~measure.ended /\ verified = 0
  /\ hooked = {}

\* While it runs, where the pc is says whether the cycle is measured.
Window ==
  IF program.window = "init" THEN measure.started /\ ~measure.ended
  ELSE (measure.started <=> at >= 4) /\ (measure.ended <=> at >= 6)

\* The cycles the measure has seen.
Counting ==
  /\ ~measure.started => verified = 0 /\ ~measure.ended
  /\ Measuring => verified = steps - measure.begin_cycle
  /\ measure.started /\ measure.ended => verified = measure.end_cycle - measure.begin_cycle

Running ==
  /\ at \in 2 .. Hang /\ (phase = "run" => at # Hang) /\ (phase = "conclude" => at = Hang)
  /\ Window

BenchInv ==
  /\ steps \in Nat /\ verified \in Nat /\ measure \in Measures
  /\ symbolic \subseteq Watched
  /\ phase \in {"load", "reset", "unwind", "init", "run", "conclude"} \union
               {"refused", "failed", "asserted", "trapped", "done"}
  /\ phase \in {"load", "reset", "unwind", "init"} => Before
  /\ phase \in {"run", "conclude"} => Running
  /\ Counting
  /\ phase = "done" => shown = << verified >>

\* A step of the Manager counts one cycle, and measures it or not.
LEMMA StepCounts ==
  ASSUME BenchInv, step
  PROVE  /\ steps' = steps + 1 /\ verified' = (IF Measuring THEN verified + 1 ELSE verified)
         /\ steps' \in Nat /\ verified' \in Nat
         /\ UNCHANGED << cpu, program, hooked, shown >>
  BY DEF step, fixed, BenchInv

LEMMA BenchInit == Init => BenchInv
  BY DEF Init, BenchInv, Before, Counting, Measuring, Measures, Watched

\* The places of the program do not move, nor does what is watched.
LEMMA FixedKept ==
  ASSUME UNCHANGED << cpu, program >>
  PROVE  Hang' = Hang /\ Watched' = Watched /\ Route(program)' = Route(program)
  BY DEF Hang, Watched, Route

\* What the hook of a program does where the pc arrives.
LEMMA HookWindow ==
  ASSUME BenchInv, phase = "run", step, at' \in {at, at + 1}, measure' = hook_implem(Route(program)[at'])
  PROVE  measure' \in Measures /\ Window' /\ Counting' /\ at' \in 2 .. Hang
  <1>1. /\ steps' = steps + 1 /\ verified' = (IF Measuring THEN verified + 1 ELSE verified)
        /\ UNCHANGED << cpu, program >> /\ steps' \in Nat /\ verified' \in Nat /\ steps \in Nat /\ verified \in Nat
    BY StepCounts DEF BenchInv
  <1>2. at \in 2 .. Hang /\ at # Hang /\ Window /\ Counting /\ measure \in Measures
    BY DEF BenchInv, Running
  <1>3. at' \in 2 .. Hang
    BY <1>2, Routes
  <1>4. CASE program.window = "init"
    <2>1. measure' = measure
      BY <1>4 DEF hook_implem
    <2>2. measure.started /\ ~measure.ended /\ verified = steps - measure.begin_cycle
      BY <1>2, <1>4 DEF Window, Counting, Measuring
    <2> QED BY <1>1, <1>2, <1>3, <1>4, <2>1, <2>2 DEF Window, Counting, Measuring, Measures
  <1>5. CASE program.window # "init"
    <2>1. /\ measure.started <=> at >= 4
          /\ measure.ended <=> at >= 6
      BY <1>2, <1>5 DEF Window
    <2>2. /\ Route(program)[at'] = "start_analysis" <=> at' = 4
          /\ Route(program)[at'] = "end_analysis" <=> at' = 6
      BY <1>3, <1>5, Routes
    <2>3. CASE at' = 4 /\ ~measure.started
      <3>1. measure' = [measure EXCEPT !.started = TRUE, !.begin_cycle = steps']
        BY <1>5, <2>2, <2>3 DEF hook_implem
      <3>2. ~measure.ended /\ verified = 0 /\ verified' = 0
        BY <1>1, <1>2, <2>3 DEF Counting, Measuring
      <3>3. measure'.started /\ ~measure'.ended /\ measure'.begin_cycle = steps' /\ measure' \in Measures
        BY <1>1, <1>2, <3>1, <3>2 DEF Measures
      <3> QED BY <1>1, <1>3, <1>5, <2>3, <3>2, <3>3 DEF Window, Counting, Measuring
    <2>4. CASE at' = 6 /\ Measuring
      <3>1. measure' = [measure EXCEPT !.ended = TRUE, !.end_cycle = steps']
        BY <1>5, <2>2, <2>4 DEF hook_implem
      <3>2. verified = steps - measure.begin_cycle /\ verified' = verified + 1
        BY <1>1, <1>2, <2>4 DEF Counting
      <3>3. /\ measure'.started /\ measure'.ended /\ measure'.begin_cycle = measure.begin_cycle
            /\ measure'.end_cycle = steps' /\ measure' \in Measures
        BY <1>1, <1>2, <2>4, <3>1 DEF Measures, Measuring
      <3>4. verified' = steps' - measure.begin_cycle
        BY <1>1, <1>2, <3>2 DEF Measures
      <3> QED BY <1>1, <1>3, <1>5, <2>4, <3>3, <3>4 DEF Window, Counting, Measuring
    <2>5. CASE ~(at' = 4 /\ ~measure.started) /\ ~(at' = 6 /\ Measuring)
      <3>1. measure' = measure
        BY <1>5, <2>2, <2>5 DEF hook_implem
      <3>2. (measure.started <=> at' >= 4) /\ (measure.ended <=> at' >= 6)
        BY <1>2, <1>3, <2>1, <2>5, Routes DEF Measuring
      <3>3. Measuring => verified' = steps' - measure.begin_cycle
        BY <1>1, <1>2 DEF Counting, Measures
      <3>4. ~Measuring => verified' = verified
        BY <1>1
      <3> QED BY <1>1, <1>2, <1>3, <1>5, <3>1, <3>2, <3>3, <3>4 DEF Window, Counting, Measuring
    <2> QED BY <2>3, <2>4, <2>5
  <1> QED BY <1>3, <1>4, <1>5

LEMMA RunInv == ASSUME BenchInv, Run PROVE BenchInv'
  <1>1. CASE cpu.check_first /\ Trap(Forced(symbolic))
    <2>1. /\ phase' = "trapped"
          /\ UNCHANGED << cpu, steps, measure, symbolic, verified >>
      BY <1>1 DEF Run, fixed
    <2> QED BY <2>1 DEF BenchInv, Counting, Measuring, Watched
  <1>2. CASE ~(cpu.check_first /\ Trap(Forced(symbolic)))
    <2>1. /\ phase = "run" /\ step /\ at' \in {at, at + 1} /\ symbolic' \in SUBSET Watched
          /\ IF ~cpu.check_first /\ Trap(symbolic') THEN phase' = "trapped" /\ UNCHANGED measure
             ELSE /\ measure' = hook_implem(Route(program)[at'])
                  /\ phase' = IF at' = Hang THEN "conclude" ELSE "run"
      BY <1>2 DEF Run
    <2>2. /\ steps' = steps + 1 /\ verified' = (IF Measuring THEN verified + 1 ELSE verified)
          /\ steps' \in Nat /\ verified' \in Nat /\ UNCHANGED << cpu, program >>
          /\ Hang' = Hang /\ Watched' = Watched /\ steps \in Nat
      BY <2>1, StepCounts, FixedKept DEF BenchInv
    <2>3. CASE ~cpu.check_first /\ Trap(symbolic')
      <3>1. phase' = "trapped" /\ UNCHANGED measure
        BY <2>1, <2>3
      <3>2. measure \in Measures /\ Counting
        BY DEF BenchInv
      <3>3. Counting'
        <4>1. Measuring' = Measuring
          BY <3>1 DEF Measuring
        <4>2. Measuring => verified' = steps' - measure.begin_cycle
          BY <2>2, <3>2 DEF Counting, Measures
        <4>3. ~Measuring => verified' = verified
          BY <2>2
        <4> QED BY <2>2, <3>1, <3>2, <4>1, <4>2, <4>3 DEF Counting, Measuring
      <3> QED BY <2>1, <2>2, <3>1, <3>2, <3>3 DEF BenchInv
    <2>4. CASE ~(~cpu.check_first /\ Trap(symbolic'))
      <3>1. measure' = hook_implem(Route(program)[at']) /\ phase' = IF at' = Hang THEN "conclude" ELSE "run"
        BY <2>1, <2>4
      <3>2. measure' \in Measures /\ Window' /\ Counting' /\ at' \in 2 .. Hang
        BY <2>1, <3>1, HookWindow
      <3>3. Running'
        BY <2>2, <3>1, <3>2 DEF Running
      <3> QED BY <2>1, <2>2, <3>1, <3>2, <3>3 DEF BenchInv
    <2> QED BY <2>3, <2>4
  <1> QED BY <1>1, <1>2

\* Before the program runs, a cycle measures nothing.
LEMMA EarlyInv == ASSUME BenchInv, Reset \/ Unwind PROVE BenchInv'
  <1>1. /\ step /\ phase \in {"reset", "unwind"} /\ UNCHANGED << symbolic, measure >>
        /\ Before /\ at = 1 /\ ~Measuring /\ measure \in Measures
    BY DEF Reset, Unwind, BenchInv, Before, Measuring
  <1>2. /\ steps' \in Nat /\ verified' = verified /\ UNCHANGED << cpu, program, hooked >>
        /\ Hang' = Hang /\ Watched' = Watched /\ verified = 0
    BY <1>1, StepCounts, FixedKept DEF Before
  <1>3. phase' \in {"reset", "unwind", "init", "failed"}
    BY DEF Reset, Unwind
  <1>4. phase' # "failed" => at' = (IF phase' = "init" THEN 2 ELSE 1)
    <2>1. CASE Reset
      BY <1>1, <2>1 DEF Reset
    <2>2. CASE Unwind
      <3>1. /\ at' \in {1, 2, Hang}
            /\ phase' = CASE Route(program)[at'] = "_start" -> "init"
                          [] Route(program)[at'] = "_hang"  -> "failed"
                          [] OTHER -> "unwind"
        BY <1>1, <2>2 DEF Unwind
      <3>2. /\ Route(program)[1] # "_start" /\ Route(program)[1] # "_hang"
            /\ Route(program)[2] = "_start" /\ Route(program)[Hang] = "_hang"
            /\ Route(program)[Hang] # "_start"
        BY Routes
      <3>3. CASE at' = 1
        BY <3>1, <3>2, <3>3
      <3>4. CASE at' = 2
        BY <3>1, <3>2, <3>4
      <3>5. CASE at' = Hang
        BY <3>1, <3>2, <3>5
      <3> QED BY <3>1, <3>3, <3>4, <3>5
    <2> QED BY <2>1, <2>2
  <1>5. Counting'
    BY <1>1, <1>2 DEF Counting, Before, Measuring
  <1>6. phase' # "failed" => Before'
    BY <1>1, <1>2, <1>4 DEF Before
  <1> QED BY <1>1, <1>2, <1>3, <1>5, <1>6 DEF BenchInv

LEMMA InitImplemInv == ASSUME BenchInv, init_implem PROVE BenchInv'
  <1>1. phase = "init" /\ Before /\ measure \in Measures /\ steps \in Nat /\ verified = 0
    BY DEF init_implem, BenchInv, Before
  <1>2. UNCHANGED << cpu, program, at, symbolic, steps, verified >> /\ Hang' = Hang /\ Watched' = Watched
    BY FixedKept DEF init_implem, fixed
  <1>3. ~\E n \in DOMAIN Updates : Updates[n].index \in Redirected
    BY <1>1 DEF Redirected, Before
  <1>4. \/ phase' = "asserted" /\ UNCHANGED measure
        \/ /\ phase' = "run"
           /\ measure' = IF program.window = "init"
                         THEN [measure EXCEPT !.started = TRUE, !.begin_cycle = steps] ELSE measure
    BY <1>3, Zenon DEF init_implem
  <1>5. CASE phase' = "asserted" /\ UNCHANGED measure
    BY <1>1, <1>2, <1>5 DEF BenchInv, Counting, Measuring
  <1>6. CASE /\ phase' = "run"
             /\ measure' = IF program.window = "init"
                           THEN [measure EXCEPT !.started = TRUE, !.begin_cycle = steps] ELSE measure
    <2>1. measure' \in Measures /\ ~measure'.ended /\ (measure'.started <=> program.window = "init")
          /\ (measure'.started => measure'.begin_cycle = steps)
      BY <1>1, <1>6 DEF Measures, Before
    <2>2. at' = 2
      BY <1>1, <1>2 DEF Before
    <2>3. Running'
      BY <1>2, <1>6, <2>1, <2>2, Routes DEF Running, Window
    <2>4. Counting'
      BY <1>1, <1>2, <2>1 DEF Counting, Measuring
    <2> QED BY <1>1, <1>2, <1>6, <2>1, <2>3, <2>4 DEF BenchInv
  <1> QED BY <1>4, <1>5, <1>6

LEMMA ConcludeInv == ASSUME BenchInv, conclude_implem PROVE BenchInv'
  <1>1. /\ phase = "conclude" /\ at = Hang /\ Window /\ Counting /\ measure \in Measures
        /\ steps \in Nat /\ verified \in Nat
    BY DEF conclude_implem, BenchInv, Running
  <1>2. UNCHANGED << cpu, program, symbolic, steps, verified >> /\ Watched' = Watched /\ phase' = "done"
    BY FixedKept DEF conclude_implem, fixed
  <1>3. measure.started /\ (program.window # "init" => measure.ended)
    BY <1>1, Routes DEF Window
  <1>4. measure' \in Measures /\ measure'.started /\ measure'.ended
        /\ verified = measure'.end_cycle - measure'.begin_cycle
    <2>1. CASE program.window = "init"
      <3>1. Measuring /\ verified = steps - measure.begin_cycle
        BY <1>1, <2>1 DEF Window, Counting, Measuring
      <3>2. measure' = [measure EXCEPT !.ended = TRUE, !.end_cycle = steps]
        BY <2>1, <3>1 DEF conclude_implem
      <3> QED BY <1>1, <1>3, <3>1, <3>2 DEF Measures
    <2>2. CASE program.window # "init"
      <3>1. measure' = measure
        BY <2>2 DEF conclude_implem
      <3> QED BY <1>1, <1>3, <2>2, <3>1 DEF Counting
    <2> QED BY <2>1, <2>2
  <1>5. shown' = << verified' >>
    BY <1>2, <1>4 DEF conclude_implem
  <1> QED BY <1>1, <1>2, <1>4, <1>5 DEF BenchInv, Counting, Measuring

LEMMA OtherInv ==
  ASSUME BenchInv, load \/ UnwindFailed \/ RunFailed \/ UNCHANGED vars
  PROVE  BenchInv'
  <1>1. UNCHANGED << cpu, program, at, symbolic, hooked, steps, measure, shown, verified >>
        /\ Hang' = Hang /\ Watched' = Watched
    BY FixedKept DEF load, UnwindFailed, RunFailed, vars, fixed
  <1>2. Counting'
    BY <1>1 DEF BenchInv, Counting, Measuring
  <1>3. CASE load
    BY <1>1, <1>2, <1>3 DEF load, BenchInv, Before
  <1>4. CASE UnwindFailed \/ RunFailed
    BY <1>1, <1>2, <1>4 DEF UnwindFailed, RunFailed, BenchInv
  <1>5. CASE UNCHANGED vars
    <2>1. phase' = phase
      BY <1>5 DEF vars
    <2>2. Before => Before'
      BY <1>1, <2>1 DEF Before
    <2>3. Running => Running'
      BY <1>1, <2>1 DEF Running, Window
    <2> QED BY <1>1, <1>2, <2>1, <2>2, <2>3 DEF BenchInv
  <1> QED BY <1>3, <1>4, <1>5

LEMMA BenchInvariant == Spec => []BenchInv
  <1>1. BenchInv /\ [Next]_vars => BenchInv'
    BY RunInv, EarlyInv, InitImplemInv, ConcludeInv, OtherInv DEF Next
  <1> QED BY <1>1, BenchInit, PTL DEF Spec

\* Setting up never trips over its own redirection, and the statistics are
\* those of the measured cycles, for every core and every program.
THEOREM StatisticsExact == Spec => []StatExact
  <1>1. BenchInv => StatExact
    BY DEF BenchInv, StatExact
  <1> QED BY <1>1, BenchInvariant, PTL

\* The measured cycles are those between start_analysis and end_analysis, or
\* all those of a program that is given shares, whatever the pc does in between.
THEOREM WindowExact == Spec => MeasureWindow
  <1> DEFINE Measured == IF program.window = "init" THEN phase = "run" ELSE Place \in {"start_analysis", "body"}
  <1>1. ASSUME BenchInv, [Next]_vars, steps' # steps PROVE (verified' # verified) = Measured
    <2>1. step
      BY <1>1 DEF Next, vars, load, UnwindFailed, RunFailed, init_implem, conclude_implem,
                  Reset, Unwind, Run
    <2>2. Reset \/ Unwind \/ phase = "run"
      BY <1>1 DEF Next, vars, load, UnwindFailed, RunFailed, init_implem, conclude_implem, Run
    <2>3. (verified' # verified) <=> Measuring
      BY <1>1, <2>1, StepCounts DEF BenchInv
    <2>4. Measuring <=> Measured
      <3>1. CASE Reset \/ Unwind
        <4>1. phase # "run" /\ at = 1 /\ ~measure.started
          BY <1>1, <3>1 DEF Reset, Unwind, BenchInv, Before
        <4>2. Place = "boot"
          BY <4>1, Routes DEF Place
        <4> QED BY <4>1, <4>2 DEF Measuring
      <3>2. CASE phase = "run"
        <4>1. Window /\ at \in 2 .. Hang
          BY <1>1, <3>2 DEF BenchInv, Running
        <4>2. CASE program.window = "init"
          BY <3>2, <4>1, <4>2 DEF Window, Measuring
        <4>3. CASE program.window # "init"
          <5>1. Place \in {"start_analysis", "body"} <=> at \in {4, 5}
            BY <4>1, <4>3, Routes DEF Place
          <5> QED BY <4>1, <4>3, <5>1, Routes DEF Window, Measuring
        <4> QED BY <4>2, <4>3
      <3> QED BY <2>2, <3>1, <3>2
    <2> QED BY <2>3, <2>4
  <1>2. BenchInv /\ [Next]_vars =>
          [steps' # steps => (verified' # verified) = Measured]_vars
    BY <1>1
  <1> QED BY <1>2, BenchInvariant, PTL DEF Spec, MeasureWindow

-----------------------------------------------------------------------------
(* What the programs write *)

\* What is put in byte k of a variable by the loader.
Data(v, k) == IF k < v.live THEN {<< "c", v.name, k >>} ELSE {}

\* A node whose symbols all have a concrete value is worth these data.
Agrees(conc, node, data) ==
  (\A a \in node : a[1] = "s" => a \in DOMAIN conc) => WorthIn(conc, node) = data

\* A write of init_implem stays inside its variable, and gives to each byte a
\* node that is worth what the loader put there.
WritesOwn(p, w) ==
  \E v \in VarsOf(p) :
    /\ v.name = w.var /\ v.name # "sboxp" /\ w.word \in Nat
    /\ \/ w.mask = "symbol" /\ w.word = 0 /\ (w.shifted \/ v.align = 4)
       \/ w.mask = "word" /\ ~w.shifted /\ v.align = 4 /\ 4 * w.word + 4 <= v.size
       \/ w.mask = "half" /\ ~w.shifted /\ v.align = 4 /\ 4 * w.word + 2 <= v.size
    /\ \A k \in 0 .. 3 : 4 * w.word + k < v.size =>
         Agrees(p.conc, w.node[k], Data(v, 4 * w.word + k))

\* The variables of a program have each a name, and only symbols have a
\* concrete value.
VarsDistinct(p) ==
  /\ \A v, w \in VarsOf(p) : v.name = w.name => v = w
  /\ \A v \in VarsOf(p) : v.size \in Nat /\ v.align \in {1, 4} /\ v.live \in 0 .. v.size
  /\ \A a \in DOMAIN p.conc : a[1] = "s"

HasTable(p) ==
  /\ \E v \in VarsOf(p) :
       /\ v.name = "sboxp" /\ v.live = 0
       /\ IF p.table = "words" THEN v.align = 4 /\ v.size = 16 ELSE v.size = 4
  /\ << "s", "aes_mp", 0 >> \in DOMAIN p.conc
  /\ p.conc[<< "s", "aes_mp", 0 >>] = {<< "c", "mp", 0 >>}

WellSet(p) ==
  /\ VarsDistinct(p)
  /\ p.table \in {"none", "words", "bytes"} /\ (p.table # "none" => HasTable(p))
  /\ Len(p.writes) \in Nat /\ DOMAIN p.writes = 1 .. Len(p.writes)
  /\ \A n \in DOMAIN p.writes : WritesOwn(p, p.writes[n])

\* The worth of the sums a setup writes: of at most two atoms.
LEMMA WorthNone == ASSUME NEW conc PROVE WorthIn(conc, {}) = {}
  BY DEF WorthIn

LEMMA WorthOne == ASSUME NEW conc, NEW a PROVE WorthIn(conc, {a}) = ValueOf(conc, a)
  <1> DEFINE among(x) == {c \in {a} : x \in ValueOf(conc, c)}
  <1>1. UNION {ValueOf(conc, c) : c \in {a}} = ValueOf(conc, a)
    OBVIOUS
  <1>2. ASSUME NEW x \in ValueOf(conc, a) PROVE Cardinality(among(x)) % 2 = 1
    <2>1. among(x) = {a}
      BY <1>2
    <2>2. Cardinality({a}) = 1
      BY FS_Singleton
    <2> HIDE DEF among
    <2> QED BY <2>1, <2>2
  <1> HIDE DEF among
  <1>3. WorthIn(conc, {a}) = {x \in ValueOf(conc, a) : Cardinality(among(x)) % 2 = 1}
    BY <1>1 DEF WorthIn, among
  <1> QED BY <1>2, <1>3

LEMMA WorthTwo ==
  ASSUME NEW conc, NEW a, NEW b, a # b
  PROVE  WorthIn(conc, {a, b}) = Plus(ValueOf(conc, a), ValueOf(conc, b))
  <1> DEFINE among(x) == {c \in {a, b} : x \in ValueOf(conc, c)}
  <1>1. UNION {ValueOf(conc, c) : c \in {a, b}} = ValueOf(conc, a) \union ValueOf(conc, b)
    OBVIOUS
  <1>2. ASSUME NEW x \in ValueOf(conc, a) \union ValueOf(conc, b)
        PROVE  Cardinality(among(x)) % 2 = 1 <=> x \in Plus(ValueOf(conc, a), ValueOf(conc, b))
    <2>1. CASE x \in ValueOf(conc, a) /\ x \in ValueOf(conc, b)
      <3>1. among(x) = {a} \union {b}
        BY <2>1
      <3>2. Cardinality({a}) = 1 /\ IsFiniteSet({a}) /\ b \notin {a}
        BY FS_Singleton
      <3>3. Cardinality({a} \union {b}) = 2
        BY <3>2, FS_AddElement
      <3>4. Cardinality(among(x)) = 2
        BY <3>1, <3>3
      <3> HIDE DEF among
      <3>5. Cardinality(among(x)) % 2 # 1
        BY <3>4
      <3> QED BY <2>1, <3>5 DEF Plus
    <2>2. CASE x \in ValueOf(conc, a) /\ x \notin ValueOf(conc, b)
      <3>1. among(x) = {a}
        BY <2>2
      <3> QED BY <2>2, <3>1, FS_Singleton DEF Plus
    <2>3. CASE x \notin ValueOf(conc, a) /\ x \in ValueOf(conc, b)
      <3>1. among(x) = {b}
        BY <2>3
      <3> QED BY <2>3, <3>1, FS_Singleton DEF Plus
    <2> QED BY <1>2, <2>1, <2>2, <2>3
  <1>3. Plus(ValueOf(conc, a), ValueOf(conc, b)) \subseteq ValueOf(conc, a) \union ValueOf(conc, b)
    BY DEF Plus
  <1> HIDE DEF among
  <1>4. WorthIn(conc, {a, b}) = {x \in ValueOf(conc, a) \union ValueOf(conc, b) : Cardinality(among(x)) % 2 = 1}
    BY <1>1 DEF WorthIn, among
  <1> QED BY <1>2, <1>3, <1>4

LEMMA AgreesOne ==
  ASSUME NEW conc, NEW a, NEW data, a \in DOMAIN conc => conc[a] = data, a[1] = "s"
  PROVE  Agrees(conc, {a}, data)
  BY WorthOne DEF Agrees, ValueOf

LEMMA AgreesTwo ==
  ASSUME NEW conc, NEW a, NEW b, NEW data, a # b, a[1] = "s", b[1] = "s",
         a \in DOMAIN conc /\ b \in DOMAIN conc => Plus(conc[a], conc[b]) = data
  PROVE  Agrees(conc, {a, b}, data)
  BY WorthTwo DEF Agrees, ValueOf

LEMMA AgreesNone ==
  ASSUME NEW conc PROVE Agrees(conc, {}, {})
  BY WorthNone DEF Agrees

-----------------------------------------------------------------------------
(* The values of the symbols *)

\* The value of byte k of a symbol, if it has one.
Says(conc, s, k, data) == << "s", s, k >> \in DOMAIN conc => conc[<< "s", s, k >>] = data
SymbolsOnly(conc) == \A a \in DOMAIN conc : a[1] = "s"

LEMMA MergeSays ==
  ASSUME NEW f, NEW g
  PROVE  /\ \A s, k, data : Says(f, s, k, data) /\ Says(g, s, k, data) => Says(f ++ g, s, k, data)
         /\ SymbolsOnly(f) /\ SymbolsOnly(g) => SymbolsOnly(f ++ g)
  BY DEF ++, Says, SymbolsOnly

LEMMA MergedSays ==
  ASSUME NEW f, NEW g, NEW h, NEW s, NEW k, NEW data,
         Says(f, s, k, data), Says(g, s, k, data), Says(h, s, k, data)
  PROVE  Says(f ++ g ++ h, s, k, data)
  BY MergeSays

LEMMA ConcSays ==
  ASSUME NEW name, NEW value, NEW n
  PROVE  /\ \A s, k, data : s # name \/ value[k] = data => Says(Conc(name, value, n), s, k, data)
         /\ SymbolsOnly(Conc(name, value, n))
  BY DEF Conc, Says, SymbolsOnly

LEMMA ConcSharesSays ==
  ASSUME NEW s \in {"a", "b"}, NEW v0, NEW v1, NEW n
  PROVE  /\ SymbolsOnly(ConcShares(s, v0, v1, n))
         /\ \A k \in 0 .. 3 :
              /\ Says(ConcShares(s, v0, v1, n), s, k, Plus({<< "c", v0, k >>}, {<< "c", v1, k >>}))
              /\ Says(ConcShares(s, v0, v1, n), MaskName[s], k, {<< "c", v1, k >>})
         /\ \A t, k, data : t # s /\ t # MaskName[s] => Says(ConcShares(s, v0, v1, n), t, k, data)
  <1> DEFINE f == Conc(s, PlusWords(Content(v0), Content(v1)), n)
             g == Conc(MaskName[s], Content(v1), n)
  <1>1. s # MaskName[s]
    BY DEF MaskName
  <1>2. ASSUME NEW k \in 0 .. 3
        PROVE  /\ PlusWords(Content(v0), Content(v1))[k] = Plus({<< "c", v0, k >>}, {<< "c", v1, k >>})
               /\ Content(v1)[k] = {<< "c", v1, k >>}
    BY DEF PlusWords, Content
  <1>3. SymbolsOnly(f) /\ SymbolsOnly(g)
    BY ConcSays
  <1>4. ASSUME NEW k \in 0 .. 3
        PROVE  /\ Says(f, s, k, Plus({<< "c", v0, k >>}, {<< "c", v1, k >>}))
               /\ Says(g, s, k, Plus({<< "c", v0, k >>}, {<< "c", v1, k >>}))
               /\ Says(f, MaskName[s], k, {<< "c", v1, k >>})
               /\ Says(g, MaskName[s], k, {<< "c", v1, k >>})
    BY <1>1, <1>2, ConcSays
  <1>5. ASSUME NEW t, NEW k, NEW data, t # s, t # MaskName[s]
        PROVE  Says(f, t, k, data) /\ Says(g, t, k, data)
    BY <1>5, ConcSays
  <1>6. ConcShares(s, v0, v1, n) = f ++ g
    BY DEF ConcShares
  <1> HIDE DEF f, g
  <1> QED BY <1>3, <1>4, <1>5, <1>6, MergeSays

LEMMA SymbolAgrees ==
  ASSUME NEW conc, NEW s, NEW k \in 0 .. 3, NEW data, Says(conc, s, k, data)
  PROVE  Agrees(conc, Symbol(s)[k], data)
  <1>1. Symbol(s)[k] = {<< "s", s, k >>}
    BY DEF Symbol
  <1> DEFINE a == << "s", s, k >>
  <1>2. a \in DOMAIN conc => conc[a] = data
    BY DEF Says
  <1>3. a[1] = "s"
    OBVIOUS
  <1> HIDE DEF a
  <1>4. Agrees(conc, {a}, data)
    BY <1>2, <1>3, AgreesOne
  <1> QED BY <1>1, <1>4 DEF a

LEMMA SharesAgree ==
  ASSUME NEW conc, NEW s \in {"a", "b"}, NEW k \in 0 .. 3, NEW v0, NEW v1,
         Says(conc, s, k, Plus({<< "c", v0, k >>}, {<< "c", v1, k >>})),
         Says(conc, MaskName[s], k, {<< "c", v1, k >>})
  PROVE  /\ Agrees(conc, Share0(s)[k], {<< "c", v0, k >>})
         /\ Agrees(conc, Share1(s)[k], {<< "c", v1, k >>})
  <1> DEFINE a == << "s", s, k >>
             b == << "s", MaskName[s], k >>
  <1>1. a # b
    BY DEF MaskName
  <1>2. Share0(s)[k] = {a, b}
    BY <1>1 DEF Share0, PlusWords, Symbol, Plus
  <1>3. a \in DOMAIN conc /\ b \in DOMAIN conc => Plus(conc[a], conc[b]) = {<< "c", v0, k >>}
    BY DEF Says, Plus
  <1>4. Agrees(conc, {a, b}, {<< "c", v0, k >>})
    <2>1. a[1] = "s" /\ b[1] = "s"
      OBVIOUS
    <2> HIDE DEF a, b
    <2> QED BY <1>1, <1>3, <2>1, AgreesTwo
  <1> QED BY <1>2, <1>4, SymbolAgrees DEF Share1

LEMMA LenOf ==
  ASSUME NEW n \in Nat, NEW f, f = [k \in 1 .. n |-> f[k]]
  PROVE  f \in Seq({f[k] : k \in 1 .. n}) /\ Len(f) = n
  <1> DEFINE S == {f[k] : k \in 1 .. n}
  <1>1. f \in [1 .. n -> S]
    OBVIOUS
  <1>2. f \in Seq(S)
    BY <1>1, SeqDef
  <1>3. Len(f) \in Nat /\ 1 .. Len(f) = 1 .. n
    BY <1>1, <1>2, LenProperties
  <1> QED BY <1>2, <1>3

\* Variables of a word each, written once, each of another name.
NamesApart(names) ==
  /\ Len(names) \in Nat /\ DOMAIN names = 1 .. Len(names)
  /\ \A k, n \in DOMAIN names : names[k] = names[n] => k = n
  /\ \A n \in DOMAIN names : names[n] # "sboxp"
NodesOwn(conc, names, node, live) ==
  \A n \in DOMAIN names : \A k \in 0 .. 3 :
    Agrees(conc, node[n][k], IF k < live THEN {<< "c", names[n], k >>} ELSE {})
WritesOf(names, node) == [n \in DOMAIN names |-> Write(names[n], 0, node[n], FALSE, "word")]

LEMMA WordsSet ==
  ASSUME NEW p, NEW names, NEW node, NEW live \in {1, 4}, NamesApart(names),
         p.vars = WordVars(names, live), p.table = "none", SymbolsOnly(p.conc),
         p.writes = WritesOf(names, node), NodesOwn(p.conc, names, node, live)
  PROVE  WellSet(p)
  <1> USE DEF NamesApart, WritesOf
  <1>1. VarsOf(p) = {Var(names[n], 4, 4, live) : n \in DOMAIN names}
    BY DEF VarsOf, WordVars
  <1>2. VarsDistinct(p)
    BY <1>1 DEF VarsDistinct, SymbolsOnly, Var
  <1>3. ASSUME NEW n \in DOMAIN p.writes PROVE WritesOwn(p, p.writes[n])
    <2> DEFINE v == Var(names[n], 4, 4, live)
               w == p.writes[n]
    <2>1. /\ v \in VarsOf(p) /\ v.name = names[n] /\ v.name # "sboxp" /\ v.align = 4 /\ v.size = 4
          /\ v.live = live
      BY <1>1, <1>3 DEF Var
    <2>2. /\ w.var = names[n] /\ w.word = 0 /\ w.node = node[n] /\ w.mask = "word" /\ ~w.shifted
      BY <1>3 DEF Write
    <2>3. ASSUME NEW k \in 0 .. 3 PROVE Agrees(p.conc, w.node[k], Data(v, 4 * w.word + k))
      <3>1. Agrees(p.conc, node[n][k], IF k < live THEN {<< "c", names[n], k >>} ELSE {})
        BY <1>3 DEF NodesOwn
      <3> HIDE DEF v, w
      <3>2. 4 * w.word + k = k
        BY <2>2
      <3> QED BY <2>1, <2>2, <3>1, <3>2 DEF Data
    <2> HIDE DEF v, w
    <2>4. 4 * w.word + 4 <= v.size
      BY <2>1, <2>2
    <2>5. WritesOwn(p, w)
      BY <2>1, <2>2, <2>3, <2>4 DEF WritesOwn
    <2> QED BY <2>5 DEF w
  <1>4. Len(p.writes) = Len(names) /\ DOMAIN p.writes = DOMAIN names
    <2> DEFINE f == [n \in 1 .. Len(names) |-> Write(names[n], 0, node[n], FALSE, "word")]
    <2>1. p.writes = f
      OBVIOUS
    <2>2. DOMAIN f = 1 .. Len(names) /\ f = [n \in 1 .. Len(names) |-> f[n]]
      OBVIOUS
    <2>3. Len(f) = Len(names)
      <3> HIDE DEF f
      <3> QED BY <2>2, LenOf
    <2> QED BY <2>1, <2>2, <2>3
  <1> QED BY <1>2, <1>3, <1>4 DEF WellSet

LEMMA SharesSays ==
  ASSUME NEW a0, NEW a1, NEW b0, NEW b1, NEW r, NEW l,
         NEW conc, conc = Conc("m", Content(r), l) ++ ConcShares("a", a0, a1, l) ++ ConcShares("b", b0, b1, l)
  PROVE  /\ SymbolsOnly(conc)
         /\ \A k \in 0 .. 3 :
              /\ Agrees(conc, Share0("a")[k], {<< "c", a0, k >>})
              /\ Agrees(conc, Share1("a")[k], {<< "c", a1, k >>})
              /\ Agrees(conc, Share0("b")[k], {<< "c", b0, k >>})
              /\ Agrees(conc, Share1("b")[k], {<< "c", b1, k >>})
              /\ Agrees(conc, Symbol("m")[k], {<< "c", r, k >>})
  <1> DEFINE f == Conc("m", Content(r), l)
             g == ConcShares("a", a0, a1, l)
             h == ConcShares("b", b0, b1, l)
             Held(s, v0, v1) == (s = "a" /\ v0 = a0 /\ v1 = a1) \/ (s = "b" /\ v0 = b0 /\ v1 = b1)
  <1>1. SymbolsOnly(f) /\ SymbolsOnly(g) /\ SymbolsOnly(h)
    BY ConcSays, ConcSharesSays
  <1>2. MaskName["a"] = "a_mask" /\ MaskName["b"] = "b_mask"
    BY DEF MaskName
  <1>3. ASSUME NEW k \in 0 .. 3, NEW s \in {"a", "b"}, NEW v0, NEW v1, Held(s, v0, v1)
        PROVE  /\ Says(f, s, k, Plus({<< "c", v0, k >>}, {<< "c", v1, k >>}))
               /\ Says(g, s, k, Plus({<< "c", v0, k >>}, {<< "c", v1, k >>}))
               /\ Says(h, s, k, Plus({<< "c", v0, k >>}, {<< "c", v1, k >>}))
               /\ Says(f, MaskName[s], k, {<< "c", v1, k >>})
               /\ Says(g, MaskName[s], k, {<< "c", v1, k >>})
               /\ Says(h, MaskName[s], k, {<< "c", v1, k >>})
    BY <1>2, <1>3, ConcSays, ConcSharesSays
  <1>4. ASSUME NEW k \in 0 .. 3
        PROVE  Says(f, "m", k, {<< "c", r, k >>}) /\ Says(g, "m", k, {<< "c", r, k >>}) /\ Says(h, "m", k, {<< "c", r, k >>})
    <2>1. Content(r)[k] = {<< "c", r, k >>}
      BY DEF Content
    <2> QED BY <1>2, <2>1, ConcSays, ConcSharesSays
  <1>5. conc = f ++ g ++ h
    OBVIOUS
  <1> HIDE DEF f, g, h
  <1>6. SymbolsOnly(conc)
    BY <1>1, <1>5, MergeSays
  <1>7. ASSUME NEW k \in 0 .. 3, NEW s \in {"a", "b"}, NEW v0, NEW v1, Held(s, v0, v1)
        PROVE  /\ Agrees(conc, Share0(s)[k], {<< "c", v0, k >>})
               /\ Agrees(conc, Share1(s)[k], {<< "c", v1, k >>})
    <2> DEFINE d == Plus({<< "c", v0, k >>}, {<< "c", v1, k >>})
    <2>1. Says(conc, s, k, d)
      <3>1. Says(f, s, k, d) /\ Says(g, s, k, d) /\ Says(h, s, k, d)
        BY <1>3, <1>7
      <3> HIDE DEF d
      <3> QED BY <1>5, <3>1, MergedSays
    <2>2. Says(conc, MaskName[s], k, {<< "c", v1, k >>})
      BY <1>3, <1>5, <1>7, MergedSays
    <2> QED BY <2>1, <2>2, SharesAgree
  <1>8. ASSUME NEW k \in 0 .. 3 PROVE Agrees(conc, Symbol("m")[k], {<< "c", r, k >>})
    <2>1. Says(conc, "m", k, {<< "c", r, k >>})
      BY <1>4, <1>5, MergedSays
    <2> QED BY <2>1, SymbolAgrees
  <1>9. Held("a", a0, a1) /\ Held("b", b0, b1)
    OBVIOUS
  <1> HIDE DEF Held
  <1> QED BY <1>6, <1>7, <1>8, <1>9

LEMMA DomAndSet ==
  ASSUME NEW name, NEW names \in {DomNames, DomNamesArm}, NEW at_once
  PROVE  WellSet(dom_and(name, names, at_once))
  <1> DEFINE node == << Share0("a"), Share1("a"), Share0("b"), Share1("b"), Symbol("m") >>
             conc == Conc("m", Content(names[5]), 4) ++ ConcShares("a", names[1], names[2], 4)
                     ++ ConcShares("b", names[3], names[4], 4)
             p == dom_and(name, names, at_once)
  <1>1. /\ p.vars = WordVars(names, 4) /\ p.table = "none" /\ p.conc = conc
        /\ p.writes = [n \in DOMAIN names |-> Write(names[n], 0, node[n], FALSE, "word")]
    BY DEF dom_and, WordProgram, Program
  <1>2. /\ Len(names) = 5 /\ DOMAIN names = 1 .. 5
        /\ \A k, n \in DOMAIN names : names[k] = names[n] => k = n
        /\ \A n \in DOMAIN names : names[n] # "sboxp"
    BY DEF DomNames, DomNamesArm
  <1> HIDE DEF conc
  <1>3. SymbolsOnly(conc)
    BY SharesSays DEF conc
  <1>4. ASSUME NEW n \in DOMAIN names, NEW k \in 0 .. 3
        PROVE  Agrees(conc, node[n][k], {<< "c", names[n], k >>})
    <2>1. /\ Agrees(conc, node[1][k], {<< "c", names[1], k >>})
          /\ Agrees(conc, node[2][k], {<< "c", names[2], k >>})
          /\ Agrees(conc, node[3][k], {<< "c", names[3], k >>})
          /\ Agrees(conc, node[4][k], {<< "c", names[4], k >>})
          /\ Agrees(conc, node[5][k], {<< "c", names[5], k >>})
      BY SharesSays DEF conc
    <2>2. n \in {1, 2, 3, 4, 5}
      BY <1>2
    <2> HIDE DEF node
    <2> QED BY <2>1, <2>2
  <1> DEFINE live == 4
  <1>5. ASSUME NEW n \in DOMAIN names, NEW k \in 0 .. 3
        PROVE  Agrees(conc, node[n][k], IF k < live THEN {<< "c", names[n], k >>} ELSE {})
    <2>1. Agrees(conc, node[n][k], {<< "c", names[n], k >>})
      BY <1>4
    <2>2. k < live
      OBVIOUS
    <2> QED BY <2>1, <2>2, Zenon
  <1>6. NodesOwn(conc, names, node, live) /\ live \in {1, 4} /\ p.vars = WordVars(names, live)
    BY <1>1, <1>5 DEF NodesOwn
  <1>7. NamesApart(names)
    BY <1>2 DEF NamesApart
  <1> HIDE DEF node, p, live
  <1>8. WellSet(p)
    BY <1>1, <1>3, <1>6, <1>7, WordsSet DEF WritesOf
  <1> QED BY <1>8 DEF p

\* The bytes of the words secmult writes.
LEMMA SecmultNodes ==
  ASSUME NEW k \in 0 .. 3, NEW n \in 1 .. 5
  PROVE  Agrees(SecmultConc(1), LowByte(SecmultNode(SecmultNames[n]))[k],
                IF k < 1 THEN {<< "c", SecmultNames[n], k >>} ELSE {})
  <1> DEFINE conc == SecmultConc(1)
             node == SecmultNode(SecmultNames[n])
  <1>1. CASE k = 0
    <2> DEFINE r == "m01"
               l == 1
    <2>1. conc = Conc("m", Content(r), l) ++ ConcShares("a", "a0", "a1", l) ++ ConcShares("b", "b0", "b1", l)
      BY DEF SecmultConc
    <2> HIDE DEF r, l, conc
    <2>2. /\ Agrees(conc, Share0("a")[k], {<< "c", "a0", k >>})
          /\ Agrees(conc, Share1("a")[k], {<< "c", "a1", k >>})
          /\ Agrees(conc, Share0("b")[k], {<< "c", "b0", k >>})
          /\ Agrees(conc, Share1("b")[k], {<< "c", "b1", k >>})
          /\ Agrees(conc, Symbol("m")[k], {<< "c", r, k >>})
      BY <2>1, SharesSays
    <2>3. Agrees(conc, node[k], {<< "c", SecmultNames[n], k >>})
      <3>1. n \in {1, 2, 3, 4, 5}
        OBVIOUS
      <3>2. CASE n = 1
        <4>1. SecmultNames[n] = "a0" /\ node = Share0("a")
          BY <3>2 DEF SecmultNames, SecmultNode
        <4> QED BY <2>2, <4>1
      <3>3. CASE n = 2
        <4>1. SecmultNames[n] = "a1" /\ node = Share1("a")
          BY <3>3 DEF SecmultNames, SecmultNode
        <4> QED BY <2>2, <4>1
      <3>4. CASE n = 3
        <4>1. SecmultNames[n] = "b0" /\ node = Share0("b")
          BY <3>4 DEF SecmultNames, SecmultNode
        <4> QED BY <2>2, <4>1
      <3>5. CASE n = 4
        <4>1. SecmultNames[n] = "b1" /\ node = Share1("b")
          BY <3>5 DEF SecmultNames, SecmultNode
        <4> QED BY <2>2, <4>1
      <3>6. CASE n = 5
        <4>1. SecmultNames[n] = r /\ node = Symbol("m")
          BY <3>6 DEF SecmultNames, SecmultNode, r
        <4> QED BY <2>2, <4>1
      <3> QED BY <3>1, <3>2, <3>3, <3>4, <3>5, <3>6
    <2>4. LowByte(node)[k] = node[k] /\ k < 1
      BY <1>1 DEF LowByte
    <2> HIDE DEF node
    <2>5. Agrees(conc, LowByte(node)[k], IF k < 1 THEN {<< "c", SecmultNames[n], k >>} ELSE {})
      BY <2>3, <2>4, Zenon
    <2> QED BY <2>5 DEF node, conc
  <1>2. CASE k # 0
    <2>1. LowByte(node)[k] = {} /\ ~(k < 1)
      BY <1>2 DEF LowByte
    <2> QED BY <2>1, AgreesNone, Zenon
  <1> QED BY <1>1, <1>2

LEMMA SecmultSymbols == SymbolsOnly(SecmultConc(1))
  <1> DEFINE l == 1
  <1>1. SecmultConc(1) = Conc("m", Content("m01"), l) ++ ConcShares("a", "a0", "a1", l) ++ ConcShares("b", "b0", "b1", l)
    BY DEF SecmultConc
  <1> HIDE DEF l
  <1> QED BY <1>1, SharesSays

LEMMA SecmultApart ==
  NamesApart(SecmultNames) /\ DOMAIN SecmultNames = 1 .. 5 /\ Len(SecmultNames) = 5
  BY DEF NamesApart, SecmultNames

LEMMA SecmultSet ==
  ASSUME NEW name, NEW at_once PROVE WellSet(secmult(name, at_once))
  <1> DEFINE p == secmult(name, at_once)
             node == [n \in 1 .. 5 |-> LowByte(SecmultNode(SecmultNames[n]))]
             live == 1
  <1>1. /\ p.vars = WordVars(SecmultNames, live) /\ p.table = "none" /\ p.conc = SecmultConc(1)
        /\ p.writes = [n \in 1 .. 5 |-> Write(SecmultNames[n], 0, LowByte(SecmultNode(SecmultNames[n])), FALSE, "word")]
    BY DEF secmult, Program
  <1>2. p.writes = WritesOf(SecmultNames, node)
    BY <1>1, SecmultApart DEF WritesOf
  <1>3. NodesOwn(SecmultConc(1), SecmultNames, node, live)
    BY SecmultNodes, SecmultApart DEF NodesOwn
  <1>4. live \in {1, 4}
    OBVIOUS
  <1>5. /\ p.vars = WordVars(SecmultNames, live) /\ p.table = "none" /\ p.conc = SecmultConc(1)
    BY <1>1
  <1> HIDE DEF p, node, live
  <1>6. WellSet(p)
    BY <1>2, <1>3, <1>4, <1>5, SecmultSymbols, SecmultApart, WordsSet
  <1> QED BY <1>6 DEF p

LEMMA SecmultPackedSet ==
  ASSUME NEW name PROVE WellSet(secmult_packed(name))
  <1> DEFINE p == secmult_packed(name)
             f == [n \in 1 .. 5 |-> Write(SecmultNames[n], 0, LowByte(SecmultNode(SecmultNames[n])), TRUE, "symbol")]
  <1>1. /\ p.vars = [n \in 1 .. 5 |-> Var(SecmultNames[n], 1, 1, 1)] /\ p.table = "none"
        /\ p.conc = SecmultConc(1) /\ p.writes = f
    BY DEF secmult_packed, Program
  <1> HIDE DEF p
  <1>2. VarsOf(p) = {Var(SecmultNames[n], 1, 1, 1) : n \in 1 .. 5}
    BY <1>1 DEF VarsOf
  <1>3. VarsDistinct(p)
    BY <1>1, <1>2, SecmultApart, SecmultSymbols DEF VarsDistinct, SymbolsOnly, Var, NamesApart
  <1>4. Len(f) = 5 /\ DOMAIN f = 1 .. 5
    <2> DEFINE len == 5
    <2>1. f = [n \in 1 .. len |-> f[n]] /\ DOMAIN f = 1 .. len /\ len \in Nat
      OBVIOUS
    <2>2. Len(f) = len
      <3> HIDE DEF f, len
      <3> QED BY <2>1, LenOf
    <2> QED BY <2>1, <2>2
  <1>5. ASSUME NEW n \in 1 .. 5 PROVE WritesOwn(p, f[n])
    <2> DEFINE v == Var(SecmultNames[n], 1, 1, 1)
               w == f[n]
    <2>1. /\ v \in VarsOf(p) /\ v.name = SecmultNames[n] /\ v.name # "sboxp" /\ v.size = 1 /\ v.live = 1
      BY <1>2, SecmultApart DEF Var, NamesApart
    <2>2. /\ w.var = SecmultNames[n] /\ w.word = 0 /\ w.mask = "symbol" /\ w.shifted
          /\ w.node = LowByte(SecmultNode(SecmultNames[n]))
      BY DEF Write
    <2> HIDE DEF v, w
    <2>3. ASSUME NEW k \in 0 .. 3, 4 * w.word + k < v.size PROVE Agrees(p.conc, w.node[k], Data(v, 4 * w.word + k))
      <3>1. 4 * w.word + k = k /\ k < 1
        BY <2>1, <2>2, <2>3
      <3>2. Agrees(p.conc, w.node[k], {<< "c", SecmultNames[n], k >>})
        BY ZenonT(40), <1>1, <2>2, <3>1, SecmultNodes
      <3> QED BY <2>1, <3>1, <3>2 DEF Data
    <2>4. WritesOwn(p, w)
      BY <2>1, <2>2, <2>3 DEF WritesOwn
    <2> QED BY <2>4 DEF w
  <1> HIDE DEF f
  <1>6. WellSet(p)
    BY <1>1, <1>3, <1>4, <1>5 DEF WellSet
  <1> QED BY <1>6 DEF p

LEMMA CalibrationSet == WellSet(calibration)
  <1> DEFINE p == calibration
             names == << "a0", "a1" >>
             node == << Share0("a"), Share1("a") >>
             live == 4
             conc == ConcShares("a", "a0", "a1", live)
  <1>1. /\ p.vars = WordVars(names, live) /\ p.table = "none" /\ p.conc = conc
        /\ p.writes = WritesOf(names, node)
    BY DEF calibration, WordProgram, Program, WritesOf
  <1>2. NamesApart(names) /\ DOMAIN names = 1 .. 2
    BY DEF NamesApart
  <1>3. /\ SymbolsOnly(conc)
        /\ \A k \in 0 .. 3 : /\ Agrees(conc, Share0("a")[k], {<< "c", "a0", k >>})
                             /\ Agrees(conc, Share1("a")[k], {<< "c", "a1", k >>})
    BY ConcSharesSays, SharesAgree
  <1>5. NodesOwn(conc, names, node, live)
    <2> HIDE DEF conc
    <2>1. ASSUME NEW n \in DOMAIN names, NEW k \in 0 .. 3
          PROVE  Agrees(conc, node[n][k], {<< "c", names[n], k >>})
      <3>1. n \in {1, 2}
        BY <1>2
      <3>2. /\ Agrees(conc, node[1][k], {<< "c", names[1], k >>})
            /\ Agrees(conc, node[2][k], {<< "c", names[2], k >>})
        BY <1>3
      <3> HIDE DEF node, names
      <3> QED BY <3>1, <3>2
    <2>2. \A k \in 0 .. 3 : k < live
      OBVIOUS
    <2> HIDE DEF names, node, live
    <2> QED BY <2>1, <2>2 DEF NodesOwn
  <1>6. live \in {1, 4}
    OBVIOUS
  <1> HIDE DEF p, names, node, live, conc
  <1>7. WellSet(p)
    BY <1>1, <1>2, <1>3, <1>5, <1>6, WordsSet
  <1> QED BY <1>7 DEF p

LEMMA SimpleSet == WellSet(simple)
  <1> DEFINE p == simple
             names == << "r8", "r9" >>
             node == << Share0("a"), Share1("a") >>
             live == 4
             conc == ConcShares("a", "r8", "r9", live)
  <1>1. /\ p.vars = WordVars(names, live) /\ p.table = "none" /\ p.conc = conc
        /\ p.writes = WritesOf(names, node)
    BY DEF simple, WordProgram, Program, WritesOf
  <1>2. NamesApart(names) /\ DOMAIN names = 1 .. 2
    BY DEF NamesApart
  <1>3. /\ SymbolsOnly(conc)
        /\ \A k \in 0 .. 3 : /\ Agrees(conc, Share0("a")[k], {<< "c", "r8", k >>})
                             /\ Agrees(conc, Share1("a")[k], {<< "c", "r9", k >>})
    BY ConcSharesSays, SharesAgree
  <1>5. NodesOwn(conc, names, node, live)
    <2> HIDE DEF conc
    <2>1. ASSUME NEW n \in DOMAIN names, NEW k \in 0 .. 3
          PROVE  Agrees(conc, node[n][k], {<< "c", names[n], k >>})
      <3>1. n \in {1, 2}
        BY <1>2
      <3>2. /\ Agrees(conc, node[1][k], {<< "c", names[1], k >>})
            /\ Agrees(conc, node[2][k], {<< "c", names[2], k >>})
        BY <1>3
      <3> HIDE DEF node, names
      <3> QED BY <3>1, <3>2
    <2>2. \A k \in 0 .. 3 : k < live
      OBVIOUS
    <2> HIDE DEF names, node, live
    <2> QED BY <2>1, <2>2 DEF NodesOwn
  <1>6. live \in {1, 4}
    OBVIOUS
  <1> HIDE DEF p, names, node, live, conc
  <1>7. WellSet(p)
    BY <1>1, <1>2, <1>3, <1>5, <1>6, WordsSet
  <1> QED BY <1>7 DEF p

LEMMA RefreshSet == WellSet(refresh)
  <1> DEFINE p == refresh
             names == << "a0", "a1", "m" >>
             node == << Share0("a"), Share1("a"), Symbol("m") >>
             live == 4
             conc == ConcShares("a", "a0", "a1", live)
  <1>1. /\ p.vars = WordVars(names, live) /\ p.table = "none" /\ p.conc = conc
        /\ p.writes = WritesOf(names, node)
    BY DEF refresh, WordProgram, Program, WritesOf
  <1>2. NamesApart(names) /\ DOMAIN names = 1 .. 3
    BY DEF NamesApart
  <1>3. /\ SymbolsOnly(conc)
        /\ \A k \in 0 .. 3 : /\ Agrees(conc, Share0("a")[k], {<< "c", "a0", k >>})
                             /\ Agrees(conc, Share1("a")[k], {<< "c", "a1", k >>})
    BY ConcSharesSays, SharesAgree
  <1>4. \A k \in 0 .. 3 : Agrees(conc, Symbol("m")[k], {<< "c", "m", k >>})
    <2>1. "m" # MaskName["a"]
      BY DEF MaskName
    <2> QED BY <2>1, ConcSharesSays, SymbolAgrees
  <1>5. NodesOwn(conc, names, node, live)
    <2> HIDE DEF conc
    <2>1. ASSUME NEW n \in DOMAIN names, NEW k \in 0 .. 3
          PROVE  Agrees(conc, node[n][k], {<< "c", names[n], k >>})
      <3>1. n \in {1, 2, 3}
        BY <1>2
      <3>2. /\ Agrees(conc, node[1][k], {<< "c", names[1], k >>})
            /\ Agrees(conc, node[2][k], {<< "c", names[2], k >>})
            /\ Agrees(conc, node[3][k], {<< "c", names[3], k >>})
        BY <1>3, <1>4
      <3> HIDE DEF node, names
      <3> QED BY <3>1, <3>2
    <2>2. \A k \in 0 .. 3 : k < live
      OBVIOUS
    <2> HIDE DEF names, node, live
    <2> QED BY <2>1, <2>2 DEF NodesOwn
  <1>6. live \in {1, 4}
    OBVIOUS
  <1> HIDE DEF p, names, node, live, conc
  <1>7. WellSet(p)
    BY <1>1, <1>2, <1>3, <1>5, <1>6, WordsSet
  <1> QED BY <1>7 DEF p

LEMMA BytesConcSays ==
  ASSUME NEW name, NEW var, NEW n
  PROVE  /\ \A s, k, data : s # name \/ data = {<< "c", var, k >>} => Says(BytesConc(name, var, n), s, k, data)
         /\ SymbolsOnly(BytesConc(name, var, n))
  BY DEF BytesConc, Says, SymbolsOnly

\* The symbols of the AES programs, and the variables they stand for.
AesSymbols ==
  {<< "aes_pt", "pt" >>, << "aes_key", "key" >>, << "rcon", "rcon" >>, << "aes_mt", "mt" >>,
   << "aes_m", "m" >>, << "aes_mp", "mp" >>}

LEMMA AesSays ==
  /\ SymbolsOnly(AesConc)
  /\ \A e \in AesSymbols : \A k : Says(AesConc, e[1], k, {<< "c", e[2], k >>})
  /\ << "s", "aes_mp", 0 >> \in DOMAIN AesConc
  /\ AesConc[<< "s", "aes_mp", 0 >>] = {<< "c", "mp", 0 >>}
  <1> DEFINE f1 == BytesConc("aes_pt", "pt", 16)
             f2 == BytesConc("aes_key", "key", 16)
             f3 == BytesConc("rcon", "rcon", 10)
             f4 == BytesConc("aes_mt", "mt", 4)
             f5 == BytesConc("aes_m", "m", 1)
             f6 == BytesConc("aes_mp", "mp", 1)
             f == f1 ++ f2 ++ f3
             g == f ++ f4 ++ f5
  <1>1. AesConc = g ++ f6
    BY DEF AesConc
  <1>2. /\ SymbolsOnly(f1) /\ SymbolsOnly(f2) /\ SymbolsOnly(f3) /\ SymbolsOnly(f4)
        /\ SymbolsOnly(f5) /\ SymbolsOnly(f6)
    BY BytesConcSays
  <1>3. ASSUME NEW e \in AesSymbols, NEW k
        PROVE  /\ Says(f1, e[1], k, {<< "c", e[2], k >>}) /\ Says(f2, e[1], k, {<< "c", e[2], k >>})
               /\ Says(f3, e[1], k, {<< "c", e[2], k >>}) /\ Says(f4, e[1], k, {<< "c", e[2], k >>})
               /\ Says(f5, e[1], k, {<< "c", e[2], k >>}) /\ Says(f6, e[1], k, {<< "c", e[2], k >>})
    <2> DEFINE s == e[1]
               v == e[2]
    <2>1. /\ s # "aes_pt" \/ v = "pt"
          /\ s # "aes_key" \/ v = "key"
          /\ s # "rcon" \/ v = "rcon"
          /\ s # "aes_mt" \/ v = "mt"
          /\ s # "aes_m" \/ v = "m"
          /\ s # "aes_mp" \/ v = "mp"
      BY DEF AesSymbols
    <2> HIDE DEF s, v
    <2>2. /\ Says(f1, s, k, {<< "c", v, k >>}) /\ Says(f2, s, k, {<< "c", v, k >>})
          /\ Says(f3, s, k, {<< "c", v, k >>}) /\ Says(f4, s, k, {<< "c", v, k >>})
          /\ Says(f5, s, k, {<< "c", v, k >>}) /\ Says(f6, s, k, {<< "c", v, k >>})
      BY <2>1, BytesConcSays
    <2> QED BY <2>2 DEF s, v
  <1>4. << "s", "aes_mp", 0 >> \in DOMAIN f6
    BY DEF BytesConc
  <1> HIDE DEF f1, f2, f3, f4, f5, f6
  <1>5. SymbolsOnly(AesConc)
    <2>1. SymbolsOnly(f1 ++ f2)
      BY <1>2, MergeSays
    <2>2. SymbolsOnly(f)
      BY <1>2, <2>1, MergeSays
    <2>3. SymbolsOnly(f ++ f4)
      <3> HIDE DEF f
      <3> QED BY <1>2, <2>2, MergeSays
    <2>4. SymbolsOnly(g)
      <3> HIDE DEF f
      <3> QED BY <1>2, <2>3, MergeSays
    <2> HIDE DEF g
    <2> QED BY <1>1, <1>2, <2>4, MergeSays
  <1>6. ASSUME NEW e \in AesSymbols, NEW k PROVE Says(AesConc, e[1], k, {<< "c", e[2], k >>})
    <2> DEFINE s == e[1]
               d == {<< "c", e[2], k >>}
    <2>1. Says(f1, s, k, d) /\ Says(f2, s, k, d) /\ Says(f3, s, k, d) /\ Says(f4, s, k, d)
          /\ Says(f5, s, k, d) /\ Says(f6, s, k, d)
      BY <1>3
    <2> HIDE DEF s, d
    <2>2. Says(f, s, k, d)
      BY <2>1, MergedSays
    <2>3. Says(g, s, k, d)
      <3> HIDE DEF f
      <3> QED BY <2>1, <2>2, MergedSays
    <2>4. Says(AesConc, s, k, d)
      <3> HIDE DEF g
      <3> QED BY <1>1, <2>1, <2>3, MergeSays
    <2> QED BY <2>4 DEF s, d
  <1>7. << "s", "aes_mp", 0 >> \in DOMAIN AesConc
    <2> HIDE DEF g
    <2> QED BY <1>1, <1>4 DEF ++
  <1>8. AesConc[<< "s", "aes_mp", 0 >>] = {<< "c", "mp", 0 >>}
    <2> DEFINE e == << "aes_mp", "mp" >>
               z == 0
    <2>1. e \in AesSymbols /\ e[1] = "aes_mp" /\ e[2] = "mp"
      BY DEF AesSymbols
    <2> HIDE DEF e
    <2>2. Says(AesConc, e[1], z, {<< "c", e[2], z >>})
      BY <1>6, <2>1
    <2> QED BY <1>7, <2>1, <2>2 DEF Says
  <1> QED BY <1>5, <1>6, <1>7, <1>8

LEMMA BytesAgree ==
  ASSUME NEW e \in AesSymbols, NEW word \in Nat, NEW n \in Nat, NEW k \in 0 .. 3, k < n
  PROVE  Agrees(AesConc, Bytes(e[1], word, n)[k], {<< "c", e[2], 4 * word + k >>})
  <1> DEFINE l == 4 * word + k
  <1>1. Bytes(e[1], word, n)[k] = {<< "s", e[1], l >>}
    BY DEF Bytes
  <1>2. Says(AesConc, e[1], l, {<< "c", e[2], l >>})
    BY AesSays
  <1> HIDE DEF l
  <1>3. Agrees(AesConc, {<< "s", e[1], l >>}, {<< "c", e[2], l >>})
    BY <1>2, AgreesOne DEF Says
  <1> QED BY <1>1, <1>3 DEF l

\* What an AES program writes: whole words of the texts, keys and constants,
\* then the last two constants, the masks of the rows, and the two others.
WholeWords ==
  {Write("pt", k, Bytes("aes_pt", k, 4), FALSE, "word") : k \in 0 .. 3}
  \union {Write("key", k, Bytes("aes_key", k, 4), FALSE, "word") : k \in 0 .. 3}
  \union {Write("rcon", k, Bytes("rcon", k, 4), FALSE, "word") : k \in 0 .. 1}
OtherWrites ==
  {Write("rcon", 2, Bytes("rcon", 2, 2), FALSE, "half"),
   Write("mt", 0, Bytes("aes_mt", 0, 4), FALSE, "symbol"),
   Write("m", 0, LowByte(Symbol("aes_m")), TRUE, "symbol"),
   Write("mp", 0, LowByte(Symbol("aes_mp")), TRUE, "symbol")}

LEMMA BlockSeq ==
  ASSUME NEW name, NEW var, NEW words \in Nat
  PROVE  Block(name, var, words) \in
           Seq({Write(var, k, Bytes(name, k, 4), FALSE, "word") : k \in 0 .. words - 1})
  <1> DEFINE S == {Write(var, k, Bytes(name, k, 4), FALSE, "word") : k \in 0 .. words - 1}
  <1>1. ASSUME NEW w \in 1 .. words PROVE Write(var, w - 1, Bytes(name, w - 1, 4), FALSE, "word") \in S
    <2>1. w - 1 \in 0 .. words - 1
      OBVIOUS
    <2> QED BY <2>1
  <1> HIDE DEF S
  <1>2. Block(name, var, words) \in [1 .. words -> S]
    BY <1>1 DEF Block
  <1> QED BY <1>2, SeqDef DEF S

LEMMA SeqWider ==
  ASSUME NEW S, NEW T, S \subseteq T, NEW s \in Seq(S) PROVE s \in Seq(T)
  <1>1. s \in [1 .. Len(s) -> T] /\ Len(s) \in Nat
    BY LenProperties
  <1> QED BY <1>1, SeqDef

LEMMA AesWritesSeq == AesWrites \in Seq(WholeWords \union OtherWrites)
  <1> DEFINE W == WholeWords \union OtherWrites
             pts == {Write("pt", k, Bytes("aes_pt", k, 4), FALSE, "word") : k \in 0 .. 3}
             keys == {Write("key", k, Bytes("aes_key", k, 4), FALSE, "word") : k \in 0 .. 3}
             rcons == {Write("rcon", k, Bytes("rcon", k, 4), FALSE, "word") : k \in 0 .. 1}
             last == << Write("rcon", 2, Bytes("rcon", 2, 2), FALSE, "half"),
                        Write("mt", 0, Bytes("aes_mt", 0, 4), FALSE, "symbol"),
                        Write("m", 0, LowByte(Symbol("aes_m")), TRUE, "symbol"),
                        Write("mp", 0, LowByte(Symbol("aes_mp")), TRUE, "symbol") >>
  <1>1. pts \subseteq W /\ keys \subseteq W /\ rcons \subseteq W
    BY DEF WholeWords
  <1>2. last \in Seq(W)
    <2> DEFINE a == Write("rcon", 2, Bytes("rcon", 2, 2), FALSE, "half")
               b == Write("mt", 0, Bytes("aes_mt", 0, 4), FALSE, "symbol")
               c == Write("m", 0, LowByte(Symbol("aes_m")), TRUE, "symbol")
               d == Write("mp", 0, LowByte(Symbol("aes_mp")), TRUE, "symbol")
    <2>1. OtherWrites = {a, b, c, d}
      BY DEF OtherWrites
    <2>2. a \in W /\ b \in W /\ c \in W /\ d \in W
      <3> HIDE DEF a, b, c, d
      <3> QED BY <2>1
    <2>3. last = << a, b, c, d >>
      OBVIOUS
    <2> HIDE DEF a, b, c, d, W, last
    <2> QED BY <2>2, <2>3
  <1>3. Block("aes_pt", "pt", 4) \in Seq(pts)
    <2>1. 0 .. 4 - 1 = 0 .. 3
      OBVIOUS
    <2> DEFINE n == 4
    <2>2. n \in Nat /\ 0 .. n - 1 = 0 .. 3
      BY <2>1
    <2> HIDE DEF n
    <2>3. Block("aes_pt", "pt", n) \in Seq(pts)
      BY <2>2, BlockSeq
    <2> QED BY <2>3 DEF n
  <1>4. Block("aes_key", "key", 4) \in Seq(keys)
    <2>1. 0 .. 4 - 1 = 0 .. 3
      OBVIOUS
    <2> DEFINE n == 4
    <2>2. n \in Nat /\ 0 .. n - 1 = 0 .. 3
      BY <2>1
    <2> HIDE DEF n
    <2>3. Block("aes_key", "key", n) \in Seq(keys)
      BY <2>2, BlockSeq
    <2> QED BY <2>3 DEF n
  <1>5. Block("rcon", "rcon", 2) \in Seq(rcons)
    <2>1. 0 .. 2 - 1 = 0 .. 1
      OBVIOUS
    <2> DEFINE n == 2
    <2>2. n \in Nat /\ 0 .. n - 1 = 0 .. 1
      BY <2>1
    <2> HIDE DEF n
    <2>3. Block("rcon", "rcon", n) \in Seq(rcons)
      BY <2>2, BlockSeq
    <2> QED BY <2>3 DEF n
  <1>6. AesWrites = Block("aes_pt", "pt", 4) \o Block("aes_key", "key", 4) \o Block("rcon", "rcon", 2) \o last
    BY DEF AesWrites
  <1> HIDE DEF W, pts, keys, rcons, last
  <1>7. /\ Block("aes_pt", "pt", 4) \in Seq(W) /\ Block("aes_key", "key", 4) \in Seq(W)
        /\ Block("rcon", "rcon", 2) \in Seq(W)
    BY <1>1, <1>3, <1>4, <1>5, SeqWider
  <1>8. Block("aes_pt", "pt", 4) \o Block("aes_key", "key", 4) \in Seq(W)
    BY <1>7, ConcatProperties
  <1>9. Block("aes_pt", "pt", 4) \o Block("aes_key", "key", 4) \o Block("rcon", "rcon", 2) \in Seq(W)
    BY <1>7, <1>8, ConcatProperties
  <1>10. AesWrites \in Seq(W)
    BY <1>2, <1>6, <1>9, ConcatProperties
  <1> QED BY <1>10 DEF W

LEMMA WholeWordsOwn ==
  ASSUME NEW p, p.conc = AesConc,
         NEW name, NEW var, NEW size \in Nat, NEW word \in Nat, NEW half \in BOOLEAN,
         << name, var >> \in AesSymbols, Var(var, size, 4, size) \in VarsOf(p),
         4 * word + (IF half THEN 2 ELSE 4) <= size, half => size < 4 * word + 3
  PROVE  WritesOwn(p, Write(var, word, Bytes(name, word, IF half THEN 2 ELSE 4), FALSE,
                            IF half THEN "half" ELSE "word"))
  <1> DEFINE v == Var(var, size, 4, size)
             n == IF half THEN 2 ELSE 4
             w == Write(var, word, Bytes(name, word, n), FALSE, IF half THEN "half" ELSE "word")
             e == << name, var >>
  <1>1. /\ v \in VarsOf(p) /\ v.name = var /\ v.align = 4 /\ v.size = size /\ v.live = size
    BY DEF Var
  <1>2. /\ w.var = var /\ w.word = word /\ ~w.shifted /\ w.node = Bytes(name, word, n)
        /\ w.mask = (IF half THEN "half" ELSE "word")
    BY DEF Write
  <1>3. e \in AesSymbols /\ e[1] = name /\ e[2] = var /\ var # "sboxp"
    BY DEF AesSymbols
  <1>4. n \in Nat /\ 4 * word + n <= size /\ (half => n = 2 /\ size < 4 * word + 3) /\ (~half => n = 4)
    OBVIOUS
  <1> HIDE DEF v, n, w, e
  <1>5. ASSUME NEW k \in 0 .. 3, 4 * w.word + k < v.size
        PROVE  Agrees(p.conc, w.node[k], Data(v, 4 * w.word + k))
    <2>1. k < n /\ 4 * word + k < size
      BY <1>1, <1>2, <1>4, <1>5
    <2>2. Agrees(AesConc, Bytes(e[1], word, n)[k], {<< "c", e[2], 4 * word + k >>})
      BY <1>3, <1>4, <2>1, BytesAgree
    <2>3. Data(v, 4 * w.word + k) = {<< "c", e[2], 4 * word + k >>}
      BY <1>1, <1>2, <1>3, <2>1 DEF Data
    <2> QED BY <1>2, <1>3, <2>2, <2>3
  <1>6. \/ w.mask = "word" /\ ~w.shifted /\ v.align = 4 /\ 4 * w.word + 4 <= v.size
        \/ w.mask = "half" /\ ~w.shifted /\ v.align = 4 /\ 4 * w.word + 2 <= v.size
    BY <1>1, <1>2, <1>4
  <1>7. WritesOwn(p, w)
    BY <1>1, <1>2, <1>3, <1>5, <1>6 DEF WritesOwn
  <1> QED BY <1>7 DEF w, n

LEMMA AesSet ==
  ASSUME NEW p, NEW entry \in {1, 4}, p.vars = AesVars(entry), p.writes = AesWrites, p.conc = AesConc,
         p.table = IF entry = 4 THEN "words" ELSE "bytes"
  PROVE  WellSet(p)
  <1> DEFINE table == Var("sboxp", entry * TableSize, entry, 0)
             mt_ == Var("mt", 4, 4, 4)
             pt == Var("pt", 16, 4, 16)
             key == Var("key", 16, 4, 16)
             rcon == Var("rcon", 10, 4, 10)
             m_ == Var("m", 1, 1, 1)
             mp_ == Var("mp", 1, 1, 1)
  <1>1. VarsOf(p) = {m_, mp_, table, mt_, pt, key, rcon}
    <2>1. p.vars = << m_, mp_, table, mt_, pt, key, rcon >>
      BY DEF AesVars
    <2> HIDE DEF m_, mp_, table, mt_, pt, key, rcon
    <2> QED BY <2>1 DEF VarsOf
  <1>2. entry * TableSize \in {4, 16} /\ (entry * TableSize = 16 <=> entry = 4)
    BY DEF TableSize
  <1>3. VarsDistinct(p)
    BY <1>1, <1>2, AesSays DEF VarsDistinct, SymbolsOnly, Var
  <1>4. HasTable(p)
    BY <1>1, <1>2, AesSays DEF HasTable, Var
  <1>5. Len(p.writes) \in Nat /\ DOMAIN p.writes = 1 .. Len(p.writes)
    BY AesWritesSeq, LenProperties
  <1>6. ASSUME NEW w \in WholeWords PROVE WritesOwn(p, w)
    <2>1. pt \in VarsOf(p) /\ key \in VarsOf(p) /\ rcon \in VarsOf(p)
      <3> HIDE DEF m_, mp_, table, mt_, pt, key, rcon
      <3> QED BY <1>1
    <2> DEFINE half == FALSE
    <2>2. half \in BOOLEAN
      OBVIOUS
    <2>3. CASE w \in {Write("pt", k, Bytes("aes_pt", k, 4), FALSE, "word") : k \in 0 .. 3}
      <3>1. PICK k \in 0 .. 3 : w = Write("pt", k, Bytes("aes_pt", k, 4), FALSE, "word")
        BY <2>3
      <3> DEFINE size == 16
      <3>2. << "aes_pt", "pt" >> \in AesSymbols /\ Var("pt", size, 4, size) \in VarsOf(p)
        BY <2>1 DEF AesSymbols
      <3>3. size \in Nat /\ k \in Nat /\ 4 * k + (IF half THEN 2 ELSE 4) <= size /\ (half => size < 4 * k + 3)
        OBVIOUS
      <3>4. w = Write("pt", k, Bytes("aes_pt", k, IF half THEN 2 ELSE 4), FALSE, IF half THEN "half" ELSE "word")
        BY <3>1
      <3> HIDE DEF half, size
      <3> QED BY <2>2, <3>2, <3>3, <3>4, WholeWordsOwn
    <2>4. CASE w \in {Write("key", k, Bytes("aes_key", k, 4), FALSE, "word") : k \in 0 .. 3}
      <3>1. PICK k \in 0 .. 3 : w = Write("key", k, Bytes("aes_key", k, 4), FALSE, "word")
        BY <2>4
      <3> DEFINE size == 16
      <3>2. << "aes_key", "key" >> \in AesSymbols /\ Var("key", size, 4, size) \in VarsOf(p)
        BY <2>1 DEF AesSymbols
      <3>3. size \in Nat /\ k \in Nat /\ 4 * k + (IF half THEN 2 ELSE 4) <= size /\ (half => size < 4 * k + 3)
        OBVIOUS
      <3>4. w = Write("key", k, Bytes("aes_key", k, IF half THEN 2 ELSE 4), FALSE, IF half THEN "half" ELSE "word")
        BY <3>1
      <3> HIDE DEF half, size
      <3> QED BY <2>2, <3>2, <3>3, <3>4, WholeWordsOwn
    <2>5. CASE w \in {Write("rcon", k, Bytes("rcon", k, 4), FALSE, "word") : k \in 0 .. 1}
      <3>1. PICK k \in 0 .. 1 : w = Write("rcon", k, Bytes("rcon", k, 4), FALSE, "word")
        BY <2>5
      <3> DEFINE size == 10
      <3>2. << "rcon", "rcon" >> \in AesSymbols /\ Var("rcon", size, 4, size) \in VarsOf(p)
        BY <2>1 DEF AesSymbols
      <3>3. size \in Nat /\ k \in Nat /\ 4 * k + (IF half THEN 2 ELSE 4) <= size /\ (half => size < 4 * k + 3)
        OBVIOUS
      <3>4. w = Write("rcon", k, Bytes("rcon", k, IF half THEN 2 ELSE 4), FALSE, IF half THEN "half" ELSE "word")
        BY <3>1
      <3> HIDE DEF half, size
      <3> QED BY <2>2, <3>2, <3>3, <3>4, WholeWordsOwn
    <2> QED BY <2>3, <2>4, <2>5 DEF WholeWords
  <1>7. ASSUME NEW w \in OtherWrites PROVE WritesOwn(p, w)
    <2> DEFINE a == Write("rcon", 2, Bytes("rcon", 2, 2), FALSE, "half")
               b == Write("mt", 0, Bytes("aes_mt", 0, 4), FALSE, "symbol")
               c == Write("m", 0, LowByte(Symbol("aes_m")), TRUE, "symbol")
               d == Write("mp", 0, LowByte(Symbol("aes_mp")), TRUE, "symbol")
    <2>1. OtherWrites = {a, b, c, d}
      BY DEF OtherWrites
    <2>2. rcon \in VarsOf(p) /\ mt_ \in VarsOf(p) /\ m_ \in VarsOf(p) /\ mp_ \in VarsOf(p)
      <3> HIDE DEF m_, mp_, table, mt_, pt, key, rcon
      <3> QED BY <1>1
    <2>3. WritesOwn(p, a)
      <3> DEFINE half == TRUE
                 size == 10
                 k == 2
      <3>1. << "rcon", "rcon" >> \in AesSymbols /\ Var("rcon", size, 4, size) \in VarsOf(p) /\ half \in BOOLEAN
        BY <2>2 DEF AesSymbols
      <3>2. size \in Nat /\ k \in Nat /\ 4 * k + (IF half THEN 2 ELSE 4) <= size /\ (half => size < 4 * k + 3)
        OBVIOUS
      <3>3. a = Write("rcon", k, Bytes("rcon", k, IF half THEN 2 ELSE 4), FALSE, IF half THEN "half" ELSE "word")
        OBVIOUS
      <3> HIDE DEF half, size, k, a
      <3> QED BY <3>1, <3>2, <3>3, WholeWordsOwn
    <2>4. WritesOwn(p, b)
      <3> DEFINE e == << "aes_mt", "mt" >>
                 z == 0
                 n == 4
      <3>1. e \in AesSymbols /\ e[1] = "aes_mt" /\ e[2] = "mt" /\ z \in Nat /\ n \in Nat
        BY DEF AesSymbols
      <3>2. /\ mt_.name = "mt" /\ mt_.size = 4 /\ mt_.align = 4 /\ mt_.live = 4
            /\ b.var = "mt" /\ b.word = 0 /\ b.mask = "symbol" /\ b.node = Bytes("aes_mt", 0, 4)
        BY DEF Var, Write
      <3>3. ASSUME NEW k \in 0 .. 3 PROVE Agrees(AesConc, Bytes("aes_mt", 0, 4)[k], {<< "c", "mt", k >>})
        <4>1. k < n /\ 4 * z + k = k
          OBVIOUS
        <4> HIDE DEF e, z, n
        <4>2. Agrees(AesConc, Bytes(e[1], z, n)[k], {<< "c", e[2], 4 * z + k >>})
          BY <3>1, <4>1, BytesAgree
        <4>3. Agrees(AesConc, Bytes("aes_mt", z, n)[k], {<< "c", "mt", k >>})
          BY <3>1, <4>1, <4>2
        <4> QED BY <4>3 DEF z, n
      <3> HIDE DEF mt_, b
      <3>4. ASSUME NEW k \in 0 .. 3 PROVE Agrees(p.conc, b.node[k], Data(mt_, 4 * b.word + k))
        <4>1. 4 * b.word + k = k /\ k < 4
          BY <3>2
        <4> QED BY <3>2, <3>3, <4>1 DEF Data
      <3> QED BY <2>2, <3>2, <3>4 DEF WritesOwn
    <2>5. ASSUME NEW e \in {<< "aes_m", "m" >>, << "aes_mp", "mp" >>}
          PROVE  WritesOwn(p, Write(e[2], 0, LowByte(Symbol(e[1])), TRUE, "symbol"))
      <3> DEFINE v == Var(e[2], 1, 1, 1)
                 w_ == Write(e[2], 0, LowByte(Symbol(e[1])), TRUE, "symbol")
                 z == 0
      <3>1. e \in AesSymbols /\ v \in VarsOf(p) /\ e[2] # "sboxp"
        BY <2>2 DEF AesSymbols
      <3>2. /\ v.name = e[2] /\ v.size = 1 /\ v.live = 1
            /\ w_.var = e[2] /\ w_.word = 0 /\ w_.mask = "symbol" /\ w_.shifted
            /\ w_.node = LowByte(Symbol(e[1]))
        BY DEF Var, Write
      <3>3. z \in 0 .. 3 /\ LowByte(Symbol(e[1]))[z] = Symbol(e[1])[z]
        BY DEF LowByte
      <3>4. Agrees(AesConc, LowByte(Symbol(e[1]))[z], {<< "c", e[2], z >>})
        <4> HIDE DEF z
        <4>1. Says(AesConc, e[1], z, {<< "c", e[2], z >>})
          BY <3>1, AesSays
        <4> QED BY <3>3, <4>1, SymbolAgrees
      <3> HIDE DEF v, w_
      <3>5. ASSUME NEW k \in 0 .. 3, 4 * w_.word + k < v.size
            PROVE  Agrees(p.conc, w_.node[k], Data(v, 4 * w_.word + k))
        <4>1. k = 0 /\ 4 * w_.word + k = 0 /\ 0 < v.live
          BY <3>2, <3>5
        <4> QED BY <3>2, <3>4, <4>1 DEF Data
      <3>6. WritesOwn(p, w_)
        BY <3>1, <3>2, <3>5 DEF WritesOwn
      <3> QED BY <3>6 DEF w_
    <2>6. WritesOwn(p, c) /\ WritesOwn(p, d)
      BY <2>5
    <2> HIDE DEF a, b, c, d
    <2> QED BY <2>1, <2>3, <2>4, <2>6
  <1>8. ASSUME NEW n \in DOMAIN p.writes PROVE WritesOwn(p, p.writes[n])
    <2>1. p.writes[n] \in WholeWords \union OtherWrites
      BY <1>5, AesWritesSeq, ElementOfSeq
    <2> QED BY <1>6, <1>7, <2>1
  <1>9. p.table \in {"none", "words", "bytes"}
    OBVIOUS
  <1> QED BY <1>3, <1>4, <1>5, <1>8, <1>9 DEF WellSet

\* Every program of every core.
LEMMA AesProgramsSet == WellSet(aes_herbst) /\ WellSet(aes_herbst_unsecure)
  <1>1. WellSet(aes_herbst)
    <2> DEFINE p == aes_herbst
               entry == 4
    <2>1. /\ entry \in {1, 4} /\ p.vars = AesVars(entry) /\ p.writes = AesWrites /\ p.conc = AesConc
          /\ p.table = IF entry = 4 THEN "words" ELSE "bytes"
      BY DEF aes_herbst, Program
    <2> HIDE DEF p, entry
    <2>2. WellSet(p)
      BY <2>1, AesSet
    <2> QED BY <2>2 DEF p
  <1>2. WellSet(aes_herbst_unsecure)
    <2> DEFINE p == aes_herbst_unsecure
               entry == 1
    <2>1. /\ entry \in {1, 4} /\ p.vars = AesVars(entry) /\ p.writes = AesWrites /\ p.conc = AesConc
          /\ p.table = IF entry = 4 THEN "words" ELSE "bytes"
      BY DEF aes_herbst_unsecure, Program
    <2> HIDE DEF p, entry
    <2>2. WellSet(p)
      BY <2>1, AesSet
    <2> QED BY <2>2 DEF p
  <1> QED BY <1>1, <1>2

LEMMA ProgramsSet == \A c \in Cpus : \A p \in c.programs : WellSet(p)
  <1>1. \A p \in ibex.programs : WellSet(p)
    <2>1. ibex.programs = {ibex_secmult,
            ibex_secmult_unsecure,
            ibex_dom_and,
            ibex_dom_and_unsecure,
            ibex_aes_herbst,
            ibex_aes_herbst_unsecure}
      BY DEF ibex, Cpu
    <2>2. WellSet(ibex_secmult)
      BY SecmultSet DEF ibex_secmult
    <2>3. WellSet(ibex_secmult_unsecure)
      BY SecmultSet DEF ibex_secmult_unsecure
    <2>4. WellSet(ibex_dom_and)
      BY DomAndSet DEF ibex_dom_and
    <2>5. WellSet(ibex_dom_and_unsecure)
      BY DomAndSet DEF ibex_dom_and_unsecure
    <2>6. WellSet(ibex_aes_herbst)
      BY AesProgramsSet DEF ibex_aes_herbst
    <2>7. WellSet(ibex_aes_herbst_unsecure)
      BY AesProgramsSet DEF ibex_aes_herbst_unsecure
    <2> QED BY <2>1, <2>2, <2>3, <2>4, <2>5, <2>6, <2>7
  <1>2. \A p \in cv32e40p.programs : WellSet(p)
    <2>1. cv32e40p.programs = {cv32e40p_secmult,
            cv32e40p_secmult_unsecure,
            cv32e40p_dom_and,
            cv32e40p_dom_and_unsecure,
            cv32e40p_aes_herbst,
            cv32e40p_aes_herbst_unsecure}
      BY DEF cv32e40p, Cpu
    <2>2. WellSet(cv32e40p_secmult)
      BY SecmultSet DEF cv32e40p_secmult
    <2>3. WellSet(cv32e40p_secmult_unsecure)
      BY SecmultSet DEF cv32e40p_secmult_unsecure
    <2>4. WellSet(cv32e40p_dom_and)
      BY DomAndSet DEF cv32e40p_dom_and
    <2>5. WellSet(cv32e40p_dom_and_unsecure)
      BY DomAndSet DEF cv32e40p_dom_and_unsecure
    <2>6. WellSet(cv32e40p_aes_herbst)
      BY AesProgramsSet DEF cv32e40p_aes_herbst
    <2>7. WellSet(cv32e40p_aes_herbst_unsecure)
      BY AesProgramsSet DEF cv32e40p_aes_herbst_unsecure
    <2> QED BY <2>1, <2>2, <2>3, <2>4, <2>5, <2>6, <2>7
  <1>3. \A p \in aubrac.programs : WellSet(p)
    <2>1. aubrac.programs = {aubrac_secmult,
            aubrac_secmult_unsecure,
            aubrac_dom_and,
            aubrac_dom_and_unsecure,
            aubrac_simple,
            aubrac_aes_herbst,
            aubrac_aes_herbst_unsecure}
      BY DEF aubrac, Cpu
    <2>2. WellSet(aubrac_secmult)
      BY SecmultSet DEF aubrac_secmult
    <2>3. WellSet(aubrac_secmult_unsecure)
      BY SecmultSet DEF aubrac_secmult_unsecure
    <2>4. WellSet(aubrac_dom_and)
      BY DomAndSet DEF aubrac_dom_and
    <2>5. WellSet(aubrac_dom_and_unsecure)
      BY DomAndSet DEF aubrac_dom_and_unsecure
    <2>6. WellSet(aubrac_simple)
      BY SimpleSet DEF aubrac_simple
    <2>7. WellSet(aubrac_aes_herbst)
      BY AesProgramsSet DEF aubrac_aes_herbst
    <2>8. WellSet(aubrac_aes_herbst_unsecure)
      BY AesProgramsSet DEF aubrac_aes_herbst_unsecure
    <2> QED BY <2>1, <2>2, <2>3, <2>4, <2>5, <2>6, <2>7, <2>8
  <1>4. \A p \in coco_ibex.programs : WellSet(p)
    <2>1. coco_ibex.programs = {coco_ibex_secmult,
            coco_ibex_secmult_unsecure,
            coco_ibex_dom_and,
            coco_ibex_dom_and_unsecure}
      BY DEF coco_ibex, Cpu
    <2>2. WellSet(coco_ibex_secmult)
      BY SecmultSet DEF coco_ibex_secmult
    <2>3. WellSet(coco_ibex_secmult_unsecure)
      BY SecmultSet DEF coco_ibex_secmult_unsecure
    <2>4. WellSet(coco_ibex_dom_and)
      BY DomAndSet DEF coco_ibex_dom_and
    <2>5. WellSet(coco_ibex_dom_and_unsecure)
      BY DomAndSet DEF coco_ibex_dom_and_unsecure
    <2> QED BY <2>1, <2>2, <2>3, <2>4, <2>5
  <1>5. \A p \in cortex_m3.programs : WellSet(p)
    <2>1. cortex_m3.programs = {cortex_m3_secmult,
            cortex_m3_secmult_unsecure,
            cortex_m3_dom_and,
            cortex_m3_dom_and_GPR,
            cortex_m3_calibration,
            cortex_m3_aes_herbst,
            cortex_m3_aes_herbst_unsecure}
      BY DEF cortex_m3, Cpu
    <2>2. WellSet(cortex_m3_secmult)
      BY SecmultSet DEF cortex_m3_secmult
    <2>3. WellSet(cortex_m3_secmult_unsecure)
      BY SecmultPackedSet DEF cortex_m3_secmult_unsecure
    <2>4. WellSet(cortex_m3_dom_and)
      BY DomAndSet DEF cortex_m3_dom_and
    <2>5. WellSet(cortex_m3_dom_and_GPR)
      BY DomAndSet DEF cortex_m3_dom_and_GPR
    <2>6. WellSet(cortex_m3_calibration)
      BY CalibrationSet DEF cortex_m3_calibration
    <2>7. WellSet(cortex_m3_aes_herbst)
      BY AesProgramsSet DEF cortex_m3_aes_herbst
    <2>8. WellSet(cortex_m3_aes_herbst_unsecure)
      BY AesProgramsSet DEF cortex_m3_aes_herbst_unsecure
    <2> QED BY <2>1, <2>2, <2>3, <2>4, <2>5, <2>6, <2>7, <2>8
  <1>6. \A p \in cortex_m4.programs : WellSet(p)
    <2>1. cortex_m4.programs = {cortex_m4_secmult,
            cortex_m4_secmult_unsecure,
            cortex_m4_dom_and,
            cortex_m4_dom_and_GPR,
            cortex_m4_calibration,
            cortex_m4_refresh,
            cortex_m4_aes_herbst,
            cortex_m4_aes_herbst_unsecure}
      BY DEF cortex_m4, Cpu
    <2>2. WellSet(cortex_m4_secmult)
      BY SecmultSet DEF cortex_m4_secmult
    <2>3. WellSet(cortex_m4_secmult_unsecure)
      BY SecmultPackedSet DEF cortex_m4_secmult_unsecure
    <2>4. WellSet(cortex_m4_dom_and)
      BY DomAndSet DEF cortex_m4_dom_and
    <2>5. WellSet(cortex_m4_dom_and_GPR)
      BY DomAndSet DEF cortex_m4_dom_and_GPR
    <2>6. WellSet(cortex_m4_calibration)
      BY CalibrationSet DEF cortex_m4_calibration
    <2>7. WellSet(cortex_m4_refresh)
      BY RefreshSet DEF cortex_m4_refresh
    <2>8. WellSet(cortex_m4_aes_herbst)
      BY AesProgramsSet DEF cortex_m4_aes_herbst
    <2>9. WellSet(cortex_m4_aes_herbst_unsecure)
      BY AesProgramsSet DEF cortex_m4_aes_herbst_unsecure
    <2> QED BY <2>1, <2>2, <2>3, <2>4, <2>5, <2>6, <2>7, <2>8, <2>9
  <1> QED BY <1>1, <1>2, <1>3, <1>4, <1>5, <1>6, CpusAssumption DEF AllCpus

-----------------------------------------------------------------------------
(* What the memory holds *)

\* The program that runs is well set, and its variables are placed.
Settled == WellSet(program) /\ Placement(program, address) /\ mask \in 0 .. 3

LEMMA LoadedAt ==
  ASSUME Settled, NEW v \in VarsOf(program), NEW b \in Int,
         address[v.name] <= b, b < address[v.name] + v.size
  PROVE  LoadedByte(program, address, b) = Data(v, b - address[v.name])
  <1> DEFINE holders == {u \in VarsOf(program) : b \in address[u.name] .. address[u.name] + u.live - 1}
  <1>1. ASSUME NEW u \in holders PROVE u = v
    <2>1. /\ u \in VarsOf(program) /\ address[u.name] \in Nat /\ address[v.name] \in Nat
          /\ u.size \in Nat /\ v.size \in Nat /\ u.live \in 0 .. u.size
          /\ address[u.name] <= b /\ b < address[u.name] + u.live
      BY DEF Settled, WellSet, VarsDistinct, Placement
    <2>2. u.name # v.name => address[u.name] + u.size <= address[v.name] \/ address[v.name] + v.size <= address[u.name]
      BY <2>1 DEF Settled, Placement
    <2>3. u.name = v.name
      BY <2>1, <2>2
    <2> QED BY <2>1, <2>3 DEF Settled, WellSet, VarsDistinct
  <1>2. v \in holders <=> b - address[v.name] < v.live
    BY DEF Settled, WellSet, VarsDistinct, Placement
  <1>3. LoadedByte(program, address, b) = {<< "c", u.name, b - address[u.name] >> : u \in holders}
    BY DEF LoadedByte
  <1>4. CASE b - address[v.name] < v.live
    <2>1. holders = {v}
      BY <1>1, <1>2, <1>4
    <2> HIDE DEF holders
    <2> QED BY <1>3, <1>4, <2>1 DEF Data
  <1>5. CASE ~(b - address[v.name] < v.live)
    <2>1. holders = {}
      BY <1>1, <1>2, <1>5
    <2> HIDE DEF holders
    <2> QED BY <1>3, <1>5, <2>1 DEF Data
  <1> QED BY <1>4, <1>5

\* A byte that is as it was loaded is worth what it holds.
LEMMA LoadedAgrees ==
  ASSUME Settled, NEW b \in Int, NEW conc, \A a \in DOMAIN conc : a[1] = "s"
  PROVE  Agrees(conc, LoadedByte(program, address, b), LoadedByte(program, address, b))
  <1> DEFINE d == LoadedByte(program, address, b)
  <1>1. d = {} \/ \E name, k : d = {<< "c", name, k >>}
    <2>1. CASE \E v \in VarsOf(program) : b \in address[v.name] .. address[v.name] + v.live - 1
      <3>1. PICK v \in VarsOf(program) : b \in address[v.name] .. address[v.name] + v.live - 1
        BY <2>1
      <3>2. address[v.name] \in Nat /\ v.size \in Nat /\ v.live \in 0 .. v.size
        BY DEF Settled, WellSet, VarsDistinct, Placement
      <3>3. address[v.name] <= b /\ b < address[v.name] + v.size
        BY <3>1, <3>2
      <3>4. d = Data(v, b - address[v.name])
        BY <3>3, LoadedAt
      <3> QED BY <3>4 DEF Data
    <2>2. CASE ~\E v \in VarsOf(program) : b \in address[v.name] .. address[v.name] + v.live - 1
      BY <2>2 DEF LoadedByte
    <2> QED BY <2>1, <2>2
  <1> HIDE DEF d
  <1>2. Agrees(conc, d, d)
    <2>1. CASE d = {}
      BY <2>1, WorthNone DEF Agrees
    <2>2. CASE \E name, k : d = {<< "c", name, k >>}
      <3>1. PICK name, k : d = {<< "c", name, k >>}
        BY <2>2
      <3> DEFINE a == << "c", name, k >>
      <3>2. a \notin DOMAIN conc
        <4>1. a[1] # "s"
          OBVIOUS
        <4> QED BY <4>1
      <3>3. ValueOf(conc, a) = {a}
        BY <3>2 DEF ValueOf
      <3>4. d = {a}
        BY <3>1
      <3> HIDE DEF a
      <3> QED BY <3>3, <3>4, WorthOne DEF Agrees
    <2> QED BY <1>1, <2>1, <2>2
  <1> QED BY <1>2 DEF d

LEMMA PositionOf ==
  ASSUME Settled, NEW v \in VarsOf(program)
  PROVE  /\ VarOf(v.name) = v /\ address[v.name] \in Nat
         /\ Index(v.name) \in Nat /\ get_position(v.name) \in 0 .. 3
         /\ Index(v.name) + get_position(v.name) = address[v.name]
         /\ v.align = 4 => get_position(v.name) = 0
  <1>1. address[v.name] \in Nat /\ address[v.name] % v.align = 0
    BY DEF Settled, Placement
  <1>2. VarOf(v.name) = v
    BY DEF VarOf, Settled, WellSet, VarsDistinct
  <1> QED BY <1>1, <1>2 DEF Index, get_position

\* A write reaches bytes of its variable only, leaves their data, and gives
\* them a node that is worth it.
LEMMA OwnWrite ==
  ASSUME Settled, cells = Loaded(program, address), NEW w, WritesOwn(program, w),
         NEW b \in DOMAIN cells, b \in Int, b - Update(w).index \in Update(w).mask
  PROVE  /\ Update(w).data[b - Update(w).index] = LoadedByte(program, address, b)
         /\ Agrees(program.conc, Update(w).node[b - Update(w).index], LoadedByte(program, address, b))
         /\ \E v \in VarsOf(program) :
              v.name # "sboxp" /\ address[v.name] <= b /\ b < address[v.name] + v.size
  <1> DEFINE index == Index(w.var) + 4 * w.word
             k == b - index
             pos == get_position(w.var)
  <1>1. PICK v \in VarsOf(program) :
          /\ v.name = w.var /\ v.name # "sboxp" /\ w.word \in Nat
          /\ \/ w.mask = "symbol" /\ w.word = 0 /\ (w.shifted \/ v.align = 4)
             \/ w.mask = "word" /\ ~w.shifted /\ v.align = 4 /\ 4 * w.word + 4 <= v.size
             \/ w.mask = "half" /\ ~w.shifted /\ v.align = 4 /\ 4 * w.word + 2 <= v.size
          /\ \A l \in 0 .. 3 : 4 * w.word + l < v.size =>
               Agrees(program.conc, w.node[l], Data(v, 4 * w.word + l))
    BY DEF WritesOwn
  <1>2. /\ VarOf(w.var) = v /\ address[w.var] \in Nat /\ v.size \in Nat
        /\ Index(w.var) \in Nat /\ pos \in 0 .. 3
        /\ Index(w.var) + pos = address[w.var] /\ (v.align = 4 => pos = 0)
    BY <1>1, PositionOf DEF Settled, WellSet, VarsDistinct
  <1>3. /\ Update(w).index = index /\ Update(w).mask = MaskOf(w)
        /\ Update(w).node = Shift(w.node, IF w.shifted THEN pos ELSE 0)
        /\ Update(w).data = [l \in 0 .. 3 |-> cells[index + l].data]
    BY DEF Update
  <1>4. /\ index \in Nat /\ k \in Int /\ index + k = b /\ k \in MaskOf(w)
        /\ b = Index(w.var) + 4 * w.word + k
    <2>1. k \in MaskOf(w)
      BY <1>3
    <2> DEFINE x == Index(w.var)
               y == w.word
    <2>2. x \in Nat /\ y \in Nat
      BY <1>1, <1>2
    <2>3. index = x + 4 * y /\ k = b - index
      OBVIOUS
    <2> HIDE DEF x, y, index, k
    <2>4. /\ index \in Nat /\ k \in Int /\ index + k = b /\ b = x + 4 * y + k
      BY <2>2, <2>3
    <2> QED BY <2>1, <2>4 DEF x, y
  <1> HIDE DEF pos
  <1>5. k \in 0 .. 3 /\ Update(w).data[k] = cells[b].data
    <2>1. k \in 0 .. 3
      BY <1>1, <1>4 DEF MaskOf, get_mask
    <2> HIDE DEF k, index
    <2> QED BY <1>3, <1>4, <2>1
  <1>6. cells[b].data = LoadedByte(program, address, b)
    BY DEF Loaded
  <1> DEFINE shift == IF w.shifted THEN pos ELSE 0
             l == k - shift
  <1>7. /\ l \in 0 .. 3 /\ Update(w).node[k] = w.node[l]
        /\ address[w.var] <= b /\ b < address[w.var] + v.size /\ b - address[w.var] = 4 * w.word + l
    <2>1. CASE w.mask = "symbol"
      <3>1. w.word = 0 /\ (w.shifted \/ pos = 0)
        BY <1>1, <1>2, <2>1
      <3>2. pos <= k /\ k < pos + v.size
        BY <1>2, <1>4, <2>1 DEF MaskOf, get_mask, pos
      <3>3. shift = pos
        BY <3>1
      <3>4. l \in 0 .. 3 /\ k >= shift
        BY <1>2, <1>5, <3>2, <3>3
      <3>5. Update(w).node[k] = w.node[l]
        <4> HIDE DEF k, index
        <4> QED BY <1>3, <1>5, <3>4 DEF Shift
      <3> HIDE DEF k, index
      <3>6. l = k - pos
        BY <3>3
      <3>7. 4 * w.word + l = k - pos /\ b = Index(w.var) + k
        BY <1>2, <1>4, <1>5, <3>1, <3>6
      <3> HIDE DEF l, shift
      <3>8. /\ address[w.var] <= b /\ b < address[w.var] + v.size /\ b - address[w.var] = 4 * w.word + l
        BY <1>2, <1>5, <3>2, <3>7
      <3> QED BY <3>4, <3>5, <3>8
    <2>2. CASE w.mask \in {"word", "half"}
      <3>1. pos = 0 /\ shift = 0 /\ k < (IF w.mask = "word" THEN 4 ELSE 2)
            /\ 4 * w.word + (IF w.mask = "word" THEN 4 ELSE 2) <= v.size
        BY <1>1, <1>2, <1>4, <2>2 DEF MaskOf
      <3>2. l = k
        BY <1>5, <3>1
      <3>3. Update(w).node[k] = w.node[k]
        <4>1. Update(w).node = Shift(w.node, 0)
          BY <1>3, <3>1
        <4>2. Shift(w.node, 0)[k] = w.node[k - 0] /\ k - 0 = k
          <5> HIDE DEF k
          <5> QED BY <1>5 DEF Shift
        <4> QED BY <4>1, <4>2
      <3> HIDE DEF k, index
      <3> QED BY <1>1, <1>2, <1>4, <1>5, <3>1, <3>2, <3>3
    <2> QED BY <1>1, <2>1, <2>2
  <1> HIDE DEF k, index, shift, l
  <1>8. LoadedByte(program, address, b) = Data(v, 4 * w.word + l)
    BY <1>1, <1>7, LoadedAt
  <1>9. Agrees(program.conc, Update(w).node[k], LoadedByte(program, address, b))
    <2>1. 4 * w.word + l < v.size
      BY <1>1, <1>2, <1>7
    <2> QED BY <1>1, <1>7, <1>8, <2>1
  <1>10. k = b - Update(w).index
    BY <1>3 DEF k
  <1> QED BY <1>1, <1>5, <1>6, <1>7, <1>9, <1>10

LEMMA LineBijective ==
  ASSUME NEW n \in 0 .. 3, NEW k \in 0 .. 3
  PROVE  Xor(n, k) \in 0 .. 3 /\ Xor(Xor(n, k), k) = n
  BY DEF Xor

\* Bytes per entry of the table.
EntryBytes == IF program.table = "words" THEN 4 ELSE 1

\* An entry is written at its masked place, where the table starts on a word.
LEMMA TableWrite ==
  ASSUME Settled, program.table # "none", NEW e \in 0 .. 3, NEW b \in Int,
         b - TableUpdate(e).index \in TableUpdate(e).mask
  PROVE  /\ b = Index("sboxp") + EntryBytes * Line(e)
         /\ TableUpdate(e).data[b - TableUpdate(e).index] = {<< "t", e >>, << "c", "mp", 0 >>}
         /\ TableUpdate(e).node[b - TableUpdate(e).index] = {<< "t", e >>, << "s", "aes_mp", 0 >>}
  <1> DEFINE bytes == EntryBytes
             pos == IF program.table = "words" THEN 0 ELSE Line(e) % 4
             index == Index("sboxp") + 4 * ((bytes * Line(e)) \div 4)
             k == b - index
  <1>1. /\ TableUpdate(e).index = index /\ TableUpdate(e).mask = {pos}
        /\ TableUpdate(e).node = [l \in 0 .. 3 |-> IF l = pos THEN {<< "t", e >>, << "s", "aes_mp", 0 >>} ELSE {}]
        /\ TableUpdate(e).data = [l \in 0 .. 3 |-> IF l = pos THEN {<< "t", e >>, << "c", "mp", 0 >>} ELSE {}]
    BY DEF TableUpdate, EntryBytes
  <1>2. Line(e) \in 0 .. 3
    BY LineBijective DEF Settled, Line
  <1>3. \E v \in VarsOf(program) : v.name = "sboxp"
    BY DEF Settled, WellSet, HasTable
  <1>4. Index("sboxp") \in Nat
    BY <1>3, PositionOf
  <1>5. pos \in 0 .. 3 /\ bytes \in {1, 4} /\ 4 * ((bytes * Line(e)) \div 4) + pos = bytes * Line(e)
    BY <1>2 DEF EntryBytes
  <1>6. k = pos
    BY <1>1
  <1> HIDE DEF pos, bytes
  <1>7. b = Index("sboxp") + bytes * Line(e)
    <2> DEFINE q == 4 * ((bytes * Line(e)) \div 4)
               r == bytes * Line(e)
    <2>1. q \in Int /\ r \in Int /\ q + pos = r /\ b - (Index("sboxp") + q) = pos
      BY <1>2, <1>5, <1>6
    <2> HIDE DEF q, r
    <2>2. b = Index("sboxp") + r
      BY <1>4, <1>5, <2>1
    <2> QED BY <2>2 DEF r
  <1> HIDE DEF index, k
  <1>8. /\ TableUpdate(e).node[k] = {<< "t", e >>, << "s", "aes_mp", 0 >>}
        /\ TableUpdate(e).data[k] = {<< "t", e >>, << "c", "mp", 0 >>}
    BY <1>1, <1>5, <1>6
  <1>9. k = b - TableUpdate(e).index
    BY <1>1 DEF k
  <1> QED BY <1>7, <1>8, <1>9 DEF bytes

LEMMA TableAgrees ==
  ASSUME Settled, program.table # "none", NEW e
  PROVE  Agrees(program.conc, {<< "t", e >>, << "s", "aes_mp", 0 >>}, {<< "t", e >>, << "c", "mp", 0 >>})
  <1> DEFINE a == << "t", e >>
             c == << "s", "aes_mp", 0 >>
             d == << "c", "mp", 0 >>
             conc == program.conc
  <1>1. a # c /\ a # d /\ a[1] # "s"
    OBVIOUS
  <1>2. c \in DOMAIN conc /\ conc[c] = {d} /\ \A x \in DOMAIN conc : x[1] = "s"
    BY DEF Settled, WellSet, HasTable, VarsDistinct
  <1> HIDE DEF a, c, d, conc
  <1>3. ValueOf(conc, a) = {a} /\ ValueOf(conc, c) = {d}
    BY <1>1, <1>2 DEF ValueOf
  <1>4. WorthIn(conc, {a, c}) = {a, d}
    BY <1>1, <1>3, WorthTwo DEF Plus
  <1>5. Agrees(conc, {a, c}, {a, d})
    BY <1>4 DEF Agrees
  <1> QED BY <1>5 DEF a, c, d, conc

\* A non-empty set of indices of a sequence has a greatest element.
LEMMA GreatestIndex ==
  ASSUME NEW n \in Nat, NEW T, T \subseteq 1 .. n, T # {}
  PROVE  Max(T) \in T
  <1> DEFINE R == {p \in Nat \X Nat : p[1] < p[2]}
             S == {n - k : k \in T}
  <1>1. IsWellFoundedOn(R, Nat)
    <2>1. IsWellFoundedOn(OpToRel(<, Nat), Nat)
      BY NatLessThanWellFounded
    <2>2. OpToRel(<, Nat) = R
      BY DEF OpToRel
    <2> QED BY <2>1, <2>2
  <1>2. S \subseteq Nat /\ S # {}
    <2>1. ASSUME NEW k \in T PROVE n - k \in Nat
      <3>1. k \in Int /\ 1 <= k /\ k <= n
        OBVIOUS
      <3> QED BY <3>1
    <2>2. S \subseteq Nat
      BY <2>1
    <2>3. PICK k \in T : TRUE
      OBVIOUS
    <2>4. n - k \in S
      BY <2>3
    <2> QED BY <2>2, <2>4
  <1> HIDE DEF R
  <1>3. PICK x \in S : \A y \in S : ~(<< y, x >> \in R)
    BY <1>1, <1>2, WFMin
  <1>4. PICK m \in T : x = n - m
    OBVIOUS
  <1>5. ASSUME NEW k \in T PROVE m >= k
    <2>1. n - k \in S /\ n - k \in Nat /\ x \in Nat
      BY <1>2
    <2>2. ~(n - k < x)
      BY <1>3, <2>1 DEF R
    <2> QED BY <1>4, <2>2
  <1> QED BY <1>4, <1>5 DEF Max

\* What init_implem writes: the table, then the updates of the program.
TableUpdates == {TableUpdate(e) : e \in 0 .. 3}
OwnUpdates == {Update(program.writes[n]) : n \in DOMAIN program.writes}

LEMMA UpdatesAre ==
  ASSUME Settled
  PROVE  /\ Len(Updates) \in Nat /\ DOMAIN Updates = 1 .. Len(Updates)
         /\ \A n \in DOMAIN Updates :
              \/ program.table # "none" /\ Updates[n] \in TableUpdates
              \/ Updates[n] \in OwnUpdates
         /\ program.table # "none" =>
              \A e \in 0 .. 3 : e + 1 \in DOMAIN Updates /\ Updates[e + 1] = TableUpdate(e)
  <1> DEFINE own == [n \in DOMAIN program.writes |-> Update(program.writes[n])]
             T == IF program.table = "none" THEN {} ELSE TableUpdates
             S == T \union OwnUpdates
  <1>1. Len(program.writes) \in Nat /\ DOMAIN program.writes = 1 .. Len(program.writes)
    BY DEF Settled, WellSet
  <1>2. own \in Seq(S)
    <2>1. own \in [1 .. Len(program.writes) -> S]
      BY <1>1 DEF OwnUpdates
    <2> HIDE DEF own, S
    <2> QED BY <1>1, <2>1, SeqDef
  <1>3. /\ Table \in Seq(S)
        /\ program.table # "none" => Len(Table) = 4 /\ \A e \in 0 .. 3 : Table[e + 1] = TableUpdate(e)
    <2>1. CASE program.table = "none"
      <3>1. Table = << >>
        BY <2>1 DEF Table
      <3> HIDE DEF S
      <3> QED BY <2>1, <3>1
    <2>2. CASE program.table # "none"
      <3> DEFINE size == 4
      <3>1. Table = [n \in 1 .. size |-> TableUpdate(n - 1)] /\ size \in Nat
        BY <2>2 DEF Table, TableSize
      <3>2. ASSUME NEW n \in 1 .. size PROVE TableUpdate(n - 1) \in S
        <4>1. n - 1 \in 0 .. 3
          OBVIOUS
        <4> QED BY <2>2, <4>1 DEF TableUpdates
      <3>3. ASSUME NEW e \in 0 .. 3 PROVE Table[e + 1] = TableUpdate(e)
        <4>1. e + 1 \in 1 .. size /\ (e + 1) - 1 = e
          OBVIOUS
        <4> HIDE DEF size
        <4> QED BY <3>1, <4>1
      <3>4. Table \in [1 .. size -> S] /\ Table = [n \in 1 .. size |-> Table[n]]
        <4> HIDE DEF S, size
        <4> QED BY <3>1, <3>2
      <3>5. Len(Table) = size
        <4> HIDE DEF size, S
        <4> QED BY <3>1, <3>4, LenOf
      <3>6. Table \in Seq(S)
        <4> HIDE DEF size, S
        <4> QED BY <3>1, <3>4, SeqDef
      <3> HIDE DEF S
      <3> QED BY <3>3, <3>5, <3>6
    <2> QED BY <2>1, <2>2
  <1>4. Updates = Table \o own
    BY DEF Updates
  <1> HIDE DEF own, S
  <1>5. Updates \in Seq(S) /\ Len(Table) \in Nat /\ Len(own) \in Nat
        /\ Len(Updates) = Len(Table) + Len(own)
        /\ \A n \in 1 .. Len(Table) + Len(own) : Updates[n] = IF n <= Len(Table) THEN Table[n] ELSE own[n - Len(Table)]
    BY <1>2, <1>3, <1>4, ConcatProperties, LenProperties
  <1>6. Len(Updates) \in Nat /\ DOMAIN Updates = 1 .. Len(Updates) /\ \A n \in 1 .. Len(Updates) : Updates[n] \in S
    BY <1>5, LenProperties, ElementOfSeq
  <1>7. ASSUME program.table # "none", NEW e \in 0 .. 3
        PROVE  e + 1 \in DOMAIN Updates /\ Updates[e + 1] = TableUpdate(e)
    <2>1. e + 1 \in 1 .. Len(Table) + Len(own) /\ e + 1 <= Len(Table)
      BY <1>3, <1>5, <1>7
    <2> QED BY <1>3, <1>5, <1>6, <1>7, <2>1
  <1>8. ASSUME NEW n \in DOMAIN Updates
        PROVE  (program.table # "none" /\ Updates[n] \in TableUpdates) \/ Updates[n] \in OwnUpdates
    <2>1. Updates[n] \in S
      BY <1>6
    <2> QED BY <2>1 DEF S
  <1> QED BY <1>6, <1>7, <1>8

\* The bytes of the table, once it is hooked, and what a byte then holds.
Hooks == IF program.table = "none" THEN {} ELSE HookedRange
PlaceOf(b) == IF program.table = "words" THEN (b - address["sboxp"]) \div 4 ELSE b - address["sboxp"]
Rightly(b, data) ==
  IF b \in Hooks
  THEN program.table = "bytes" \/ (b - address["sboxp"]) % 4 = 0 =>
         data = {<< "t", Xor(PlaceOf(b), mask) >>, << "c", "mp", 0 >>}
  ELSE data = LoadedByte(program, address, b)

\* The table, where it starts on a word: the entry of each place is written, and
\* nothing else of the program is near.
LEMMA TablePlaced ==
  ASSUME Settled, program.table # "none", get_position("sboxp") = 0
  PROVE  /\ \A e \in 0 .. 3 : Index("sboxp") + EntryBytes * Line(e) \in Hooks
         /\ \A v \in VarsOf(program) : v.name # "sboxp" =>
              \A b \in Hooks : ~(address[v.name] <= b /\ b < address[v.name] + v.size)
         /\ \A e \in 0 .. 3 : \A b \in Int :
              b = Index("sboxp") + EntryBytes * Line(e) => Xor(PlaceOf(b), mask) = e
         /\ \A b \in Hooks : program.table = "bytes" \/ (b - address["sboxp"]) % 4 = 0 =>
              \E e \in 0 .. 3 : b - TableUpdate(e).index \in TableUpdate(e).mask
         /\ Hooks \subseteq Int
  <1>1. PICK v \in VarsOf(program) :
          /\ v.name = "sboxp"
          /\ IF program.table = "words" THEN v.align = 4 /\ v.size = 16 ELSE v.size = 4
    BY DEF Settled, WellSet, HasTable
  <1>2. VarOf("sboxp") = v /\ Index("sboxp") \in Nat /\ address["sboxp"] = Index("sboxp")
    BY <1>1, PositionOf
  <1>3. Hooks = Index("sboxp") .. Index("sboxp") + (IF program.table = "words" THEN 16 ELSE 4) - 1
    BY <1>1, <1>2 DEF Hooks, HookedRange
  <1>4. program.table \in {"words", "bytes"}
    BY DEF Settled, WellSet
  <1>5. ASSUME NEW e \in 0 .. 3 PROVE Line(e) \in 0 .. 3 /\ Xor(Line(e), mask) = e /\ Line(Xor(e, mask)) = e /\ Xor(e, mask) \in 0 .. 3
    BY LineBijective DEF Settled, Line
  <1>6. ASSUME NEW e \in 0 .. 3 PROVE Index("sboxp") + EntryBytes * Line(e) \in Hooks
    <2>1. Line(e) \in Int /\ 0 <= Line(e) /\ Line(e) <= 3
      BY <1>5
    <2>2. CASE program.table = "words"
      BY <1>2, <1>3, <2>1, <2>2 DEF EntryBytes
    <2>3. CASE program.table = "bytes"
      BY <1>2, <1>3, <2>1, <2>3 DEF EntryBytes
    <2> QED BY <1>4, <2>2, <2>3
  <1>7. ASSUME NEW u \in VarsOf(program), u.name # "sboxp", NEW b \in Hooks
        PROVE  ~(address[u.name] <= b /\ b < address[u.name] + u.size)
    <2>1. address[u.name] + u.size <= address[v.name] \/ address[v.name] + v.size <= address[u.name]
      BY <1>1, <1>7 DEF Settled, Placement
    <2>2. address[u.name] \in Nat /\ u.size \in Nat
      BY DEF Settled, Placement, WellSet, VarsDistinct
    <2>3. address[v.name] <= b /\ b < address[v.name] + v.size /\ b \in Int
      BY <1>1, <1>2, <1>3, <1>4
    <2> QED BY <1>1, <1>2, <2>1, <2>2, <2>3
  <1>8. ASSUME NEW e \in 0 .. 3, NEW b \in Int, b = Index("sboxp") + EntryBytes * Line(e)
        PROVE  Xor(PlaceOf(b), mask) = e
    <2>1. PlaceOf(b) = Line(e)
      <3>1. CASE program.table = "words"
        BY <1>2, <1>5, <1>8, <3>1 DEF PlaceOf, EntryBytes
      <3>2. CASE program.table = "bytes"
        BY <1>2, <1>5, <1>8, <3>2 DEF PlaceOf, EntryBytes
      <3> QED BY <1>4, <3>1, <3>2
    <2> QED BY <1>5, <2>1
  <1>9. ASSUME NEW b \in Hooks, program.table = "bytes" \/ (b - address["sboxp"]) % 4 = 0
        PROVE  \E e \in 0 .. 3 : b - TableUpdate(e).index \in TableUpdate(e).mask
    <2> DEFINE n == PlaceOf(b)
               e == Xor(n, mask)
    <2>1. n \in 0 .. 3 /\ b = Index("sboxp") + EntryBytes * n
      <3>1. CASE program.table = "words"
        BY <1>2, <1>3, <1>9, <3>1 DEF PlaceOf, EntryBytes
      <3>2. CASE program.table = "bytes"
        BY <1>2, <1>3, <1>9, <3>2 DEF PlaceOf, EntryBytes
      <3> QED BY <1>4, <3>1, <3>2
    <2> HIDE DEF n
    <2>2. e \in 0 .. 3 /\ Line(e) = n
      BY <1>5, <2>1
    <2> HIDE DEF e
    <2>3. /\ TableUpdate(e).index = Index("sboxp") + 4 * ((EntryBytes * n) \div 4)
          /\ TableUpdate(e).mask = {IF program.table = "words" THEN 0 ELSE n % 4}
      BY <2>2 DEF TableUpdate, EntryBytes
    <2>4. b - (Index("sboxp") + 4 * ((EntryBytes * n) \div 4)) = IF program.table = "words" THEN 0 ELSE n % 4
      BY <1>2, <1>4, <2>1 DEF EntryBytes
    <2> QED BY <2>2, <2>3, <2>4
  <1>10. Hooks \subseteq Int
    BY <1>2, <1>3
  <1> QED BY <1>6, <1>7, <1>8, <1>9, <1>10

LEMMA BytesAreInts == ASSUME Settled PROVE Bytes4(program, address) \subseteq Int
  <1>1. ASSUME NEW v \in VarsOf(program)
        PROVE  (address[v.name] - (address[v.name] % 4)) .. (AlignUp(address[v.name] + v.size, 4) - 1) \subseteq Int
    OBVIOUS
  <1> QED BY <1>1 DEF Bytes4

\* The memory the program starts from: every node is worth its data, and the
\* data are those the loader put there, but for the table, where it starts on a
\* word.
LEMMA WrittenRight ==
  ASSUME Settled, cells = Loaded(program, address), NEW b \in DOMAIN cells
  PROVE  /\ Agrees(program.conc, Written(Updates)[b].node, Written(Updates)[b].data)
         /\ (program.table # "none" => get_position("sboxp") = 0) => Rightly(b, Written(Updates)[b].data)
  <1> DEFINE hits == {n \in DOMAIN Updates : b - Updates[n].index \in Updates[n].mask}
             d == LoadedByte(program, address, b)
             new == Written(Updates)[b]
             aligned == program.table # "none" => get_position("sboxp") = 0
  <1>1. b \in Int /\ cells[b] = [node |-> d, data |-> d]
    BY BytesAreInts DEF Loaded
  <1>2. /\ Len(Updates) \in Nat /\ DOMAIN Updates = 1 .. Len(Updates)
        /\ \A n \in DOMAIN Updates :
             \/ program.table # "none" /\ Updates[n] \in TableUpdates
             \/ Updates[n] \in OwnUpdates
        /\ program.table # "none" =>
             \A e \in 0 .. 3 : e + 1 \in DOMAIN Updates /\ Updates[e + 1] = TableUpdate(e)
    BY UpdatesAre
  <1>3. new = IF hits = {} THEN cells[b]
              ELSE LET w == Updates[Max(hits)]
                   IN [node |-> w.node[b - w.index], data |-> w.data[b - w.index]]
    BY DEF Written
  <1>4. ASSUME aligned, program.table # "none"
        PROVE  /\ \A e \in 0 .. 3 : Index("sboxp") + EntryBytes * Line(e) \in Hooks
               /\ \A v \in VarsOf(program) : v.name # "sboxp" =>
                    \A c \in Hooks : ~(address[v.name] <= c /\ c < address[v.name] + v.size)
               /\ \A e \in 0 .. 3 : \A c \in Int :
                    c = Index("sboxp") + EntryBytes * Line(e) => Xor(PlaceOf(c), mask) = e
               /\ \A c \in Hooks : program.table = "bytes" \/ (c - address["sboxp"]) % 4 = 0 =>
                    \E e \in 0 .. 3 : c - TableUpdate(e).index \in TableUpdate(e).mask
    BY <1>4, TablePlaced
  <1> HIDE DEF new
  <1>5. CASE hits = {}
    <2>1. new = [node |-> d, data |-> d]
      BY <1>1, <1>3, <1>5
    <2>2. Agrees(program.conc, d, d)
      BY <1>1, LoadedAgrees DEF Settled, WellSet, VarsDistinct
    <2>3. ASSUME aligned PROVE Rightly(b, d)
      <3>1. CASE b \in Hooks
        <4>1. program.table # "none"
          BY <3>1 DEF Hooks
        <4>2. ASSUME program.table = "bytes" \/ (b - address["sboxp"]) % 4 = 0 PROVE FALSE
          <5>1. PICK e \in 0 .. 3 : b - TableUpdate(e).index \in TableUpdate(e).mask
            BY <1>4, <2>3, <3>1, <4>1, <4>2
          <5>2. e + 1 \in hits
            BY <1>2, <4>1, <5>1
          <5> QED BY <1>5, <5>2
        <4> QED BY <3>1, <4>2 DEF Rightly
      <3>2. CASE b \notin Hooks
        BY <3>2 DEF Rightly
      <3> QED BY <3>1, <3>2
    <2> HIDE DEF d, aligned
    <2>4. new.node = d /\ new.data = d
      BY <2>1
    <2>5. Agrees(program.conc, new.node, new.data) /\ (aligned => Rightly(b, new.data))
      BY <2>2, <2>3, <2>4
    <2> QED BY <2>5 DEF new, aligned
  <1>6. CASE hits # {}
    <2> DEFINE w == Updates[Max(hits)]
               k == b - w.index
    <2>1. Max(hits) \in hits
      <3>1. hits \subseteq 1 .. Len(Updates)
        BY <1>2
      <3> HIDE DEF hits
      <3> QED BY <1>2, <1>6, <3>1, GreatestIndex
    <2>2. new.node = w.node[k] /\ new.data = w.data[k]
      BY <1>3, <1>6
    <2>3. /\ b - w.index \in w.mask
          /\ (program.table # "none" /\ w \in TableUpdates) \/ w \in OwnUpdates
      <3>1. Max(hits) \in DOMAIN Updates /\ b - w.index \in w.mask
        BY <2>1
      <3> HIDE DEF hits
      <3> QED BY <1>2, <3>1
    <2> HIDE DEF w, hits
    <2>4. CASE program.table # "none" /\ w \in TableUpdates
      <3>1. PICK e \in 0 .. 3 : w = TableUpdate(e)
        BY <2>4 DEF TableUpdates
      <3>2. /\ b = Index("sboxp") + EntryBytes * Line(e)
            /\ w.data[k] = {<< "t", e >>, << "c", "mp", 0 >>}
            /\ w.node[k] = {<< "t", e >>, << "s", "aes_mp", 0 >>}
        BY <1>1, <2>3, <2>4, <3>1, TableWrite
      <3>3. Agrees(program.conc, new.node, new.data)
        BY <2>2, <2>4, <3>2, TableAgrees
      <3>4. ASSUME aligned PROVE Rightly(b, new.data)
        <4>1. b \in Hooks /\ Xor(PlaceOf(b), mask) = e
          BY <1>1, <1>4, <2>4, <3>2, <3>4
        <4> QED BY <2>2, <3>2, <4>1 DEF Rightly
      <3> QED BY <3>3, <3>4 DEF new
    <2>5. CASE w \in OwnUpdates
      <3>1. PICK n \in DOMAIN program.writes : w = Update(program.writes[n])
        BY <2>5 DEF OwnUpdates
      <3> DEFINE u == program.writes[n]
      <3>2. WritesOwn(program, u)
        BY DEF Settled, WellSet
      <3> HIDE DEF u
      <3>3. w = Update(u)
        BY <3>1 DEF u
      <3>4. /\ w.data[k] = d /\ Agrees(program.conc, w.node[k], d)
            /\ \E v \in VarsOf(program) :
                 v.name # "sboxp" /\ address[v.name] <= b /\ b < address[v.name] + v.size
        BY <1>1, <2>3, <3>2, <3>3, OwnWrite
      <3>5. ASSUME aligned PROVE Rightly(b, d)
        <4>1. b \notin Hooks
          <5>1. CASE program.table = "none"
            BY <5>1 DEF Hooks
          <5>2. CASE program.table # "none"
            BY <1>4, <3>4, <3>5, <5>2
          <5> QED BY <5>1, <5>2
        <4> QED BY <4>1 DEF Rightly
      <3> HIDE DEF d, k
      <3>6. Agrees(program.conc, new.node, new.data) /\ (aligned => Rightly(b, new.data))
        BY <2>2, <3>4, <3>5
      <3> QED BY <3>6 DEF new
    <2> QED BY <2>3, <2>4, <2>5
  <1> QED BY <1>5, <1>6

-----------------------------------------------------------------------------
(* The memory along the run *)

\* The memory is as it was loaded, or it has been given its nodes, which are
\* queued or written.
TableAligned == program.table # "none" => get_position("sboxp") = 0
Untouched == cells = Loaded(program, address) /\ write_queue = << >> /\ symbol_to_conc_ = << >>
Pending == cells = Loaded(program, address) /\ write_queue = Updates
Ready ==
  /\ write_queue = << >> /\ cells = [b \in Bytes4(program, address) |-> cells[b]]
  /\ \A b \in DOMAIN cells :
       /\ Agrees(program.conc, cells[b].node, cells[b].data)
       /\ TableAligned => Rightly(b, cells[b].data)
SetUp ==
  /\ symbol_to_conc_ = program.conc /\ hooked = Hooks /\ (Asserts => TableAligned)
  /\ Pending \/ Ready

MemInv ==
  /\ cpu \in Cpus /\ program \in cpu.programs /\ address \in Layouts(program) /\ mask \in Masks
  /\ phase \in {"load", "reset", "unwind", "init"} => Untouched
  /\ phase \in {"run", "conclude", "done"} => SetUp
  /\ Untouched \/ SetUp

LEMMA MemSettled == MemInv => Settled
  BY ProgramsSet, LinkerAssumption, CpuBenchAssumption DEF MemInv, Settled, TableSize

LEMMA MemInit == Init => MemInv
  BY DEF Init, MemInv, Untouched

\* The nodes are settled once the writes are done.
LEMMA WrittenReady ==
  ASSUME Settled, cells = Loaded(program, address), UNCHANGED fixed,
         cells' = Written(Updates), write_queue' = << >>
  PROVE  Ready'
  <1>1. /\ DOMAIN cells = Bytes4(program, address)
        /\ cells' = [b \in Bytes4(program, address) |-> cells'[b]]
        /\ DOMAIN (cells') = DOMAIN cells
    <2>1. DOMAIN cells = Bytes4(program, address)
      BY DEF Loaded
    <2>2. Written(Updates) = [b \in DOMAIN cells |-> Written(Updates)[b]]
      BY DEF Written
    <2> QED BY <2>1, <2>2
  <1>2. ASSUME NEW b \in DOMAIN cells
        PROVE  /\ Agrees(program.conc, cells'[b].node, cells'[b].data)
               /\ TableAligned => Rightly(b, cells'[b].data)
    BY WrittenRight DEF TableAligned
  <1>3. ASSUME NEW b \in DOMAIN cells
        PROVE  /\ TableAligned' <=> TableAligned
               /\ Rightly(b, cells[b].data)' <=> Rightly(b, cells'[b].data)
    BY DEF fixed, TableAligned, get_position, Rightly, Hooks, HookedRange, Index, VarOf, VarsOf, PlaceOf
  <1>4. UNCHANGED << program, address >>
    BY DEF fixed
  <1> QED BY <1>1, <1>2, <1>3, <1>4 DEF Ready

LEMMA NothingWritten ==
  ASSUME NEW S, cells = [b \in S |-> cells[b]] PROVE Written(<< >>) = cells
  <1>1. ASSUME NEW b PROVE {n \in DOMAIN << >> : b - << >>[n].index \in << >>[n].mask} = {}
    OBVIOUS
  <1> QED BY <1>1 DEF Written

\* What does not change keeps the invariant.
LEMMA MemKept ==
  ASSUME MemInv, UNCHANGED << fixed, cells, write_queue, symbol_to_conc_, hooked >>
  PROVE  /\ Untouched' <=> Untouched
         /\ SetUp' <=> SetUp
         /\ cpu' \in Cpus /\ program' \in cpu'.programs /\ address' \in Layouts(program') /\ mask' \in Masks
  <1>1. UNCHANGED << cpu, program, address, mask, cells, write_queue, symbol_to_conc_, hooked >>
    BY DEF fixed
  <1>2. Untouched' <=> Untouched
    BY <1>1 DEF Untouched
  <1>3. Updates' = Updates
    BY <1>1 DEF Updates, Table, TableUpdate, Update, Line, Index, get_position, MaskOf, get_mask, VarOf, VarsOf
  <1>4. Pending' <=> Pending
    BY <1>1, <1>3 DEF Pending
  <1>5. (TableAligned' <=> TableAligned) /\ Hooks' = Hooks
    BY <1>1 DEF TableAligned, get_position, Hooks, HookedRange, Index, VarOf, VarsOf
  <1>6. ASSUME NEW b PROVE Rightly(b, cells[b].data)' <=> Rightly(b, cells[b].data)
    BY <1>1, <1>5 DEF Rightly, PlaceOf
  <1>7. Ready' <=> Ready
    BY <1>1, <1>5, <1>6 DEF Ready
  <1>8. SetUp' <=> SetUp
    BY <1>1, <1>4, <1>5, <1>7 DEF SetUp
  <1> QED BY <1>1, <1>2, <1>8 DEF MemInv

\* A cycle applies what is queued.
LEMMA MemStep ==
  ASSUME MemInv, step
  PROVE  /\ Untouched => Untouched'
         /\ SetUp => SetUp'
         /\ cpu' \in Cpus /\ program' \in cpu'.programs /\ address' \in Layouts(program') /\ mask' \in Masks
  <1>1. /\ UNCHANGED fixed /\ UNCHANGED << cpu, program, address, mask, symbol_to_conc_, hooked >>
        /\ cells' = Written(write_queue) /\ write_queue' = << >>
    BY DEF step, fixed
  <1>2. Settled
    BY MemSettled
  <1>3. ASSUME write_queue = << >>, Untouched \/ Ready PROVE UNCHANGED << fixed, cells, write_queue, symbol_to_conc_, hooked >>
    <2>1. cells = [b \in Bytes4(program, address) |-> cells[b]]
      BY <1>3 DEF Untouched, Ready, Loaded
    <2> QED BY <1>1, <1>3, <2>1, NothingWritten
  <1>4. ASSUME Untouched PROVE Untouched'
    BY <1>3, <1>4, MemKept DEF Untouched
  <1>5. ASSUME SetUp PROVE SetUp'
    <2>1. CASE Ready
      BY <1>3, <1>5, <2>1, MemKept DEF Ready
    <2>2. CASE Pending
      <3>1. Ready'
        BY <1>1, <1>2, <2>2, WrittenReady DEF Pending
      <3>2. (TableAligned' <=> TableAligned) /\ Hooks' = Hooks
        BY <1>1 DEF TableAligned, get_position, Hooks, HookedRange, Index, VarOf, VarsOf
      <3> QED BY <1>1, <1>5, <3>1, <3>2 DEF SetUp
    <2> QED BY <1>5, <2>1, <2>2 DEF SetUp
  <1> QED BY <1>1, <1>4, <1>5 DEF MemInv

\* Where init_implem ends, the nodes are queued or written, unless it stopped.
LEMMA MemInitImplem ==
  ASSUME MemInv, BenchInv, init_implem
  PROVE  MemInv'
  <1>1. /\ phase = "init" /\ hooked = {} /\ Untouched /\ Settled
        /\ UNCHANGED << fixed, cpu, program, address, mask >>
    BY MemSettled DEF init_implem, MemInv, BenchInv, Before, fixed
  <1>2. ~\E n \in DOMAIN Updates : Updates[n].index \in Redirected
    BY <1>1 DEF Redirected
  <1>3. CASE Asserts /\ ~AssertionsHold
    <2>1. phase' = "asserted" /\ UNCHANGED << cells, write_queue, hooked, symbol_to_conc_ >>
      BY <1>3 DEF init_implem
    <2>2. Untouched'
      BY <1>1, <2>1, MemKept
    <2> QED BY <1>1, <2>1, <2>2 DEF MemInv
  <1>4. CASE ~(Asserts /\ ~AssertionsHold)
    <2>1. /\ phase' = "run" /\ symbol_to_conc_' = program.conc
          /\ hooked' = (IF program.table = "none" THEN {} ELSE HookedRange)
          /\ write_queue' = (IF program.at_once THEN << >> ELSE Updates)
          /\ cells' = (IF program.at_once THEN Written(Updates) ELSE cells)
      BY <1>2, <1>4, Zenon DEF init_implem
    <2>2. (TableAligned' <=> TableAligned) /\ Hooks' = Hooks /\ hooked' = Hooks
      BY <1>1, <2>1 DEF TableAligned, get_position, Hooks, HookedRange, Index, VarOf, VarsOf
    <2>3. Asserts => TableAligned
      BY <1>4 DEF AssertionsHold, TableAligned
    <2>4. CASE program.at_once
      <3>1. Ready'
        BY <1>1, <2>1, <2>4, WrittenReady DEF Untouched
      <3> QED BY <1>1, <2>1, <2>2, <2>3, <3>1 DEF SetUp, MemInv
    <2>5. CASE ~program.at_once
      <3>1. UNCHANGED cells /\ write_queue' = Updates
        BY <2>1, <2>5
      <3>2. UNCHANGED << program, address, mask, cells >>
        BY <1>1, <3>1
      <3>3. Updates' = Updates
        BY <3>2
           DEF Updates, Table, TableUpdate, Update, Line, Index, get_position, MaskOf, get_mask, VarOf, VarsOf
      <3>4. Pending'
        BY <1>1, <3>1, <3>3 DEF Pending, Untouched
      <3> QED BY <1>1, <2>1, <2>2, <2>3, <3>4 DEF SetUp, MemInv
    <2> QED BY <2>4, <2>5
  <1> QED BY <1>3, <1>4

LEMMA MemNext == ASSUME MemInv, BenchInv, [Next]_vars PROVE MemInv'
  <1> DEFINE early == {"load", "reset", "unwind", "init"}
             late == {"run", "conclude", "done"}
  <1>1. CASE init_implem
    BY <1>1, MemInitImplem
  <1>2. CASE Reset \/ Unwind
    <2>1. step /\ phase \in early /\ phase' \notin late
      BY <1>2 DEF Reset, Unwind
    <2> QED BY <2>1, MemStep DEF MemInv
  <1>3. CASE Run
    <2>1. phase = "run" /\ phase' \notin early
      BY <1>3 DEF Run
    <2>2. step \/ UNCHANGED << fixed, cells, write_queue, symbol_to_conc_, hooked >>
      BY <1>3 DEF Run
    <2>3. SetUp
      BY <2>1 DEF MemInv
    <2>4. /\ SetUp'
          /\ cpu' \in Cpus /\ program' \in cpu'.programs /\ address' \in Layouts(program') /\ mask' \in Masks
      BY <2>2, <2>3, MemStep, MemKept
    <2> QED BY <2>1, <2>4 DEF MemInv
  <1>4. CASE load \/ UnwindFailed \/ RunFailed \/ conclude_implem \/ UNCHANGED vars
    <2>1. UNCHANGED << fixed, cells, write_queue, symbol_to_conc_, hooked >>
      BY <1>4 DEF load, UnwindFailed, RunFailed, conclude_implem, vars
    <2>2. /\ phase' \in early => phase \in early
          /\ phase' \in late => phase \in late
      BY <1>4 DEF load, UnwindFailed, RunFailed, conclude_implem, vars
    <2> QED BY <2>1, <2>2, MemKept DEF MemInv
  <1> QED BY <1>1, <1>2, <1>3, <1>4 DEF Next

LEMMA MemInvariant == Spec => []MemInv
  <1>1. MemInv /\ BenchInv /\ [Next]_vars => MemInv'
    BY MemNext
  <1> QED BY <1>1, MemInit, BenchInvariant, PTL DEF Spec

\* Every byte whose symbols all have a concrete value carries a node that is
\* worth its data, in every state: wherever the linker put the variables,
\* before init_implem, between it and the cycle that applies its writes, and
\* after.
THEOREM NodesWorthTheirData == Spec => []NodesAgree
  <1>1. ASSUME MemInv, NEW b \in DOMAIN cells
        PROVE  Agrees(symbol_to_conc_, cells[b].node, cells[b].data)
    <2>1. Settled
      BY <1>1, MemSettled
    <2>2. CASE Ready /\ SetUp
      BY <1>1, <2>2 DEF Ready, SetUp
    <2>3. CASE cells = Loaded(program, address) /\ (symbol_to_conc_ = << >> \/ symbol_to_conc_ = program.conc)
      <3>1. b \in Int /\ cells[b].node = LoadedByte(program, address, b) /\ cells[b].data = LoadedByte(program, address, b)
        BY <1>1, <2>1, <2>3, BytesAreInts DEF Loaded
      <3>2. \A a \in DOMAIN symbol_to_conc_ : a[1] = "s"
        <4>1. \A a \in DOMAIN program.conc : a[1] = "s"
          BY <2>1 DEF Settled, WellSet, VarsDistinct
        <4>2. DOMAIN << >> = {}
          OBVIOUS
        <4> QED BY <2>3, <4>1, <4>2
      <3> QED BY <2>1, <3>1, <3>2, LoadedAgrees
    <2> QED BY <1>1, <2>2, <2>3 DEF MemInv, Untouched, SetUp, Pending
  <1>2. MemInv => NodesAgree
    BY <1>1 DEF NodesAgree, Agrees, Worth
  <1> QED BY <1>2, MemInvariant, PTL

\* With the assertions of the build, the variables keep their data, and the
\* table holds the masked S-box at the masked places, once the writes of
\* init_implem are applied.  Without them a table of bytes off a word boundary
\* is written at the wrong places.
THEOREM TableMaskedRight == ASSUME Asserts PROVE Spec => []TableMasked
  <1>1. ASSUME MemInv, phase \in {"run", "conclude", "done"}, write_queue = << >>, NEW b \in DOMAIN cells
        PROVE  Rightly(b, cells[b].data) /\ hooked = Hooks
    <2>1. Settled /\ SetUp /\ TableAligned
      BY <1>1, MemSettled DEF MemInv, SetUp
    <2>2. CASE Ready
      BY <1>1, <2>1, <2>2 DEF Ready, SetUp
    <2>3. CASE Pending
      <3>1. Updates = << >> /\ cells = Loaded(program, address)
        BY <1>1, <2>3 DEF Pending
      <3>2. cells = [c \in Bytes4(program, address) |-> cells[c]]
        BY <3>1 DEF Loaded
      <3>3. Written(Updates) = cells
        BY <3>1, <3>2, NothingWritten
      <3> QED BY <1>1, <2>1, <3>1, <3>3, WrittenRight DEF TableAligned, SetUp
    <2> QED BY <2>1, <2>2, <2>3 DEF SetUp
  <1>2. MemInv => TableMasked
    BY <1>1 DEF TableMasked, Rightly, PlaceOf
  <1> QED BY <1>2, MemInvariant, PTL
=============================================================================
