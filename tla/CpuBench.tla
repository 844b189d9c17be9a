------------------------------- MODULE CpuBench -------------------------------
(***************************************************************************)
(* The harness of a CPU (CPUs/*/simulate.cpp): load a program, reset the   *)
(* core, run it to _start, let the program's init_implem give symbols to   *)
(* its memory, run it to _hang calling its hook after every cycle, then    *)
(* conclude and print the statistics.                                      *)
(*                                                                         *)
(* The core and the program are the environment: after a step the pc is    *)
(* where it was or at the next place of the program's route, and the pc,   *)
(* the stack pointer, the fetched instruction or a register the harness    *)
(* forces may have become symbolic.  The linker is part of it too: it      *)
(* chose the addresses.                                                    *)
(***************************************************************************)
EXTENDS Programs, FiniteSets, FiniteSetsExt

CONSTANTS
  Cpus,         \* records of Programs
  InitBound,    \* bound of the loop that waits for _start (5000)
  RunBound,     \* ... and for _hang (25000, 50000 or 150000)
  Layouts(_),   \* the addresses the linker may give to the variables of a program
  Masks,        \* concrete values of the variable m
  AtOnce,       \* bound of the registers that are symbolic at one time
  Asserts       \* FALSE in a Release build

ASSUME CpuBenchAssumption ==
  /\ InitBound \in Nat /\ RunBound \in Nat /\ AtOnce \in Nat
  /\ Masks \subseteq 0 .. TableSize - 1 /\ 0 \in Masks /\ Asserts \in BOOLEAN

VARIABLES
  cpu, program, address, mask,  \* fixed: mask is the value of the variable m
  phase, i,          \* the statement main() is in, and the counter of its loop
  at,                \* where the pc is on the route of the program
  symbolic,          \* of the registers of Watched, those that are symbolic
  cells,             \* memory: for each byte, its node and its data
  write_queue,       \* the writes init_implem queued
  hooked,            \* the bytes whose reads are redirected (funcArrays)
  symbol_to_conc_,
  steps, measure,    \* of the Manager
  shown,             \* what stat() printed
  verified           \* ghost: measured cycles

fixed == << cpu, program, address, mask >>
vars == << fixed, phase, i, at, symbolic, cells, write_queue, hooked, symbol_to_conc_, steps,
           measure, shown, verified >>

-----------------------------------------------------------------------------
(* The linker                                                              *)

AlignUp(a, n) == ((a + n - 1) \div n) * n

VarsOf(p) == {p.vars[j] : j \in DOMAIN p.vars}

\* Every variable is aligned, and no two of them overlap
Placement(p, map) ==
  /\ \A v \in VarsOf(p) : map[v.name] \in Nat /\ map[v.name] % v.align = 0
  /\ \A v, w \in VarsOf(p) :
       v.name # w.name =>
         map[v.name] + v.size <= map[w.name] \/ map[w.name] + w.size <= map[v.name]

ASSUME CpusAssumption == Cpus \subseteq AllCpus

ASSUME LinkerAssumption ==
  \A c \in Cpus : \A p \in c.programs : \A map \in Layouts(p) : Placement(p, map)

VarOf(name) == CHOOSE v \in VarsOf(program) : v.name = name

\* Program::get_index, in bytes, get_position and get_mask
Index(name) == address[name] - (address[name] % 4)
get_position(name) == address[name] % 4
\* (mutant: the mask is not moved to the position of the variable)
MaskUnshifted(name) == {k \in 0 .. 3 : k < VarOf(name).size}
get_mask(name) ==
  {k \in 0 .. 3 : get_position(name) <= k /\ k < get_position(name) + VarOf(name).size}

\* Every byte of the words the program's variables are in
Bytes4(p, map) ==
  UNION {(map[v.name] - (map[v.name] % 4)) .. (AlignUp(map[v.name] + v.size, 4) - 1) : v \in VarsOf(p)}
\* What the loader put there: constants
LoadedByte(p, map, b) ==
  {<< "c", v.name, b - map[v.name] >> :
     v \in {v \in VarsOf(p) : b \in map[v.name] .. map[v.name] + v.live - 1}}
Loaded(p, map) ==
  [b \in Bytes4(p, map) |-> [node |-> LoadedByte(p, map, b), data |-> LoadedByte(p, map, b)]]

-----------------------------------------------------------------------------
(* main()                                                                  *)

Route(p) ==
  IF p.window = "init" THEN << "boot", "_start", "body", "_hang" >>
  ELSE << "boot", "_start", "keys", "start_analysis", "body", "end_analysis", "tail", "_hang" >>
Hang == Len(Route(program))
Place == Route(program)[at]

Init ==
  /\ cpu \in Cpus /\ program \in cpu.programs
  /\ address \in Layouts(program) /\ mask \in Masks
  \* the other programs have no table
  /\ program.table = "none" => mask = 0
  /\ phase = "load" /\ i = 0 /\ at = 1 /\ symbolic = {}
  /\ cells = Loaded(program, address) /\ write_queue = << >> /\ hooked = {} /\ symbol_to_conc_ = << >>
  /\ steps = 0 /\ shown = << >> /\ verified = 0
  /\ measure = [started |-> FALSE, ended |-> FALSE, begin_cycle |-> 0, end_cycle |-> 0]

load ==
  /\ phase = "load"
  \* the name on the command line is one of the programs, or not
  /\ phase' \in {"reset", "refused"}
  /\ UNCHANGED << fixed, i, at, symbolic, cells, write_queue, hooked, symbol_to_conc_, steps,
                  measure, shown, verified >>

Measuring == measure.started /\ ~measure.ended

\* The bytes after the writes of a queue, the last one first
Written(queue) ==
  [b \in DOMAIN cells |->
     LET hits == {n \in DOMAIN queue : b - queue[n].index \in queue[n].mask}
     IN IF hits = {} THEN cells[b]
        ELSE LET w == queue[Max(hits)]
             IN [node |-> w.node[b - w.index], data |-> w.data[b - w.index]]]

\* prepare_step: the clock, and Manager::step.  Its result is ignored.
step ==
  /\ cells' = Written(write_queue) /\ write_queue' = << >>
  /\ steps' = steps + 1
  /\ verified' = IF Measuring THEN verified + 1 ELSE verified
  /\ UNCHANGED << fixed, hooked, symbol_to_conc_, shown >>

Reset ==
  /\ phase = "reset" /\ step
  /\ IF i + 1 = cpu.resets THEN phase' = "unwind" /\ i' = 0 ELSE phase' = phase /\ i' = i + 1
  /\ UNCHANGED << at, symbolic, measure >>

\* One turn of the loop that waits for _start
Unwind ==
  /\ phase = "unwind" /\ i < InitBound /\ step
  /\ i' = i + 1
  /\ at' \in {at, at + 1, Hang}
  /\ phase' = CASE Route(program)[at'] = "_start" -> "init"
                [] Route(program)[at'] = "_hang"  -> "failed"
                [] OTHER -> "unwind"
  /\ UNCHANGED << symbolic, measure >>

\* Unwinding did not lead to crossing the _start symbol
UnwindFailed ==
  /\ phase = "unwind" /\ i = InitBound
  /\ phase' = "failed"
  /\ UNCHANGED << fixed, i, at, symbolic, cells, write_queue, hooked, symbol_to_conc_, steps,
                  measure, shown, verified >>

-----------------------------------------------------------------------------
(* init_implem                                                             *)

Shift(node, n) == [k \in 0 .. 3 |-> IF k >= n THEN node[k - n] ELSE {}]
MaskOf(w) == CASE w.mask = "word" -> 0 .. 3 [] w.mask = "half" -> 0 .. 1 [] OTHER -> get_mask(w.var)
\* An update: the word as it was read, under its new node
Update(w) ==
  LET index == Index(w.var) + 4 * w.word
  IN [index |-> index, mask |-> MaskOf(w),
      node |-> Shift(w.node, IF w.shifted THEN get_position(w.var) ELSE 0),
      data |-> [k \in 0 .. 3 |-> cells[index + k].data]]

\* i ^ m on the bits of an index of the table
Xor(n, m) == (((n % 2) + (m % 2)) % 2) + 2 * (((n \div 2) + (m \div 2)) % 2)
\* sboxp[n ^ m] = sbox[n] ^ mp (mutant: as if m were zero)
LineUnmasked(n) == n
Line(n) == Xor(n, mask)
TableUpdate(n) ==
  LET bytes == IF program.table = "words" THEN 4 ELSE 1
      entry == address["sboxp"] + bytes * Line(n)
      pos   == IF program.table = "words" THEN 0 ELSE Line(n) % 4
      byte(e) == [k \in 0 .. 3 |-> IF k = pos THEN e ELSE {}]
  IN [index |-> Index("sboxp") + 4 * ((bytes * Line(n)) \div 4), mask |-> {pos},
      node |-> byte({<< "t", n >>, << "s", "aes_mp", 0 >>}),
      data |-> byte({<< "t", n >>, << "c", "mp", 0 >>})]
Table == IF program.table = "none" THEN << >> ELSE [n \in 1 .. TableSize |-> TableUpdate(n - 1)]

Updates == Table \o [n \in DOMAIN program.writes |-> Update(program.writes[n])]
\* (mutant: the size is taken for a number of words)
HookedWords == Index("sboxp") .. Index("sboxp") + 4 * VarOf("sboxp").size - 1
HookedRange == Index("sboxp") .. Index("sboxp") + VarOf("sboxp").size - 1

\* The assertions of init_implem, and of get_mask
AssertionsHold ==
  /\ program.table # "none" => get_position("sboxp") = 0 /\ get_position("pt") = 0 /\ get_position("key") = 0
  /\ \A n \in DOMAIN program.writes :
       LET w == program.writes[n]
       IN w.mask = "symbol" => get_position(w.var) + VarOf(w.var).size <= 4

\* memory::update aborts on a plain index inside funcArrays: the table is
\* registered once all is written (mutant: before)
RedirectedFirst == IF program.table = "none" THEN {} ELSE HookedRange
Redirected == hooked

init_implem ==
  /\ phase = "init"
  /\ IF Asserts /\ ~AssertionsHold THEN
       /\ phase' = "asserted"
       /\ UNCHANGED << cells, write_queue, hooked, symbol_to_conc_, measure >>
     ELSE IF \E n \in DOMAIN Updates : Updates[n].index \in Redirected THEN
       /\ phase' = "aborted"
       /\ UNCHANGED << cells, write_queue, hooked, symbol_to_conc_, measure >>
     ELSE
       /\ phase' = "run"
       /\ write_queue' = IF program.at_once THEN << >> ELSE Updates
       /\ cells' = IF program.at_once THEN Written(Updates) ELSE cells
       /\ hooked' = IF program.table = "none" THEN {} ELSE HookedRange
       /\ symbol_to_conc_' = program.conc
       /\ measure' = IF program.window = "init"
                     THEN [measure EXCEPT !.started = TRUE, !.begin_cycle = steps] ELSE measure
  /\ i' = 0
  /\ UNCHANGED << fixed, at, symbolic, steps, shown, verified >>

-----------------------------------------------------------------------------
(* The loop that runs the program                                          *)

\* The registers the step may make symbolic, whether the harness of this CPU
\* looks at them or not
Watched == {"pc", "sp", "instr"} \union cpu.forced

\* hook_implem (mutant: the window opens one place too late)
HookLate(place) ==
  IF program.window = "init" THEN measure
  ELSE IF place = "body" /\ ~measure.started THEN [measure EXCEPT !.started = TRUE, !.begin_cycle = steps']
  ELSE IF place = "end_analysis" /\ Measuring THEN [measure EXCEPT !.ended = TRUE, !.end_cycle = steps']
  ELSE measure
hook_implem(place) ==
  IF program.window = "init" THEN measure
  ELSE IF place = "start_analysis" /\ ~measure.started
    THEN [measure EXCEPT !.started = TRUE, !.begin_cycle = steps']
  ELSE IF place = "end_analysis" /\ Measuring THEN [measure EXCEPT !.ended = TRUE, !.end_cycle = steps']
  ELSE measure

\* The harness stops on a symbolic register it checks, and makes those it
\* forces constant before the step
Trap(regs) == regs \intersect cpu.checked # {}
Forced(regs) == regs \ cpu.forced

Run ==
  /\ phase = "run" /\ i < RunBound
  /\ IF cpu.check_first /\ Trap(Forced(symbolic)) THEN
       /\ phase' = "trapped"
       /\ UNCHANGED << fixed, i, at, symbolic, cells, write_queue, hooked, symbol_to_conc_, steps,
                       measure, shown, verified >>
     ELSE
       /\ step
       /\ i' = i + 1
       /\ at' \in {at, at + 1}
       /\ symbolic' \in {regs \in SUBSET Watched : Cardinality(regs) <= AtOnce}
       /\ IF ~cpu.check_first /\ Trap(symbolic') THEN phase' = "trapped" /\ UNCHANGED measure
          ELSE /\ measure' = hook_implem(Route(program)[at'])
               /\ phase' = IF at' = Hang THEN "conclude" ELSE "run"

\* Stopped before reaching the end symbol (mutant: one turn past the bound)
PastBound == RunBound + 1
LastTurn == RunBound

RunFailed ==
  /\ phase = "run" /\ i = LastTurn
  /\ phase' = "failed"
  /\ UNCHANGED << fixed, i, at, symbolic, cells, write_queue, hooked, symbol_to_conc_, steps,
                  measure, shown, verified >>

\* conclude_implem, and stat()
conclude_implem ==
  /\ phase = "conclude"
  /\ measure' = IF program.window = "init" /\ Measuring
                THEN [measure EXCEPT !.ended = TRUE, !.end_cycle = steps] ELSE measure
  /\ shown' = IF measure'.started /\ measure'.ended
              THEN << measure'.end_cycle - measure'.begin_cycle >> ELSE << "nothing" >>
  /\ phase' = "done"
  /\ UNCHANGED << fixed, i, at, symbolic, cells, write_queue, hooked, symbol_to_conc_, steps, verified >>

Next ==
  \/ load \/ Reset \/ Unwind \/ UnwindFailed \/ init_implem \/ Run \/ RunFailed \/ conclude_implem

\* main() is one thread
Spec == Init /\ [][Next]_vars /\ WF_vars(Next)

-----------------------------------------------------------------------------
Stopped == phase \in {"refused", "failed", "asserted", "aborted", "trapped", "done"}

TypeOK ==
  /\ phase \in {"load", "reset", "unwind", "init", "run", "conclude"} \union
               {"refused", "failed", "asserted", "aborted", "trapped", "done"}
  /\ at \in 1 .. Hang /\ symbolic \subseteq Watched /\ hooked \subseteq DOMAIN cells
  /\ verified \in 0 .. steps /\ measure.begin_cycle <= steps /\ measure.end_cycle <= steps

\* What a node is worth once its symbols have their concrete values: the
\* atoms that an odd number of its own stand for
ValueOf(conc, a) == IF a \in DOMAIN conc THEN conc[a] ELSE {a}
WorthIn(conc, node) ==
  {x \in UNION {ValueOf(conc, a) : a \in node} :
     Cardinality({a \in node : x \in ValueOf(conc, a)}) % 2 = 1}
Worth(node) == WorthIn(symbol_to_conc_, node)

\* Every byte of memory whose symbols all have a concrete value carries a node
\* that is worth its data, wherever the linker put the variables and however
\* many of them share a word: the verdict of conclude_implem, which compares
\* the two on the results, says something about the program.
NodesAgree ==
  \A b \in DOMAIN cells :
    (\A a \in cells[b].node : a[1] = "s" => a \in DOMAIN symbol_to_conc_) => Worth(cells[b].node) = cells[b].data

\* The program's variables keep their data: giving them symbols changes no
\* value, except in the table, which then holds the masked S-box at the masked
\* places.
TableMasked ==
  phase \in {"run", "conclude", "done"} /\ write_queue = << >> =>
    \A b \in DOMAIN cells :
      IF b \in hooked
      THEN LET n == IF program.table = "words" THEN (b - address["sboxp"]) \div 4 ELSE b - address["sboxp"]
           IN program.table = "bytes" \/ (b - address["sboxp"]) % 4 = 0 =>
                cells[b].data = {<< "t", Xor(n, mask) >>, << "c", "mp", 0 >>}
      ELSE cells[b].data = LoadedByte(program, address, b)

\* A program that masks its own data is measured exactly from start_analysis
\* to end_analysis, one that is given shares from the first cycle that sees
\* them to the last.
MeasureWindow ==
  [][steps' # steps =>
       (verified' # verified) =
         IF program.window = "init" THEN phase = "run" ELSE Place \in {"start_analysis", "body"}]_vars

\* Setting up never trips over its own redirection, and the statistics are
\* those of the measured cycles.
StatExact ==
  /\ phase # "aborted"
  /\ phase = "done" => shown = << verified >>

\* Every run ends, whatever the core does
Ends == <>Stopped
=============================================================================
