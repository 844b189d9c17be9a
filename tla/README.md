# aLEAKator in TLA+

aLEAKator verifies masked software and hardware by *mixed-domain simulation*: a
circuit, compiled by Yosys to C++ over a modified cxxrtl runtime, is simulated
with values that are at once concrete, symbolic, annotated with stability, and
annotated with what an observer of the wire may learn (a LeakSet). After every
evaluation a manager decides which wires to verify, submits them to the
external solver verif_msi_pp and reports the leaks of the cycle.

This directory models the logic that makes such a verdict meaningful: the
algebra of values and LeakSets, the memory that holds LeakSets, the memories of
the circuit, the driver that evaluates, verifies, commits and cleans, the
choice of the wires to verify, and the harnesses and programs that decide what
is simulated and measured. Paths are relative to `src/`.

## 1. Inventory

| component | source | state | operations | modules | status |
|---|---|---|---|---|---|
| LeakSet algebra | `libs/lss/lss.cpp` | none | merge, mix, extract, extend, blit, replicate, reduce, shift_*, reg_stabilize, partial_stabilize | `LeakSets` | modelled, proved |
| LeakSet memory | `libs/lss/lss.{h,cpp}` | `ls_mem_`, `ls_keep_mem_` | constructors, `keep`, `clear` | `LeakSetMemory` | modelled, proved |
| Mixed-domain values | `cxxrtl/cxxrtl.h` `value` | data, node, stability, ls | bitwise, arithmetic, shifts, casts, wiring | `MixedValue` | modelled, proved |
| Yosys cells | `cxxrtl/cxxrtl.h` `cxxrtl_yosys` | none | mux, logic_*, reduce_*, comparisons | `MixedValue`, `MixedSim` | modelled, proved |
| Registers | `wire` | curr, next | set, setNode, commit, symb_keep | `MixedSim`, `LeakSetMemory` | modelled, proved |
| Memories | `memory` | data, write_queue, written, funcArrays | update, commit, leak_mem, symb_keep | `MemoryPort`, `AtomicMemory` | modelled, proved |
| Modules and debug items | `module`, `debug_item` | | eval, commit, the items read by the verification | `MixedSim`, `Netlist` | partly |
| Manager, driver | `libs/aleakator/manager.cpp` | steps_, measure, databases, caches, counters | step, begin_measure, end_measure, clean | `Manager` | modelled, proved |
| Manager, order one | same | inputs_of_stabilized_gate_, database_ | build_database, verify, is_secure_* | `Manager`, `Netlist` | partly (word exceptions left out) |
| Manager, higher order | same | database_ho_ | spatial and temporal combinations | `Manager` | modelled, proved |
| Manager, election | same | topology_, mux_structures_ | which wires are verified | `Netlist` | modelled, proved |
| Manager, tracking | same | cached wires, roots | track_parents | `Netlist` | modelled, proved (ending: checked) |
| Manager, netlist parser | same | topology_, mux_structures_, split_wires_ | parse_circuit | `Netlist` | modelled |
| Configuration | `libs/aleakator/configuration.cpp` | options | constructor checks | `Configuration` | modelled |
| Accelerator and gadget harnesses | `accelerators/*/simulate.cpp` | ports, masks | main, prepare_step, get_shares | `TestBench`, `TestBenches` | modelled, proved in part |
| CPU harnesses | `CPUs/*/simulate.cpp` | memory of the core, hooks | load, reset, run, conclude | `CpuBench` | modelled, proved |
| Program setups and masked programs | `CPUs/*/programs/` | variables, symbols | init_implem, hooks; aes_herbst | `Programs`, `MaskedAes`, `Aes` | partly; what is modelled is proved |
| Unit tests, runtime inherited from Yosys, build files, hardware descriptions | `utests`, `cxxrtl/capi`, ... | | | | not modelled |

**Interactions.** A harness sets the inputs of the top module and calls
`Manager::step`. `step` calls `top.eval()` (every cell computes a `value`,
registers get `next`, memories queue writes), then `verify`, which reads all
wires through the debug items (`build_database`), then `top.commit()`, then
`clean`, which marks what the databases hold, asks the top module to mark what
it holds (`symb_keep`) and frees the rest. Program hooks call `begin_measure`
and `end_measure` between steps. Everything runs in one thread; what is hard is
not a schedule of the program but the schedule of the circuit it represents,
and the order in which one cycle's data replaces another's.

**What is hard.** (1) A cell sees its operands at any moment of the cycle, so
stability and leaks must be right for every delay. (2) Verification happens
before the commit, on the *next* values, and compares with the last *verified*
cycle. (3) Pointers to LeakSets are shared between values, cells and databases
of several cycles and freed once a cycle. (4) `step` returns early at four
places and its callers ignore that. (5) Verdicts are cached across cycles,
wires and checks. (6) Only some wires are verified, for reasons that relate the
stability of gates to the text of a netlist. (7) The queued writes of a memory
are applied one by one, in priority order, and foreseen by another function.
(8) A program is given its symbols by writing nodes next to concrete data that
a linker laid out. `PROJECT.json` lists the hazards with their lines.

**What makes each component correct.** Algebra, values, registers: a bit
declared stable has one expression all cycle long, everything a bit shows is
computable from its LeakSet, and the concrete and symbolic sides agree. LeakSet
memory: nothing held is freed, nothing is freed twice, what is not held is
freed. Memories: the writes of a cycle land together, the highest priority
wins. Driver: the leaks reported for a cycle are those of that cycle. Election:
what any wire shows, an elected wire shows. Tracking: it ends, at the roots.
Harnesses: shares are sound, masks fresh, no cycle with a secret unmeasured, and
every run ends. Programs: nodes and data agree, AES is computed and masked.

## 2. Modules

| module | models | extends |
|---|---|---|
| `LeakSets` | the algebra of lss | - |
| `MixedValue` | `value`, the cells, the new value of `wire::commit` | `LeakSets` |
| `MixedSim` | circuits: cells evaluated one by one, registers, commit | `MixedValue` |
| `LeakSetMemory` | allocation, holders, marks, collection | - |
| `AtomicMemory` | abstract: what a memory with prioritised ports promises | - |
| `MemoryPort` | `memory<Width>`, entry by entry | `AtomicMemory` by INSTANCE |
| `Manager` | step, build_database, verify, verify_higher_order, is_secure_*, the measure | - |
| `Netlist` | parse_circuit, init_database, election, track_parents | - |
| `Configuration` | the options and their refusals | - |
| `TestBenches`, `TestBench` | the 26 benches as instruction lists; the machine that runs them around `step` | `Configuration` |
| `Programs`, `CpuBench` | six CPUs and 39 programs; the machine that loads, resets and runs them | - |
| `AesBytes` | bytes as sums of unknowns, the S-box as a table | - |
| `Aes` | abstract: AES-128 without masks, step by step | `AesBytes` |
| `MaskedAes` | the ten masked AES programs | `AesBytes`, `Aes` by INSTANCE |
| `MixedSimProofs`, `LeakSetMemoryProofs`, `MemoryPortProofs`, `ManagerProofs`, `NetlistProofs`, `CpuBenchProofs`, `TestBenchProofs`, `MaskedAesProofs` | theorems | the module named |
| `MC*` | instances for TLC | the module named |

### LeakSets, MixedValue, MixedSim

An expression is the set of valuations of the symbolic inputs in which it is 1.
Two expressions that are equal functions are thereby the same `Node`:
`simplify()` of the external library is taken to be complete. The real one is
not, and then recognises fewer bits as constant or equal: it declares fewer
stable. A word is a sequence of expressions, a LeakSet a sequence of sets of
expressions or `NULL`. Chunks of 32 bits are not represented, so a shift amount
never exceeds the chunks of its operand.

A cell is a word function `F` applied to the concrete data and, valuation by
valuation, to the expressions; what the code writes by hand for each cell, the
stability rule and the collection of leaks, is translated cell by cell, and for
every cell that returns (`bmux`, `demux`, `ctlz`, `bit`, `set_bit` and the
divisions are `assert(false)`). Operands are cast (`zcast`, `scast`, `trunc`) as
the compiled circuits cast them.

`MixedSim` does not fix a netlist. `eval` applies any cell to any registers and
earlier cells, so one run covers every circuit up to the bound. Each operand
has a ghost `shown`, the meaning stability and LeakSets are judged by: a
register shows its old and its new expression, a cell any result of its operands' bits
seen at any expression they show. `shown` is never read by an action.

Choices, each where the code would otherwise abort or where a finding says it
is wrong: two operands with LeakSets have one width where `reduce_and_merge`,
`merge` or `mix` assert it; `mul` is no wider than an operand that leaks (`at()`
would throw); `reduce_xor`, `reduce_xnor`, `eq_ss`, `ne_ss` `le_uu` and `le_ss` take
constants without LeakSet, the only operands for which they do not assert; in
the passing run a mux selector has a constant expression and no leaks, and a
signed shift a stable amount (section 6). Evaluation before the first commit is
left out, since everything is a constant then.

### LeakSetMemory

Pointers without contents. A cycle is a sequence of phases; in `eval` sets
are built, aliased and queued; `BuildDatabase`, `Commit`, `KeepDatabase`,
`KeepState` and `Clear` follow the code, `ExitAtLeak` and `BailOut` are the two
returns that skip `clean`. Copies made by `merge` of one null argument may be
missing from the registry (`copies` in `Allocate`). `Split` are wires whose
database entry is a set of its own, `KeepNext` those whose `next` survives
`symb_keep`. Cells are filled by queued writes; the marks of cells a harness
writes are in `MemoryPort` (`WrittenCovers`).

### AtomicMemory, MemoryPort

A bit holds a symbol with a concrete value, masks are constant sets of bits (the
write enables of the ports are concrete). `PortUpdate`, `HarnessUpdate` and
`Hook` are the ways a cell is written or redirected (a harness that updates a
redirected cell aborts the program), `LeakMem` is what
verification reads, `Abandon` the step that returns between `leak_mem` and the
commit, `CommitEntry` one turn of the loop of `commit`. A ghost `id` ranks the
calls of `update`; `shadow` is the concrete memory of an observer of
`on_update`; neither is read by an action that sets another variable.

`AtomicMemory` says what the circuit relies on: all writes of a cycle land at
the edge, and on each bit the highest priority wins, the latest call among
equals. The refinement mapping lets the edge happen when `commit` begins: during
the loop the abstract content is what the queue will make of the memory.

### Manager

The circuit is open: every step shows any expression, LeakSet and concrete bit
of a given set on every wire, any gates may have applied stability and any
cells may be written. `Secure` stands for the external solver, and depends on the
set and on the number of outputs counted (as for SNI). Ghosts keep the history
of the circuit: `past` is the last committed cycle, `expected` what the report
ought to be, computed from that history without cache or databases, `asked` the
tuples that were submitted at orders above one. A wire is
one bit wide, so word and bit mode coincide and wires split in parts do not
occur (`Netlist` has words); a null LeakSet is the empty set. `EXIT_AT_FIRST_LEAK_`,
which no harness sets, is left out.

### Netlist

A circuit is a list of items with their parts and a list of gates in the order
of the table; `ParseLine` reads one line of that table and `Merge` is the end of
`parse_circuit`, so every carried-over local of the parser is a variable. The
table is the set of its lines, read in a fixed order that nothing is assumed of;
`WiresAssumption` says which names a table may hold, `PartsAssumption` what
`init_database` asserts. At `Merge` the constructor also adds the fused wires to
the split ones (`InParts`): those with an entry in the topology, and those it
expects none of. `Eval` chooses which bits
are stable and the value of the selectors; what a bit shows (`Shown`) follows
from that: a stable bit shows itself alone, a mux the branch its stable selector
chose or both and the selector, another cell all that its inputs show. `WellBuilt`,
`Layered` and `Unmixed` name the circuits the theorem on the election is about
(section 4). `Verify` is `build_database` and the loops of `verify`.
`Track`, `Parent` and `Return` are the recursion of `track_parents`, one call or
one return at a time. Selectors and the public inputs they come from show
nothing (`quiet`), memory cells are known by the name of their memory,
`USE_STABILITY_` is true. The printing of the details changes no state and is
left out.

### Configuration, TestBenches, TestBench

A bench is the list of instructions its `main` executes on the ports (set a
share, a mask, a constant, step, wait for the circuit, begin and end measure);
`TestBench` executes one per action, with the `Manager` reduced to its counters.
The circuit is the cycle at which it signals the end, any of `Latencies`, or
never. Public constants on the ports are left out, and so are the `CONST_EXEC`
builds, which have no secrets. `WellFormed` states what all the benches share and
the theorems need (`BenchesAssumption`, which TLC evaluates on the 26): as many
lanes as shares, mask lanes never driven with a secret, a lane shared by one
instruction only.

### Programs, CpuBench

`CpuBench` goes through `main` of the six simulators: load the image, reset, run
to `_start` (`Unwind`), `init_implem`, run to `_hang` with the hook after each
cycle (`Run`), conclude. A program is what its setup writes (which nodes to
which bytes, under which mask, shifted or not, at once or queued), which symbols
get concrete values, and the window it measures. The core is the environment: it
advances along the route of the program or stays, and may make the pc, the stack
pointer, the fetched instruction or a register the harness forces symbolic
(`Watched`). The harnesses do not stop on the same ones (`checked`): ibex,
coco-ibex and cv32e40p look at the pc and the instruction after the step, aubrac
at the pc only; cortex_m3 looks at the stack pointer, the pc and the instruction
before the step, cortex_m4 at the first two. The linker is the environment too: it
gives the variables any addresses of `Layouts`, of which only that every variable
is aligned and none overlaps another is assumed (`LinkerAssumption`). A
processor that never reaches a place makes its loop end at its bound.

### AesBytes, Aes, MaskedAes

A byte is linear over the field of AES in the unknowns (key, plain text, masks,
outputs of the S-box), hence the set of its terms, each an unknown times a power
of x; `xtime` is multiplication by x modulo the polynomial of AES. The S-box is
uninterpreted: `sbox` remembers one fresh unknown for each input it met, which
is enough to say that two computations agree. The ten copies of the program
differ in whether they erase the key and in the volatile halves of their sums;
each loop body is an action.

`Aes` is the promise: the same cipher on the same bytes without masks, a word of
the key schedule, a substituted byte or an operation of a round at a time. The
refinement mapping takes from every byte the mask its place has at that moment
(`KeyMask`, `StateMask`): the masks the comments of the program document, and
the ones a byte has between two loops that the comments do not speak of. Masking,
the rotation of a word, the volatile halves and the change of masks are stutters.

## 3. Runs

| run | instance | what it shows |
|---|---|---|
| `MixedSim` | `Bits`: two 1-bit registers, 2 inputs, 2 cells among not, and, or, xor, mux. `Words`: registers of 2 and 1 bits, 1 input, 1 cell of every kind with its casts. `Signs`: signed comparisons of 1-bit words. 2 commits each | a stable bit has one expression, its LeakSet is pure, glitches are leaked, concrete and symbolic agree |
| `MixedSimSelector` | three 1-bit registers, 1 mux of any selector | violation, finding 1 |
| `MixedSimSigned` | two 3-bit registers, 1 signed comparison, 1 commit | violation, finding 2 |
| `LeakSetMemory` | 4 addresses, 1 wire that is split and keeps `next`, 1 cell, order one | no dangling pointer, no double delete, exact registry, the invariant of the proof |
| `MemoryPort` | 2 cells of 2 bits, 2 symbols, 2 priorities, at most 3 queued writes, 1 cell a harness may redirect | the queue is sorted, the observer and `written` exact, a single write to a cell is foreseen, the memory implements `AtomicMemory`, commits end |
| `Manager` | `Values` (2 wires, 4 checks), `Memory` (1 wire, 1 cell, exact transitions), `Sni` (a mux, an output, 1 skipped cycle), `Spatial` (3 wires, order 2), `Temporal` (1 wire, 5 cycles, orders 2 and 3) | cache sound, reports exact and final, cycles of a tuple available, every tuple asked |
| `Netlist` | 56 circuits (all 49 of a cell, a selector and two gates, and seven with words, slices, memories, nested muxes, fused wires, feedback), bit and word mode, 1 or 2 cycles, every choice of stable bits | elected wires cover all others, also for transitions; the database keeps its structure; roots exact; tracking ends |
| `NetlistFused` | two gates that drive the two parts of one wire | violation, finding 3 |
| `NetlistSelector` | a mux whose selector is a register | violation, finding 4 |
| `TestBench` | 26 benches, every option, order up to 2, circuits that answer after 0, 3 or 200 cycles (200 stands for never) | shares sound, masks fresh, no secret unmeasured, every run ends |
| `CpuBench` | 6 processors, 39 programs, the variables one after the other from an address 1 modulo 4, in both link orders (`MCLayouts`), masks 0 and 3, an S-box of 4 entries, at most one symbolic register at a time (`AtOnce`) | nodes agree with data, the table is masked, statistics and window exact, every run ends |
| `MaskedAes` | the ten copies, 16 symbolic bytes of key and of plain text, all rounds | bytes masked while measured, the key schedule is that of AES (`KeysExact`), every step is one of AES (`ComputesAes`) or a stutter, the hook answers for the right byte |

*Why the bounds are enough to be interesting.* A glitch needs a register that
changes (two commits: the first puts a symbolic value, the second replaces it)
and a reconvergence (two cells). Two inputs give all sixteen functions of two
variables. Words of two bits meet carries, signs and shifts beyond the word;
signed comparisons need three bits for finding 2 (a sign, a deciding bit and a
lower one). A dangling pointer needs a set that survives one collection and not
the next; addresses are reused in the run, so stale pointers can meet new
objects. Three queued writes to a cell are two of one priority around one of
another. Transitions need two verified cycles, gaps a third; five cycles of one
wire have pairs and triples that are not consecutive. The elections differ by
what drives, selects and reads a bit, which two gates over a shared cell
exhaust; the larger circuits add what two gates cannot have. The latencies are an
answer at once, one after some cycles, and none before any limit. The loop bounds of `CpuBench`
(2 and 7) stand for 5000 and 25000 to 150000: long enough to cross every place
of a route and to stall at any of them. Start address 1 is the one that
misaligns words and lets bytes of two variables share a word.

*Deadlock.* `LeakSetMemory` has no bound and is checked for deadlock. The other
specifications stop: at a bound of the model (`MixedSim`, `Manager`,
`Netlist`), or because the program ends (`TestBench`, `CpuBench`, `MaskedAes`,
and `MemoryPort` once a harness updates a redirected cell); hence
`CHECK_DEADLOCK FALSE`.

*Fairness.* The tool is one thread that waits for nothing, so what has been
called runs to its end. `MemoryPort` assumes weak fairness of the loop of
`commit` (`CommitEntry`, `EndCommit`), `Netlist` of `track_parents`
(`Tracking`), `TestBench` and `CpuBench` of `main` (`Next`). Nothing is assumed
of the circuit or the core: a circuit that never answers is among the latencies
where its bench has a limit, and a core may stall for ever. `TestBench` excludes
only a silent circuit from benches whose loop has no limit: they do not end
then, by design. `MixedSim`, `Manager`, `LeakSetMemory` and `MaskedAes` assume no
fairness and claim no liveness.

*Assumptions on inputs of `Manager`.* `SetupAssumption` is what
`configuration.cpp` enforces (no transitions with SNI or above order one) and
the fact that other properties ignore outputs. The run has
`convergence = {TRUE}`, no `EXIT_AT_FIRST_LEAKING_CYCLE` and a
`CYCLES_TO_VERIFY` beyond its bound: these are the defaults, and no harness
changes the last two.

*Types.* Each module has one `TypeOK`. It is a run's invariant in `MixedSim`,
part of `IInv` in `LeakSetMemory` and proved for both, `MemoryPort` and
`Manager`; in the others it holds and is left out of the runs.

## 4. Proofs

**`MixedSimProofs`**, for any set of valuations, any registers, inputs and number
of cells, and words of any width, from `BoundAssumption`, `CircuitsAssumption`,
`NullAssumption` and `Supported`: `Typed` (`TypeOK`), `Stable`
(`StableBitsHold`), `Leaked` (`GlitchesLeaked`), `Purity` (`StableBitsPure`),
`Concretised` (`ConcreteAgrees`) and `AssertsHold` (`ConstantsAgree`).
`Supported` excludes what findings 1 and 2 and the first observation of section 5
show to be wrong: selectors that are symbolic or leak, unstable amounts of
shifts of either direction, and `lt_ss`, `gt_ss`, `ge_ss` in circuits with words
wider than a bit (`Narrow`: registers of one bit and no cell that joins bits). TLC
evaluates that the circuits of the run `MixedSim` are `Supported` (`MCSupported`).

The invariant `Inv` says of every register and computed cell that it `Shows` only
what is accounted for, of what a register may load that it is `Good`, and that
narrow circuits stay narrow. A value is `Good` if a stable bit leaks its own
expression alone (`Pure`), its data are its expressions in the valuation of the
simulation (`Agrees`), and its expressions are functions of its leaks (`Told`).
What an observer may see of a word during the cycle is a *sight* of it: any
function of the valuation that keeps to the expression in the stable bits and,
bit by bit, to the leaks. Each operation has one lemma `...Sound` that uses
nothing of the circuit: the result is `Good`, and the word function applied to any
sights of the operands is a sight of the result (`Sound1`, `Sound2`, `Sound3`).
Such lemmas compose, which is how operands with casts, comparisons of extended
words, right shifts with a cast result and negated operations follow
(`Compose1`, `Compose2`, `ComposeAfter`). A cell that is `Sound` shows only sights
(`Cell1`, `Cell2`, `Cell3`), since what its operands show are sights of theirs;
`CommitSound` says the same of a register that goes from one value to the next:
a bit is stable only if its two expressions are equal, and leaks both.
The properties are then consequences of `Inv`. A lemma cannot have a word function
as its parameter, so word functions become tables, functions on the words of a
width (`Table1`, `Table2`); folds do not occur, except in the product, of which
only that it is a function of the words is needed. `StableBitsHold` alone is not
inductive: that a cell with one stable operand is stable (an AND with a stable 0)
needs `Agrees` and the constancy of the node, and a LeakSet is complete only
because stable bits are `Pure`.

**`LeakSetMemoryProofs`**, for any sets of addresses, wires, split wires and
cells, and any order of verification, from `PtrAssumption`, `SplitAssumption`
and `OrderAssumption`: `Inductive` (`Spec => []IInv`), `TypeCorrect`,
`NeverDangling`, `NeverDeletedTwice`, `MemoryDatabaseLive`, and `ExactRegistry`
for the action property `RegistryIsExact`.

`NoDangling` is not inductive: `Clear` preserves it only if all holders are
marked when it runs. The marks are collected in two steps from three places, of
which one is incomplete on purpose: `memory::symb_keep` marks only written
cells and nobody marks queued writes. `IInv` therefore says what is marked in
each phase (nothing, then `DatabaseHeld`, then exactly `Held`), that a cell
holds a pointer only if it is in `written`, that so is every queued write, that
the write queue is empty while `clean` runs, and that past cycles are held for
higher orders only. `ls_keep_mem = Held` (and not only a superset) is what
makes the registry exact. Each action has a lemma; `ExitAtLeak` and `BailOut`
share one.

**`MemoryPortProofs`**, for any cells, bits, symbols, priorities and any number
of queued writes, from `DomainAssumption`: `QueueSorted`, `Refinement`
(`Spec => Atomic`), `ObserverFaithful` (`ObserverExact` and `NoSilentChange`),
`WrittenFaithful` (`WrittenCovers`) and `ForeseenExact` (`Foreseen`). The
refinement rests on the queue being sorted by priority and, among equals, by
call: then the last entry that covers a bit is the one `AtomicMemory` chooses,
and removing the head after applying it leaves that choice as it is. That an
insertion keeps the queue sorted, and that a non-empty set of positions has a
last one, are lemmas. `Foreseen` needs that what `leak_mem` computed stays what
the queue will write until the commit has applied it.

**`ManagerProofs`**, for any circuit, configuration and verification function:
`TypeCorrect`, `CacheAlwaysSound` (a cached verdict is the one a verification
would give wherever the entry may be looked up again), and, from the assumption
`Defaults` (steps converge, no exit at a leaking cycle, no end of the
verification before the circuit's), `ReportsAlwaysExact` and
`ReportsAlwaysKept`. `Defaults` is needed: without it a step returns before it
is counted, a cycle number is used twice and a report is overwritten.
`CacheInv` (types, cache, when the measure began) is inductive by itself. For
the reports, `ReportInv` ties the driver to the history: `steps` is `commits`,
`begin_cycle` is `began`, and once a cycle was verified the databases hold
exactly the wires and the gate inputs of `past`, while before they are
unfilled. `KeptInv` adds that no report is for a cycle still to come. The two
orders have separate lemmas, since only order one compares with a past cycle.

`HistoryAvailable` (`CyclesAvailable`) assumes `NoneSkipped`, no cycle is
skipped where cycles are combined: section 5 says what happens otherwise. Its
invariant is that `database_ho_` is as long as the measure at least.
`EveryTupleAlwaysAsked` (`EveryTupleAsked`, at any order and any number of wires
and cycles) assumes both. A step asks for the combinations that contain
something of the present cycle; `SpatialAsks` and `TemporalAsks` show that these
are enough: a tuple asked for by the property has a latest cycle, whatever else
it has is from cycles then in the history, and `GrowsTo` extends a smaller set to
one of exactly the size that is enumerated, of which it is a subset.

**`NetlistProofs`**, for any netlist whose table names wires
(`WiresAssumption`) and any order of its lines: `DatabaseFixed`
(`StructureFixed`), whose invariant is that every map of the parser, hence
everything that is ever elected or climbed to, holds known names only; and
`RootsAlwaysExact` (`RootsExact`), for any circuit, cycles in it included. The
invariant of the second is that of a depth-first search: what is in the cache
is reached, everything above a cached wire is in the cache or is still to do in
a frame of the stack, and a wire that has returned is a root if and only if
nothing leaking is above it. `Reached` is defined without recursion, as the
least set closed under `Above`.

The election, in the same module: `ElectionCovers` (`Covered`) and
`ElectionCoversTransitions` (`TransitionsCovered`), for any number of gates of
any width, any choice of stable bits and any number of cycles, when every setup
is `Eligible`. A setup is, if it has `FORCE_VERIFY_ALL` (and verifies bits, or no
wire is a register in one bit and computed in another), or if its circuit is
`Built`: no fused wire and one gate to a wire (finding 3), muxes with a public
selector of one bit that is no register (finding 4), logic that is read in the
end by a register or an output, and no combinational cycle. Of the 49 small
circuits of the run 45 are `Built`, and all the others it takes but `Loop`, which is
eligible where it has `FORCE_VERIFY_ALL`; TLC evaluates that (`MCWellBuilt`, `MCUnmixed`), and covers the
four others. The argument: what is shown by a bit that is not elected is
shown by a bit that reads it, because a gate that did not apply stability
shows all its inputs do, while the inputs of one that did are elected, the
branch its selector did not choose through `mux_structures_`. Among the bits for
which no elected bit tells, the one computed last would be read by a register or
an output, which are always elected, or by a bit for which one does (`Deepest`,
`BitsTold`, `WordsTold`). For transitions the same reader must do in both cycles:
that is why the inputs of the gates that applied stability in the cycle before
are elected too (`Flow`).

**`CpuBenchProofs`**, for the programs of any of the six processors, any bounds and
any layouts, from `CpuBenchAssumption`, `CpusAssumption` and `LinkerAssumption`:
`StatisticsExact` (`StatExact`), `WindowExact` (`MeasureWindow`),
`NodesWorthTheirData` (`NodesAgree`) and, in a build with assertions, `TableMaskedRight` (`TableMasked`). Without
assertions the last one is false: a table of bytes that is not on a word boundary
is written at the wrong places. `BenchInv` says what each part of `main` may
find: before the program runs nothing is measured or redirected; while
it runs, the place of the pc on the route says whether the cycle is measured, and
the cycles verified are those since the measure began.

For the memory, `WellSet` is what the proofs need of a program: its variables are
distinct, what a write puts in a variable fits in it, the node of a written byte
is worth the byte in the concrete values the setup declares, and the table is a
table. `ProgramsSet` proves it of every program of the six processors, one lemma
to a setup. `WrittenRight` says what a byte is after the queued writes: that of
the last write whose mask covers it, hence of its own variable, since two
variables that share a word have disjoint masks (`OwnWrite`), and otherwise what
the loader put there. `MemInv` adds when: before `init_implem` memory is as
loaded, after it the writes are queued, one cycle later they are applied, and
nothing else writes.

**`MaskedAesProofs`**, for any set of the ten copies, with an uninterpreted S-box:
`NothingUnmasked` (`Masked`), `HookAnswersExactly` (`HookExact`),
`RoundKeysExact` (`KeysExact`) and `MaskedComputesAes` (`Spec => ComputesAes`, the
refinement of `Aes`). One invariant, `MaskInv`, carries them: the counters of the
loops tell how often the table was read (`Counters`), every byte without the mask
of its place is `Bare`, free of masks (`Bytes`), the word the key schedule works
on is a byte of AES under a mask that depends on the loop (`Temp`), and the
scratch bytes and the last bytes written are `Hidden` (`Covering`). `Masked` is not
inductive: that a sum of two hidden bytes is hidden depends on their masks not
cancelling, so the invariant says which masks they are. A bare byte under a
nonempty sum of masks is hidden (`HiddenUnder`), and the sums that occur are
nonempty (`MasksHide`). Each action has a lemma that gives both its half of the
invariant and the step of `Aes` it is; that columns and their masks are mixed
separately is the linearity of `xtime` (`XtimeSum`, `MixedColumn`). `RoundKeysExact`
needs besides that a table which answered for an input keeps its answer
(`KeyInv`, `Grows`).

**`TestBenchProofs`**, for any benches that satisfy `BenchesAssumption`, any
number of shares and any latency: `SharesAlwaysSound` (`SharesSound`) and, when
every step converges, `MasksAlwaysFresh` (`FreshMasks`; a step that does not
converge is not counted and its masks are drawn again under the same number).
`HeldInv` says what every lane holds: nothing, masks, or the share that its
instruction gave it. That fewer lanes than shares add up to nothing about a
secret without a mask is a counting argument: lanes that sum to a secret contain
the lane of its masked value, miss another lane of the same instruction, and the
mask of that one is in no further lane, so it stays in the sum.

**Only model-checked**, and why.

* Liveness (`CommitEnds`, `TrackingEnds`, `Ends`): under fairness.
* `SecretsMeasured` of `TestBench`: it says that the instructions of each `main`
  come in the right order. As a hypothesis on the benches it would be the
  property itself; the run goes through all of them.
* What `Supported` leaves out of `MixedSimProofs` is neither proved nor in a
  passing run (section 5); the plan says what is left of it.

## 5. Findings

1. `GlitchesLeaked` fails for a mux with a symbolic or leaking selector:
   unless the result is constant, `symb_mux` drops the leaks of the selector
   (`cxxrtl.h:2416-2421`). Run `MixedSimSelector`.
2. `ConstantsAgree` fails for `lt_ss` and `gt_ss` (`cxxrtl.h:3416`, `3331`): for
   operands of different signs the bit below the sign decides too, so a
   symbolic comparison may be the wrong constant. `ge_ss` is the negation of
   `lt_ss`. `debug_assert` would refuse such a value. Run `MixedSimSigned`.
3. `Covered` fails when the parts of a fused wire are driven by different gates:
   `topology_[owire] = iwires` keeps the inputs of the last one
   (`manager.cpp:1317`), so those of a gate that applied stability may not be
   elected. Run `NetlistFused`.
4. `Covered` fails for a mux whose selector is a register: its debug item pairs
   the current data with the stability of the next value (`cxxrtl.h:2091`), so
   the dead branch is elected for the wrong cycle. Run `NetlistSelector`.

**Observed, without a run of their own.** These hold of the code as modelled, but no
document promises otherwise, or the bounds of a run exclude them:

* `StableBitsHold` fails for a mux with a stable symbolic selector: the
  stability of the concretely chosen branch is kept although the expression
  depends on both (`cxxrtl.h:2402`); likewise for `shift_us` and `shift_ss` with
  a constant but unstable amount, whose direction is read concretely.
  `StableBitsPure` fails for a mux whose result is constant and keeps the leaks of
  its selector. `MCSelectors` shows both for the mux.
* Sets built by the implicit copy constructor (`lss.cpp:25`) are in no registry
  and never freed.
* A skipped cycle counts as leaking (`manager.cpp:368-371`, `93-97`; `MCSkip`),
  and after skipped cycles a temporal combination asks for a cycle the history
  lacks, which throws (`CyclesAvailable` with `MCTemporalSkip`).
* With two writes to one cell, `leak_mem` computes both on the cell as it is,
  hence the restriction in `Foreseen`.
* An order of 0 is refused by an assertion only (`OrderAtLeastOne` with
  `Asserts = FALSE`, a Release build).
* Shifts by more than the chunks of the word return an unstable 0 without
  leaks; `mul` copies more stability words than its result has when it is
  narrower by a chunk (`cxxrtl.h:1179-1182`) and throws when it is wider than an
  operand that leaks; `eq_uu` and `ne_uu` read the stability of the operand
  before its extension; `merge`, `mix` and `reduce_and_merge` assert equal
  sizes, which cells of unequal operands do not give.
* The masked AES lists its plain text by rows, its key and ciphered text by
  columns; the plain text of the tests is 0, which hides it. `Masked` is about
  the values in a place, not about transitions from one to the next.
* The harness of cortex_m4 prints "PC, SP or fetch instruction is symbolized"
  (`CPUs/cortex_m4/simulate.cpp:89`) but does not look at the instruction: that
  line is commented out (`:87`, "TODO: Put it back maybe ?"). aubrac never did
  (`CPUs/aubrac/simulate.cpp:82`).
* The names of `EXCEPTIONS_WORD_VERIF_` are erased from `database_` while
  `split_wires_` and the topology may still name them; `operator[]` then inserts
  an empty entry.

## 6. What the passing runs leave out

* `MixedSim`: symbolic, leaking or unstable mux selectors (finding 1) and
  unstable amounts of signed shifts (`AnySelector = FALSE`); signed `lt`, `gt`
  and `ge` of symbolic words wider than a bit (finding 2); words of more than
  one chunk.
* `Netlist`: fused wires driven by several gates and register selectors are in
  the violation runs (findings 3 and 4), except `Loop`, a fused wire one part of
  which is computed from the other: it runs in both modes, with `FORCE_VERIFY_ALL`
  and without (in words because `InParts` elects the fused wires).
* `Manager`: skipped cycles with temporal combinations, and what `Defaults`
  excludes.
* `LeakSetMemory`: orders above one, which the theorems cover.

## 7. Not modelled

* The runtime inherited from Yosys (`cxxrtl_capi`, `cxxrtl_replay.h`,
  `cxxrtl_vcd.h`, `cxxrtl_time.h`): waveforms and their replay are third-party
  code and no part of a verdict.
* Programs in assembly other than the variables their setups use (`secmult`,
  `dom_and`, ...): the core that executes them is the environment.
* The hardware descriptions: circuits given to the tool. `MixedSim` and
  `Netlist` take every small circuit instead.
* Unit tests and build files: no behaviour of the tool; the tests were read as
  documentation.
* The hierarchy of modules and the debug evaluation of cxxrtl; the printing of
  leaks and details; result files.
* `debug_items` beyond the lookup of the wires the verification names.
* `EXCEPTIONS_WORD_VERIF_`: the signals the harnesses of coco-ibex and aubrac
  list to have words verified in parts.

## 8. Plan

Done: every module of section 2 and the theorems of section 4. Next, in this
order:

1. Order one with the signals of `EXCEPTIONS_WORD_VERIF_` in `Netlist`, and the
   divisibility of their widths.
2. `TypeOK`, `ConcreteAgrees` and `ConstantsAgree` for muxes of any selector and
   unstable shift amounts, from the parts of `Good` that do not speak of leaks.
