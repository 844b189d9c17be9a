--------------------------- MODULE LeakSetMemory ---------------------------
(***************************************************************************)
(* Who owns a LeakSet.  libs/lss keeps every constructed LeakSet in        *)
(* ls_mem_ and frees them once a cycle, in Manager::clean: the manager and *)
(* the module mark what they still hold with keep(), then clear() deletes  *)
(* the rest.  Pointers are copied freely by the value operations           *)
(* (an extension to the same width returns its argument), so a pointer may *)
(* be held by registers, memory cells and databases at the same time.      *)
(*                                                                         *)
(* One cycle of Manager::step is the sequence of phases                    *)
(*   eval -> (build_database) -> commit -> keep database -> keep state     *)
(*        -> clear -> eval,                                                *)
(* or is left half-way: step returns after a verification that found leaks *)
(* (EXIT_AT_FIRST_LEAKING_CYCLE_) and after a commit that would need a     *)
(* delta cycle.  The harnesses then call step again.                       *)
(***************************************************************************)
EXTENDS Naturals, FiniteSets

CONSTANTS Ptr,          \* addresses
          NULL,
          Wires,        \* registers, each with a database entry
          KeepNext,     \* the wires whose next is kept (inputs, outputs, constants)
          Split,        \* the wires made of several parts: build_database merges them
          Index,        \* memory cells
          HigherOrder   \* config_.ORDER_VERIF_ > 1

ASSUME PtrAssumption == NULL \notin Ptr
ASSUME SplitAssumption == KeepNext \subseteq Wires /\ Split \subseteq Wires
ASSUME OrderAssumption == HigherOrder \in BOOLEAN

VARIABLES
  phase,
  alive,        \* allocated and not deleted
  ls_mem,       \* LeakSet::ls_mem_
  ls_keep_mem,  \* LeakSet::ls_keep_mem_
  curr, next,   \* wire.curr.ls, wire.next.ls
  data,         \* memory cells
  write_queue,  \* queued writes
  written,      \* memory.written
  db0, db1,     \* database_[0], database_[1]
  db_mem,       \* the pointers of database_memory_
  db_ho         \* the pointers of database_ho_

heap == << alive, ls_mem, ls_keep_mem >>
state == << curr, next, data, write_queue, written >>
database == << db0, db1, db_mem, db_ho >>
vars == << phase, heap, state, database >>

PtrOrNull == Ptr \union {NULL}
\* Mutant of Pointers: null pointers are marked too
PointersWithNull(f) == {f[x] : x \in DOMAIN f}
Pointers(f) == {f[x] : x \in DOMAIN f} \ {NULL}
QueueHeld == {w.ls : w \in write_queue} \ {NULL}

StateHeld == Pointers(curr) \union Pointers(next) \union Pointers(data)
DatabaseHeld == Pointers(db0) \union Pointers(db1) \union db_ho

\* What the program may still dereference
Held == StateHeld \union QueueHeld \union DatabaseHeld

Phases == {"eval", "verify", "keep_database", "keep_state", "clear"}

TypeOK ==
  /\ phase \in Phases
  /\ alive \subseteq Ptr /\ ls_mem \subseteq Ptr /\ ls_keep_mem \subseteq Ptr
  /\ curr \in [Wires -> PtrOrNull] /\ next \in [Wires -> PtrOrNull]
  /\ data \in [Index -> PtrOrNull]
  /\ write_queue \subseteq [index : Index, ls : PtrOrNull]
  /\ written \subseteq Index
  /\ db0 \in [Wires -> PtrOrNull] /\ db1 \in [Wires -> PtrOrNull]
  /\ db_mem \subseteq Ptr /\ db_ho \subseteq Ptr

Init ==
  /\ phase = "eval"
  /\ alive = {} /\ ls_mem = {} /\ ls_keep_mem = {}
  /\ curr = [w \in Wires |-> NULL] /\ next = [w \in Wires |-> NULL]
  /\ data = [i \in Index |-> NULL]
  /\ write_queue = {} /\ written = {}
  /\ db0 = [w \in Wires |-> NULL] /\ db1 = [w \in Wires |-> NULL]
  /\ db_mem = {} /\ db_ho = {}

-----------------------------------------------------------------------------
(* Allocation.  The three constructors of LeakSet register the new object; *)
(* merge() of one null argument goes through the implicit copy             *)
(* constructor, which does not.                                            *)

Allocate(new, copies) ==
  /\ new \intersect alive = {}
  /\ copies \subseteq new
  /\ alive' = alive \union new
  /\ ls_mem' = ls_mem \union (new \ copies)
  /\ UNCHANGED ls_keep_mem

\* Each place of made gets null or an object of its own
Distinct(made) ==
  \A x, y \in DOMAIN made : x # y => made[x] = NULL \/ made[x] # made[y]

-----------------------------------------------------------------------------
(* eval(): temporaries are built, registers get their next value and       *)
(* memory writes are queued.                                               *)

Readable == StateHeld \union {NULL}

Temporary ==
  /\ phase = "eval"
  /\ \E p \in Ptr : \E copies \in SUBSET {p} : Allocate({p}, copies)
  /\ UNCHANGED << phase, state, database >>

EvalAlias(w) ==
  /\ phase = "eval"
  /\ \E p \in Readable : next' = [next EXCEPT ![w] = p]
  /\ UNCHANGED << phase, heap, curr, data, write_queue, written, database >>

EvalNew(w) ==
  /\ phase = "eval"
  /\ \E p \in Ptr : \E copies \in SUBSET {p} :
       Allocate({p}, copies) /\ next' = [next EXCEPT ![w] = p]
  /\ UNCHANGED << phase, curr, data, write_queue, written, database >>

\* Mutant of Update: the cell is not entered in written
UpdateUnwritten(i) ==
  /\ phase = "eval"
  /\ \E p \in Readable : write_queue' = write_queue \union {[index |-> i, ls |-> p]}
  /\ UNCHANGED << phase, heap, curr, next, data, written, database >>

\* memory::update
Update(i) ==
  /\ phase = "eval"
  /\ \E p \in Readable : write_queue' = write_queue \union {[index |-> i, ls |-> p]}
  /\ written' = written \union {i}
  /\ UNCHANGED << phase, heap, curr, next, data, database >>

\* database_memory_ holds the cells about to be written, before and after
\* (mutant: it is not cleared first)
MemoryDatabaseGrows(updated) ==
  db_mem \union updated \union ({data[w.index] : w \in write_queue} \ {NULL})
MemoryDatabase(updated) == updated \union ({data[w.index] : w \in write_queue} \ {NULL})

\* build_database: verification runs before the commit, on the next values
BuildDatabase ==
  /\ phase = "eval"
  /\ phase' = "verify"
  /\ db1' = db0
  /\ \E merged \in [Split -> PtrOrNull], updated \in SUBSET Ptr :
       /\ Distinct(merged)
       /\ Cardinality(updated) <= Cardinality(write_queue)
       /\ Pointers(merged) \intersect updated = {}
       /\ Allocate(Pointers(merged) \union updated, {})
       /\ db0' = [w \in Wires |-> IF w \in Split THEN merged[w] ELSE next[w]]
       /\ db_mem' = MemoryDatabase(updated)
  /\ db_ho' = IF HigherOrder THEN db_ho \union Pointers(db0') ELSE db_ho
  /\ UNCHANGED state

\* Every wire merges its old and new expressions; queued writes are applied
Commit ==
  /\ phase \in {"eval", "verify"}
  /\ phase' = "keep_database"
  /\ \E fresh \in [Wires -> PtrOrNull],
        stored \in [{w.index : w \in write_queue} -> PtrOrNull] :
       /\ Distinct(fresh) /\ Distinct(stored)
       /\ Pointers(fresh) \intersect Pointers(stored) = {}
       /\ \E copies \in SUBSET Pointers(fresh) :
            Allocate(Pointers(fresh) \union Pointers(stored), copies)
       /\ next' = fresh /\ curr' = fresh
       /\ data' = [i \in Index |-> IF i \in DOMAIN stored THEN stored[i] ELSE data[i]]
  /\ write_queue' = {}
  /\ UNCHANGED << written, database >>

\* The early returns of step, which skip the commit and clean
ExitAtLeak ==
  /\ phase = "verify"
  /\ phase' = "eval"
  /\ UNCHANGED << heap, state, database >>

BailOut ==
  /\ phase = "keep_database"
  /\ phase' = "eval"
  /\ UNCHANGED << heap, state, database >>

-----------------------------------------------------------------------------
(* Manager::clean                                                          *)

\* What clean keeps of the databases (mutants: not the previous cycle, not the
\* past ones)
MarksNow == Pointers(db0) \union (IF HigherOrder THEN db_ho ELSE {})
MarksNoPast == Pointers(db0) \union Pointers(db1)
DatabaseMarks ==
  Pointers(db0) \union Pointers(db1) \union (IF HigherOrder THEN db_ho ELSE {})

\* keep() of both databases and, for higher orders, of every past cycle
KeepDatabase ==
  /\ phase = "keep_database"
  /\ phase' = "keep_state"
  /\ ls_keep_mem' = ls_keep_mem \union DatabaseMarks
  /\ UNCHANGED << alive, ls_mem, state, database >>

\* top.symb_keep(): registers and written memory cells; other next are reset
KeptNext == [w \in Wires |-> IF w \in KeepNext THEN next[w] ELSE NULL]
KeepState ==
  /\ phase = "keep_state"
  /\ phase' = "clear"
  /\ next' = KeptNext
  /\ ls_keep_mem' = ls_keep_mem \union Pointers(curr) \union Pointers(KeptNext)
                    \union ({data[i] : i \in written} \ {NULL})
  /\ UNCHANGED << alive, ls_mem, curr, data, write_queue, written, database >>

\* Mutants of Clear: the registry, or the marks, are left as they were
ClearRegistryKept ==
  /\ phase = "clear"
  /\ phase' = "eval"
  /\ alive' = alive \ (ls_mem \ ls_keep_mem)
  /\ ls_keep_mem' = {}
  /\ UNCHANGED << ls_mem, state, database >>
ClearMarksKept ==
  /\ phase = "clear"
  /\ phase' = "eval"
  /\ alive' = alive \ (ls_mem \ ls_keep_mem)
  /\ ls_mem' = ls_keep_mem
  /\ UNCHANGED << ls_keep_mem, state, database >>

\* clear(): delete what is registered and not kept
Clear ==
  /\ phase = "clear"
  /\ phase' = "eval"
  /\ alive' = alive \ (ls_mem \ ls_keep_mem)
  /\ ls_mem' = ls_keep_mem
  /\ ls_keep_mem' = {}
  /\ UNCHANGED << state, database >>

Next ==
  \/ Temporary
  \/ \E w \in Wires : EvalAlias(w) \/ EvalNew(w)
  \/ \E i \in Index : Update(i)
  \/ BuildDatabase \/ Commit \/ ExitAtLeak \/ BailOut
  \/ KeepDatabase \/ KeepState \/ Clear

Spec == Init /\ [][Next]_vars

-----------------------------------------------------------------------------
\* Nothing the simulation or the verification can still read has been freed:
\* the marks of Manager::clean reach every holder of a shared pointer.
NoDangling == Held \subseteq alive

\* ls_mem_ lists only live objects, so clear() never deletes one twice
\* (its TODO fears it for inputs and outputs).
NoDoubleDelete == ls_mem \subseteq alive /\ ls_keep_mem \subseteq alive

\* database_memory_ is not kept by clean: it must be read only in the cycle
\* that built it, while its pointers are live.
MemoryDatabaseReadable == phase = "verify" => db_mem \subseteq alive

\* After clear() the registry holds only what somebody still uses: no set is
\* kept a cycle too long by a mark left over from the cycle before.
RegistryIsExact ==
  [][phase = "clear" /\ phase' = "eval" => ls_mem' \subseteq Held']_vars

\* "Before next cycle, clean all leaksets that aren't used anymore"
\* (manager.cpp, Manager::step): after clean every live set is in use.
CleanFreesUnused ==
  [][phase = "clear" /\ phase' = "eval" => alive' \subseteq Held']_vars

\* The inductive invariant: where a cycle stands determines what is marked.
\* A cell holds a pointer only after a queued write, which enters it in
\* written, and the write queue is empty while clean runs.
IInv ==
  /\ TypeOK
  /\ NoDangling
  /\ NoDoubleDelete
  /\ MemoryDatabaseReadable
  /\ \A i \in Index : data[i] # NULL => i \in written
  /\ \A w \in write_queue : w.index \in written
  /\ phase \in {"keep_database", "keep_state", "clear"} => write_queue = {}
  /\ phase \in {"eval", "verify", "keep_database"} => ls_keep_mem = {}
  /\ phase = "keep_state" => ls_keep_mem = DatabaseHeld
  /\ phase = "clear" => ls_keep_mem = Held
  /\ HigherOrder \/ db_ho = {}
=============================================================================
