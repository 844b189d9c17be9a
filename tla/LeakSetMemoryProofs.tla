------------------------- MODULE LeakSetMemoryProofs -------------------------
(***************************************************************************)
(* The garbage collection of LeakSets is safe for every set of registers,  *)
(* memory cells and addresses: proofs of the invariants of LeakSetMemory.  *)
(***************************************************************************)
EXTENDS LeakSetMemory, TLAPS

\* Redirecting one register to p adds at most p to the pointers registers hold.
LEMMA PointersExcept ==
  ASSUME NEW S, NEW f \in [S -> PtrOrNull], NEW x \in S, NEW p \in PtrOrNull
  PROVE  /\ [f EXCEPT ![x] = p] \in [S -> PtrOrNull]
         /\ Pointers([f EXCEPT ![x] = p]) \subseteq Pointers(f) \union ({p} \ {NULL})
  BY DEF Pointers

\* What a table of pointers holds is addresses.
LEMMA PointersType ==
  ASSUME NEW S, NEW f \in [S -> PtrOrNull]
  PROVE  Pointers(f) \subseteq Ptr
  BY DEF Pointers, PtrOrNull

\* An allocation keeps what is alive and registers only what it made alive.
LEMMA AllocateSafe ==
  ASSUME TypeOK, NoDoubleDelete, NEW new \in SUBSET Ptr, NEW copies, Allocate(new, copies)
  PROVE  /\ alive \subseteq alive' /\ new \subseteq alive'
         /\ alive' \subseteq Ptr /\ ls_mem' \subseteq Ptr /\ ls_keep_mem' \subseteq Ptr
         /\ NoDoubleDelete'
         /\ ls_keep_mem' = ls_keep_mem
  BY DEF TypeOK, NoDoubleDelete, Allocate

\* The inductive invariant holds in every state: the phases of a cycle mark
\* every holder before clear() deletes.
LEMMA InductiveInit == Init => IInv
  <1> SUFFICES ASSUME Init PROVE IInv
    OBVIOUS
  <1>1. TypeOK
    BY DEF Init, TypeOK, PtrOrNull, Phases
  <1>2. Held = {}
    BY DEF Init, Held, StateHeld, QueueHeld, DatabaseHeld, Pointers
  <1>3. NoDangling /\ NoDoubleDelete /\ MemoryDatabaseReadable
    BY <1>2 DEF Init, NoDangling, NoDoubleDelete, MemoryDatabaseReadable
  <1>4. QED
    BY <1>1, <1>3 DEF Init, IInv

LEMMA StepTemporary == IInv /\ Temporary => IInv'
  <1> SUFFICES ASSUME IInv, Temporary PROVE IInv'
    OBVIOUS
  <1>1. PICK p \in Ptr : \E copies \in SUBSET {p} : Allocate({p}, copies)
    BY DEF Temporary
  <1>2. TypeOK /\ NoDoubleDelete
    BY DEF IInv
  <1>3. /\ alive \subseteq alive' /\ alive' \subseteq Ptr /\ ls_mem' \subseteq Ptr
        /\ NoDoubleDelete' /\ ls_keep_mem' = ls_keep_mem /\ ls_keep_mem' \subseteq Ptr
    BY <1>1, <1>2, AllocateSafe
  <1>4. UNCHANGED << phase, state, database >> /\ phase = "eval"
    BY DEF Temporary
  <1>5. Held' = Held /\ DatabaseHeld' = DatabaseHeld /\ StateHeld' = StateHeld
    BY <1>4 DEF state, database, Held, StateHeld, QueueHeld, DatabaseHeld, Pointers
  <1>6. TypeOK'
    BY <1>2, <1>3, <1>4 DEF TypeOK, state, database
  <1>7. NoDangling'
    BY <1>3, <1>5 DEF IInv, NoDangling
  <1>8. QED
    BY <1>3, <1>4, <1>5, <1>6, <1>7 DEF IInv, MemoryDatabaseReadable, state, database

LEMMA StepEvalAlias == ASSUME IInv, NEW w \in Wires, EvalAlias(w) PROVE IInv'
  <1>1. PICK p \in Readable : next' = [next EXCEPT ![w] = p]
    BY DEF EvalAlias
  <1>2. /\ UNCHANGED << phase, heap, curr, data, write_queue, written, database >>
        /\ phase = "eval"
    BY DEF EvalAlias
  <1>3. TypeOK
    BY DEF IInv
  <1>4. p \in PtrOrNull
    BY <1>1, <1>3, PointersType DEF Readable, StateHeld, TypeOK, PtrOrNull
  <1>5. /\ next' \in [Wires -> PtrOrNull]
        /\ Pointers(next)' \subseteq Pointers(next) \union ({p} \ {NULL})
    <2>1. next \in [Wires -> PtrOrNull]
      BY <1>3 DEF TypeOK
    <2>2. /\ [next EXCEPT ![w] = p] \in [Wires -> PtrOrNull]
          /\ Pointers([next EXCEPT ![w] = p]) \subseteq Pointers(next) \union ({p} \ {NULL})
      BY <2>1, <1>4, PointersExcept
    <2>3. Pointers(next)' = Pointers([next EXCEPT ![w] = p])
      BY <1>1 DEF Pointers
    <2>4. QED
      BY <1>1, <2>2, <2>3
  <1>6. {p} \ {NULL} \subseteq StateHeld
    BY <1>1 DEF Readable
  <1>7. Held' \subseteq Held /\ DatabaseHeld' = DatabaseHeld
    <2>1. Pointers(curr)' = Pointers(curr) /\ Pointers(data)' = Pointers(data)
      BY <1>2 DEF Pointers
    <2>2. StateHeld' \subseteq StateHeld
      BY <1>5, <1>6, <2>1 DEF StateHeld
    <2>3. QueueHeld' = QueueHeld /\ DatabaseHeld' = DatabaseHeld
      BY <1>2 DEF QueueHeld, DatabaseHeld, Pointers, database
    <2>4. QED
      BY <2>2, <2>3 DEF Held
  <1>8. TypeOK'
    BY <1>2, <1>3, <1>5 DEF TypeOK, heap, database
  <1>9. QED
    BY <1>2, <1>7, <1>8
    DEF IInv, NoDangling, NoDoubleDelete, MemoryDatabaseReadable, heap, database

LEMMA StepEvalNew == ASSUME IInv, NEW w \in Wires, EvalNew(w) PROVE IInv'
  <1>1. PICK p \in Ptr : /\ \E copies \in SUBSET {p} : Allocate({p}, copies)
                         /\ next' = [next EXCEPT ![w] = p]
    BY DEF EvalNew
  <1>2. /\ UNCHANGED << phase, curr, data, write_queue, written, database >>
        /\ phase = "eval"
    BY DEF EvalNew
  <1>3. TypeOK /\ NoDoubleDelete
    BY DEF IInv
  <1>4. /\ alive \subseteq alive' /\ p \in alive' /\ alive' \subseteq Ptr
        /\ ls_mem' \subseteq Ptr /\ ls_keep_mem' \subseteq Ptr
        /\ NoDoubleDelete' /\ ls_keep_mem' = ls_keep_mem
    BY <1>1, <1>3, AllocateSafe
  <1>5. /\ next' \in [Wires -> PtrOrNull]
        /\ Pointers(next)' \subseteq Pointers(next) \union {p}
    <2>1. next \in [Wires -> PtrOrNull] /\ p \in PtrOrNull
      BY <1>3 DEF TypeOK, PtrOrNull
    <2>2. /\ [next EXCEPT ![w] = p] \in [Wires -> PtrOrNull]
          /\ Pointers([next EXCEPT ![w] = p]) \subseteq Pointers(next) \union ({p} \ {NULL})
      BY <2>1, PointersExcept
    <2>3. Pointers(next)' = Pointers([next EXCEPT ![w] = p])
      BY <1>1 DEF Pointers
    <2>4. QED
      BY <1>1, <2>2, <2>3
  <1>6. Held' \subseteq Held \union {p} /\ DatabaseHeld' = DatabaseHeld
    <2>1. Pointers(curr)' = Pointers(curr) /\ Pointers(data)' = Pointers(data)
      BY <1>2 DEF Pointers
    <2>2. QueueHeld' = QueueHeld /\ DatabaseHeld' = DatabaseHeld
      BY <1>2 DEF QueueHeld, DatabaseHeld, Pointers, database
    <2>3. QED
      BY <1>5, <2>1, <2>2 DEF Held, StateHeld
  <1>7. TypeOK'
    BY <1>2, <1>3, <1>4, <1>5 DEF TypeOK, database
  <1>8. NoDangling'
    BY <1>4, <1>6 DEF IInv, NoDangling
  <1>9. QED
    BY <1>2, <1>4, <1>6, <1>7, <1>8 DEF IInv, MemoryDatabaseReadable, database

LEMMA StepUpdate == ASSUME IInv, NEW i \in Index, Update(i) PROVE IInv'
  <1>1. PICK p \in Readable : write_queue' = write_queue \union {[index |-> i, ls |-> p]}
    BY DEF Update
  <1>2. /\ UNCHANGED << phase, heap, curr, next, data, database >>
        /\ phase = "eval" /\ written' = written \union {i}
    BY DEF Update
  <1>3. TypeOK
    BY DEF IInv
  <1>4. p \in PtrOrNull
    BY <1>1, <1>3, PointersType DEF Readable, StateHeld, TypeOK, PtrOrNull
  <1>5. Held' \subseteq Held /\ DatabaseHeld' = DatabaseHeld
    <2>1. StateHeld' = StateHeld /\ DatabaseHeld' = DatabaseHeld
      BY <1>2 DEF StateHeld, DatabaseHeld, Pointers, database
    <2>2. QueueHeld' \subseteq QueueHeld \union StateHeld
      BY <1>1 DEF QueueHeld, Readable
    <2>3. QED
      BY <2>1, <2>2 DEF Held
  <1>6. TypeOK'
    BY <1>1, <1>2, <1>3, <1>4 DEF TypeOK, heap, database
  <1>7. \A x \in write_queue' : x.index \in written'
    BY <1>1, <1>2 DEF IInv
  <1>8. QED
    BY <1>2, <1>5, <1>6, <1>7
    DEF IInv, NoDangling, NoDoubleDelete, MemoryDatabaseReadable, heap, database
\* The pointers of the new databases are the registers' and fresh ones.
LEMMA StepBuildDatabase == IInv /\ BuildDatabase => IInv'
  <1> SUFFICES ASSUME IInv, BuildDatabase PROVE IInv'
    OBVIOUS
  <1>1. PICK merged \in [Split -> PtrOrNull], updated \in SUBSET Ptr :
          /\ Allocate(Pointers(merged) \union updated, {})
          /\ db0' = [w \in Wires |-> IF w \in Split THEN merged[w] ELSE next[w]]
          /\ db_mem' = updated \union ({data[w.index] : w \in write_queue} \ {NULL})
    BY DEF BuildDatabase, MemoryDatabase
  <1>2. /\ phase = "eval" /\ phase' = "verify" /\ db1' = db0 /\ UNCHANGED state
        /\ db_ho' = IF HigherOrder THEN db_ho \union Pointers(db0') ELSE db_ho
    BY DEF BuildDatabase
  <1>3. TypeOK /\ NoDoubleDelete
    BY DEF IInv
  <1>4. Pointers(merged) \subseteq Ptr
    BY PointersType
  <1>5. /\ alive \subseteq alive' /\ (Pointers(merged) \union updated) \subseteq alive'
        /\ alive' \subseteq Ptr /\ ls_mem' \subseteq Ptr /\ ls_keep_mem' \subseteq Ptr
        /\ NoDoubleDelete' /\ ls_keep_mem' = ls_keep_mem
    <2>1. Pointers(merged) \union updated \in SUBSET Ptr
      BY <1>4
    <2>2. QED
      BY <1>1, <1>3, <2>1, AllocateSafe
  <1>6. db0' \in [Wires -> PtrOrNull]
    BY <1>1, <1>3 DEF TypeOK
  <1>7. Pointers(db0') \subseteq Pointers(next) \union Pointers(merged)
    BY <1>1, <1>3 DEF TypeOK, Pointers
  <1>8. db_mem' \subseteq Ptr /\ db_mem' \subseteq updated \union Pointers(data)
    BY <1>1, <1>3 DEF TypeOK, Pointers, PtrOrNull
  <1>9. Pointers(next) \subseteq alive /\ Pointers(data) \subseteq alive
    BY DEF IInv, NoDangling, Held, StateHeld
  <1>10. TypeOK'
    <2>1. Pointers(db0') \subseteq Ptr
      BY <1>6, PointersType
    <2>2. db_ho' \subseteq Ptr
      BY <1>2, <1>3, <2>1 DEF TypeOK
    <2>3. QED
      BY <1>2, <1>3, <1>5, <1>6, <1>8, <2>2 DEF TypeOK, state, Phases
  <1>11. NoDangling'
    <2>1. StateHeld' = StateHeld /\ QueueHeld' = QueueHeld
      BY <1>2 DEF state, StateHeld, QueueHeld, Pointers
    <2>2. Pointers(db0)' \subseteq alive'
      BY <1>5, <1>7, <1>9 DEF Pointers
    <2>3. Pointers(db1)' \subseteq DatabaseHeld
      BY <1>2 DEF DatabaseHeld, Pointers
    <2>4. db_ho' \subseteq alive'
      BY <1>2, <1>5, <2>2 DEF IInv, NoDangling, Held, DatabaseHeld, Pointers
    <2>5. QED
      BY <1>5, <2>1, <2>2, <2>3, <2>4 DEF IInv, NoDangling, Held, DatabaseHeld
  <1>12. MemoryDatabaseReadable'
    BY <1>5, <1>8, <1>9 DEF MemoryDatabaseReadable
  <1>13. QED
    BY <1>2, <1>5, <1>10, <1>11, <1>12 DEF IInv, state

LEMMA StepCommit == IInv /\ Commit => IInv'
  <1> SUFFICES ASSUME IInv, Commit PROVE IInv'
    OBVIOUS
  <1> DEFINE Queued == {w.index : w \in write_queue}
  <1>1. PICK fresh \in [Wires -> PtrOrNull], stored \in [Queued -> PtrOrNull] :
          /\ \E copies \in SUBSET Pointers(fresh) :
               Allocate(Pointers(fresh) \union Pointers(stored), copies)
          /\ next' = fresh /\ curr' = fresh
          /\ data' = [i \in Index |-> IF i \in DOMAIN stored THEN stored[i] ELSE data[i]]
    BY DEF Commit
  <1>2. /\ phase' = "keep_database" /\ write_queue' = {} /\ UNCHANGED << written, database >>
        /\ phase \in {"eval", "verify"}
    BY DEF Commit
  <1>3. TypeOK /\ NoDoubleDelete
    BY DEF IInv
  <1>4. Pointers(fresh) \union Pointers(stored) \in SUBSET Ptr
    BY PointersType
  <1>5. /\ alive \subseteq alive' /\ (Pointers(fresh) \union Pointers(stored)) \subseteq alive'
        /\ alive' \subseteq Ptr /\ ls_mem' \subseteq Ptr /\ ls_keep_mem' \subseteq Ptr
        /\ NoDoubleDelete' /\ ls_keep_mem' = ls_keep_mem
    BY <1>1, <1>3, <1>4, AllocateSafe
  <1>6. data' \in [Index -> PtrOrNull]
    BY <1>1, <1>3 DEF TypeOK
  <1>7. Pointers(data') \subseteq Pointers(data) \union Pointers(stored)
    BY <1>1, <1>3 DEF TypeOK, Pointers
  <1>8. TypeOK'
    BY <1>1, <1>2, <1>3, <1>5, <1>6 DEF TypeOK, database, Phases
  <1>9. NoDangling'
    <2>1. Pointers(next)' \subseteq alive' /\ Pointers(curr)' \subseteq alive'
      BY <1>1, <1>5 DEF Pointers
    <2>2. Pointers(data)' \subseteq alive'
      BY <1>5, <1>7 DEF IInv, NoDangling, Held, StateHeld, Pointers
    <2>3. DatabaseHeld' = DatabaseHeld /\ QueueHeld' = {}
      BY <1>2 DEF DatabaseHeld, QueueHeld, Pointers, database
    <2>4. QED
      BY <1>5, <2>1, <2>2, <2>3 DEF IInv, NoDangling, Held, StateHeld
  <1>10. \A i \in Index : data'[i] # NULL => i \in written'
    BY <1>1, <1>2 DEF IInv
  <1>11. QED
    BY <1>2, <1>5, <1>8, <1>9, <1>10 DEF IInv, MemoryDatabaseReadable, database

LEMMA StepKeepDatabase == IInv /\ KeepDatabase => IInv'
  <1> SUFFICES ASSUME IInv, KeepDatabase PROVE IInv'
    OBVIOUS
  <1>1. /\ phase = "keep_database" /\ phase' = "keep_state"
        /\ UNCHANGED << alive, ls_mem, state, database >>
        /\ ls_keep_mem' = ls_keep_mem \union DatabaseMarks
    BY DEF KeepDatabase
  <1>2. TypeOK /\ ls_keep_mem = {}
    BY <1>1 DEF IInv
  <1>3. ls_keep_mem' = DatabaseHeld
    BY <1>1, <1>2 DEF IInv, DatabaseHeld, DatabaseMarks
  <1>4. Held' = Held /\ DatabaseHeld' = DatabaseHeld
    BY <1>1 DEF state, database, Held, StateHeld, QueueHeld, DatabaseHeld, Pointers
  <1>5. DatabaseHeld \subseteq Held /\ Held \subseteq alive /\ alive \subseteq Ptr
    BY <1>2 DEF Held, IInv, NoDangling, TypeOK
  <1>6. TypeOK'
    BY <1>1, <1>2, <1>3, <1>5 DEF TypeOK, state, database, Phases
  <1>7. QED
    BY <1>1, <1>3, <1>4, <1>5, <1>6
    DEF IInv, NoDangling, NoDoubleDelete, MemoryDatabaseReadable, state, database

LEMMA StepKeepState == IInv /\ KeepState => IInv'
  <1> SUFFICES ASSUME IInv, KeepState PROVE IInv'
    OBVIOUS
  <1>1. /\ phase = "keep_state" /\ phase' = "clear" /\ next' = KeptNext
        /\ UNCHANGED << alive, ls_mem, curr, data, write_queue, written, database >>
        /\ ls_keep_mem' = ls_keep_mem \union Pointers(curr) \union Pointers(KeptNext)
                          \union ({data[i] : i \in written} \ {NULL})
    BY DEF KeepState
  <1>2. TypeOK /\ write_queue = {} /\ ls_keep_mem = DatabaseHeld
    BY <1>1 DEF IInv
  <1>3. /\ KeptNext \in [Wires -> PtrOrNull]
        /\ Pointers(KeptNext) \subseteq Pointers(next)
    BY <1>2 DEF KeptNext, TypeOK, Pointers, PtrOrNull
  <1>4. {data[i] : i \in written} \ {NULL} = Pointers(data)
    BY <1>2 DEF IInv, TypeOK, Pointers
  <1>5. /\ Pointers(next)' = Pointers(KeptNext)
        /\ Pointers(curr)' = Pointers(curr) /\ Pointers(data)' = Pointers(data)
        /\ DatabaseHeld' = DatabaseHeld /\ QueueHeld' = {}
    BY <1>1, <1>2 DEF Pointers, DatabaseHeld, QueueHeld, database
  <1>6. ls_keep_mem' = Held'
    BY <1>1, <1>2, <1>4, <1>5 DEF Held, StateHeld
  <1>7. Held' \subseteq Held
    BY <1>3, <1>5 DEF Held, StateHeld
  <1>8. NoDangling' /\ NoDoubleDelete'
    BY <1>1, <1>6, <1>7 DEF IInv, NoDangling, NoDoubleDelete
  <1>9. TypeOK'
    BY <1>1, <1>2, <1>3, <1>8 DEF TypeOK, NoDoubleDelete, database, Phases
  <1>10. QED
    BY <1>1, <1>6, <1>8, <1>9 DEF IInv, MemoryDatabaseReadable, database

\* Everything held is marked, so nothing held is deleted.
LEMMA StepClear == IInv /\ Clear => IInv'
  <1> SUFFICES ASSUME IInv, Clear PROVE IInv'
    OBVIOUS
  <1>1. /\ phase = "clear" /\ phase' = "eval" /\ ls_keep_mem' = {} /\ ls_mem' = ls_keep_mem
        /\ alive' = alive \ (ls_mem \ ls_keep_mem) /\ UNCHANGED << state, database >>
    BY DEF Clear
  <1>2. TypeOK /\ NoDoubleDelete /\ NoDangling /\ write_queue = {}
    BY <1>1 DEF IInv
  <1>3. ls_keep_mem = Held
    BY <1>1 DEF IInv
  <1>4. Held' = Held
    BY <1>1 DEF state, database, Held, StateHeld, QueueHeld, DatabaseHeld, Pointers
  <1>5. NoDangling' /\ NoDoubleDelete'
    BY <1>1, <1>2, <1>3, <1>4 DEF NoDangling, NoDoubleDelete
  <1>6. TypeOK'
    BY <1>1, <1>2 DEF TypeOK, state, database, Phases
  <1>7. QED
    BY <1>1, <1>5, <1>6 DEF IInv, MemoryDatabaseReadable, state, database

LEMMA StepReturn == IInv /\ (ExitAtLeak \/ BailOut) => IInv'
  <1> SUFFICES ASSUME IInv, ExitAtLeak \/ BailOut PROVE IInv'
    OBVIOUS
  <1>1. /\ phase \in {"verify", "keep_database"} /\ phase' = "eval"
        /\ UNCHANGED << heap, state, database >>
    BY DEF ExitAtLeak, BailOut
  <1>2. Held' = Held
    BY <1>1 DEF heap, state, database, Held, StateHeld, QueueHeld, DatabaseHeld, Pointers
  <1>3. TypeOK'
    BY <1>1 DEF IInv, TypeOK, heap, state, database, Phases
  <1>4. QED
    BY <1>1, <1>2, <1>3
    DEF IInv, NoDangling, NoDoubleDelete, MemoryDatabaseReadable, heap, state, database

LEMMA StepStutter == IInv /\ UNCHANGED vars => IInv'
  <1> SUFFICES ASSUME IInv, UNCHANGED vars PROVE IInv'
    OBVIOUS
  <1> USE DEF vars, heap, state, database
  <1>1. Held' = Held /\ DatabaseHeld' = DatabaseHeld /\ StateHeld' = StateHeld
    BY DEF Held, StateHeld, QueueHeld, DatabaseHeld, Pointers
  <1>2. TypeOK'
    BY DEF IInv, TypeOK
  <1>3. QED
    BY <1>1, <1>2 DEF IInv, NoDangling, NoDoubleDelete, MemoryDatabaseReadable

LEMMA Step == IInv /\ [Next]_vars => IInv'
  BY StepTemporary, StepEvalAlias, StepEvalNew, StepUpdate, StepBuildDatabase, StepCommit,
     StepKeepDatabase, StepKeepState, StepClear, StepReturn, StepStutter
  DEF Next

\* The bookkeeping of a cycle of Manager::step (phases, marks, written cells)
\* is an invariant of the collector for every set of wires and cells.
THEOREM Inductive == Spec => []IInv
  BY InductiveInit, Step, PTL DEF Spec

\* Every variable keeps its type.
THEOREM TypeCorrect == Spec => []TypeOK
  <1>1. IInv => TypeOK
    BY DEF IInv
  <1>2. QED
    BY <1>1, Inductive, PTL

\* No register, memory cell, queued write or database entry ever points to a
\* LeakSet that clear() has deleted.
THEOREM NeverDangling == Spec => []NoDangling
  <1>1. IInv => NoDangling
    BY DEF IInv
  <1>2. QED
    BY <1>1, Inductive, PTL

\* clear() deletes only live objects: no LeakSet is deleted twice.
THEOREM NeverDeletedTwice == Spec => []NoDoubleDelete
  <1>1. IInv => NoDoubleDelete
    BY DEF IInv
  <1>2. QED
    BY <1>1, Inductive, PTL

\* verify() reads database_memory_ only while its LeakSets are live.
THEOREM MemoryDatabaseLive == Spec => []MemoryDatabaseReadable
  <1>1. IInv => MemoryDatabaseReadable
    BY DEF IInv
  <1>2. QED
    BY <1>1, Inductive, PTL

\* After clear() the registry lists only LeakSets that are still held.
THEOREM ExactRegistry == Spec => RegistryIsExact
  <1>1. IInv /\ [Next]_vars
        => [phase = "clear" /\ phase' = "eval" => ls_mem' \subseteq Held']_vars
    <2> SUFFICES ASSUME IInv, [Next]_vars, phase = "clear", phase' = "eval"
                 PROVE  ls_mem' \subseteq Held'
      OBVIOUS
    <2>1. Clear
      BY DEF Next, vars, Temporary, EvalAlias, EvalNew, Update, BuildDatabase, Commit,
             ExitAtLeak, BailOut, KeepDatabase, KeepState
    <2>2. ls_mem' = ls_keep_mem /\ UNCHANGED << state, database >>
      BY <2>1 DEF Clear
    <2>3. Held' = Held
      BY <2>2 DEF state, database, Held, StateHeld, QueueHeld, DatabaseHeld, Pointers
    <2>4. QED
      BY <2>2, <2>3 DEF IInv
  <1>2. QED
    BY <1>1, Inductive, PTL DEF Spec, RegistryIsExact
=============================================================================
