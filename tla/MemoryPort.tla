------------------------------ MODULE MemoryPort ------------------------------
(***************************************************************************)
(* memory<Width> of cxxrtl.h.  eval() queues writes sorted by priority;    *)
(* leak_mem() tells the manager, before the clock edge, what every written *)
(* cell holds and will hold; commit() applies the queue, entry by entry,   *)
(* stabilises the cells and tells an observer of every change.             *)
(*                                                                         *)
(* A bit holds a symbol of Sym, whose concrete value is Conc; masks are    *)
(* constant, as the write enables of the ports are, hence sets of bits.    *)
(* A write carries a ghost id, its rank among the calls of update since    *)
(* the last commit: the code has no such field, and no action reads it.    *)
(***************************************************************************)
EXTENDS Naturals, Sequences

CONSTANTS Index, Bits, Sym, Priority,
          Conc,        \* the concrete value of every symbol
          FirstChunk,  \* the bits of chunk 0
          Hookable,    \* the cells a harness may put under a funcArray
          Stimuli,     \* the values and masks the ports may drive
          MaxQueue     \* bound: queued writes

ASSUME DomainAssumption ==
  /\ Conc \in [Sym -> BOOLEAN] /\ FirstChunk \subseteq Bits /\ Hookable \subseteq Index
  /\ Priority \subseteq Nat
  /\ Stimuli \subseteq [val : [Bits -> Sym], mask : SUBSET Bits]
  /\ MaxQueue \in Nat

VARIABLES
  phase,        \* "eval", "verify" (after leak_mem) or "commit" (in its loop)
  data, stab,   \* content and stability of every bit of every cell
  write_queue,
  written,
  hooks,        \* the cells of funcArrays
  foreseen,     \* database_memory_[0]: for every cell leak_mem names, its next content
  changed,      \* what commit will return
  aborted,      \* std::abort() was called
  shadow,       \* ghost: the concrete memory of an observer of on_update
  before        \* ghost: data when the last commit began, or ended

vars == << phase, data, stab, write_queue, written, hooks, foreseen, changed, aborted,
           shadow, before >>

Entries == DOMAIN write_queue
QueuedCells == {write_queue[k].index : k \in Entries}

\* elem.update(val, mask): the masked bits come from val
Updated(elem, w) == [b \in Bits |-> IF b \in w.mask THEN w.val[b] ELSE elem[b]]
\* the concrete data (mutant: that of chunk 0)
ConcFirst(elem) == [b \in FirstChunk |-> Conc[elem[b]]]
ConcOf(elem) == [b \in Bits |-> Conc[elem[b]]]

Init ==
  /\ phase = "eval"
  /\ data \in [Index -> [Bits -> Sym]]
  /\ stab = [i \in Index |-> [b \in Bits |-> FALSE]]
  /\ write_queue = << >> /\ written = {} /\ hooks = {}
  /\ foreseen = << >> /\ changed = FALSE /\ aborted = FALSE
  /\ shadow = [i \in Index |-> ConcOf(data[i])]
  /\ before = data

\* std::upper_bound on the priority (mutant: std::lower_bound)
LowerBound(p, priority) ==
  /\ \A k \in Entries : k < p => write_queue[k].priority < priority
  /\ \A k \in Entries : k >= p => write_queue[k].priority >= priority
UpperBound(p, priority) ==
  /\ \A k \in Entries : k < p => write_queue[k].priority <= priority
  /\ \A k \in Entries : k >= p => write_queue[k].priority > priority

Inserted(p, w) ==
  [k \in 1 .. Len(write_queue) + 1 |->
     IF k < p THEN write_queue[k] ELSE IF k = p THEN w ELSE write_queue[k - 1]]

\* Mutant of Enqueue, with the lines the code keeps commented out: a cell
\* overwritten as a whole is no longer interesting
EnqueueErasing(i) ==
  /\ phase = "eval" /\ ~aborted /\ Len(write_queue) < MaxQueue
  /\ \E s \in Stimuli, priority \in Priority, p \in 1 .. Len(write_queue) + 1 :
       /\ UpperBound(p, priority)
       /\ write_queue' = Inserted(p, [index |-> i, val |-> s.val, mask |-> s.mask,
                                      priority |-> priority, id |-> Len(write_queue)])
       /\ written' = IF s.mask = Bits THEN written \ {i} ELSE written \union {i}
  /\ UNCHANGED << phase, data, stab, hooks, foreseen, changed, shadow, before >>

Enqueue(i) ==
  /\ phase = "eval" /\ ~aborted /\ Len(write_queue) < MaxQueue
  /\ \E s \in Stimuli, priority \in Priority, p \in 1 .. Len(write_queue) + 1 :
       /\ UpperBound(p, priority)
       /\ write_queue' = Inserted(p, [index |-> i, val |-> s.val, mask |-> s.mask,
                                      priority |-> priority, id |-> Len(write_queue)])
  /\ written' = written \union {i}
  /\ UNCHANGED << phase, data, stab, hooks, foreseen, changed, shadow, before >>

\* update(value<32>, ...), a write port: a hooked cell is only logged
PortUpdate(i) == Enqueue(i) /\ UNCHANGED aborted

\* update(size_t, ...), a harness: a hooked cell ends the program
HarnessUpdate(i) == Enqueue(i) /\ aborted' = (i \in hooks)

\* funcArrays.push_back
Hook(i) ==
  /\ phase = "eval" /\ ~aborted
  /\ i \in Hookable
  /\ hooks' = hooks \union {i}
  /\ UNCHANGED << phase, data, stab, write_queue, written, foreseen, changed, aborted,
                  shadow, before >>

\* leak_mem computes every queued write on the cell as it is, in a set whose
\* order the caller does not choose; the database keeps one entry for a cell
\* (mutant: the value written is taken for the content)
LeakMemUnmasked ==
  /\ phase = "eval" /\ ~aborted
  /\ phase' = "verify"
  /\ \E last \in [QueuedCells -> Entries] :
       /\ \A i \in QueuedCells : write_queue[last[i]].index = i
       /\ foreseen' = [i \in QueuedCells |-> write_queue[last[i]].val]
  /\ UNCHANGED << data, stab, write_queue, written, hooks, changed, aborted, shadow, before >>

LeakMem ==
  /\ phase = "eval" /\ ~aborted
  /\ phase' = "verify"
  /\ \E last \in [QueuedCells -> Entries] :
       /\ \A i \in QueuedCells : write_queue[last[i]].index = i
       /\ foreseen' = [i \in QueuedCells |-> Updated(data[i], write_queue[last[i]])]
  /\ UNCHANGED << data, stab, write_queue, written, hooks, changed, aborted, shadow, before >>

\* step() returned before the commit: the queue stays for the next eval
Abandon ==
  /\ phase = "verify"
  /\ phase' = "eval"
  /\ foreseen' = << >>
  /\ UNCHANGED << data, stab, write_queue, written, hooks, changed, aborted, shadow, before >>

BeginCommit ==
  /\ phase \in {"eval", "verify"} /\ ~aborted
  /\ phase' = "commit"
  /\ changed' = FALSE
  /\ before' = data
  /\ UNCHANGED << data, stab, write_queue, written, hooks, foreseen, aborted, shadow >>

\* Mutant of CommitEntry: the observer is told of the last entry only
CommitEntrySilent ==
  /\ phase = "commit" /\ write_queue # << >>
  /\ LET w == Head(write_queue)
         elem_up == Updated(data[w.index], w)
         differs == ConcOf(elem_up) # ConcOf(data[w.index]) /\ Len(write_queue) = 1
     IN /\ data' = [data EXCEPT ![w.index] = elem_up]
        /\ stab' = [stab EXCEPT ![w.index] =
                      [b \in Bits |-> b \in FirstChunk \/ (b \notin w.mask /\ @[b])]]
        /\ changed' = (changed \/ differs)
        /\ shadow' = IF differs THEN [shadow EXCEPT ![w.index] = ConcOf(elem_up)] ELSE shadow
  /\ write_queue' = Tail(write_queue)
  /\ UNCHANGED << phase, written, hooks, foreseen, aborted, before >>

\* Mutant of CommitEntry: the loop does not advance
CommitEntryStuck ==
  /\ phase = "commit" /\ write_queue # << >>
  /\ data' = [data EXCEPT ![Head(write_queue).index] =
                             Updated(data[Head(write_queue).index], Head(write_queue))]
  /\ UNCHANGED << phase, stab, write_queue, written, hooks, foreseen, changed, aborted,
                  shadow, before >>

\* The body of the loop of commit.  A bit outside chunk 0 has the stability
\* update computed, that of the cell or of the (unstable) value written.
CommitEntry ==
  /\ phase = "commit" /\ write_queue # << >>
  /\ LET w == Head(write_queue)
         elem_up == Updated(data[w.index], w)
         differs == ConcOf(elem_up) # ConcOf(data[w.index])
     IN /\ data' = [data EXCEPT ![w.index] = elem_up]
        /\ stab' = [stab EXCEPT ![w.index] =
                      [b \in Bits |-> b \in FirstChunk \/ (b \notin w.mask /\ @[b])]]
        /\ changed' = (changed \/ differs)
        /\ shadow' = IF differs THEN [shadow EXCEPT ![w.index] = ConcOf(elem_up)] ELSE shadow
  /\ write_queue' = Tail(write_queue)
  /\ UNCHANGED << phase, written, hooks, foreseen, aborted, before >>

EndCommit ==
  /\ phase = "commit" /\ write_queue = << >>
  /\ phase' = "eval"
  /\ foreseen' = << >> /\ changed' = FALSE /\ before' = data
  /\ UNCHANGED << data, stab, write_queue, written, hooks, aborted, shadow >>

Next ==
  \/ \E i \in Index : PortUpdate(i) \/ HarnessUpdate(i) \/ Hook(i)
  \/ LeakMem \/ Abandon \/ BeginCommit \/ CommitEntry \/ EndCommit

\* commit() is a loop of the program: once begun it runs to its end
Spec == Init /\ [][Next]_vars /\ WF_vars(CommitEntry) /\ WF_vars(EndCommit)

-----------------------------------------------------------------------------
QueueSet == {write_queue[k] : k \in Entries}

\* What the queue will make of the memory: on every bit its last entry wins
Pending(i, b) == {k \in Entries : write_queue[k].index = i /\ b \in write_queue[k].mask}
Final ==
  [i \in Index |-> [b \in Bits |->
     IF Pending(i, b) = {} THEN data[i][b]
     ELSE write_queue[CHOOSE k \in Pending(i, b) : \A l \in Pending(i, b) : l <= k].val[b]]]

\* The memory as the circuit sees it: all writes land when the commit begins
AM == INSTANCE AtomicMemory WITH data <- IF phase = "commit" THEN Final ELSE data,
                                 pending <- IF phase = "commit" THEN {} ELSE QueueSet

\* commit() implements an atomic memory with prioritised ports: on every bit
\* the write of the highest priority wins, the last call among equals.
Atomic == AM!Spec

Writes == [index : Index, val : [Bits -> Sym], mask : SUBSET Bits,
           priority : Priority, id : Nat]

TypeOK ==
  /\ phase \in {"eval", "verify", "commit"}
  /\ data \in [Index -> [Bits -> Sym]] /\ before \in [Index -> [Bits -> Sym]]
  /\ stab \in [Index -> [Bits -> BOOLEAN]]
  /\ write_queue \in Seq(Writes)
  /\ written \subseteq Index /\ hooks \subseteq Hookable
  /\ changed \in BOOLEAN /\ aborted \in BOOLEAN
  /\ shadow \in [Index -> [Bits -> BOOLEAN]]

\* The queue is sorted by priority and, among equals, by the order of the
\* calls: the invariant that makes the loop of commit right.
Sorted ==
  \A j, k \in Entries : j < k =>
    \/ write_queue[j].priority < write_queue[k].priority
    \/ /\ write_queue[j].priority = write_queue[k].priority
       /\ write_queue[j].id < write_queue[k].id

\* What the manager verifies for a memory cell is what the cell will hold, if
\* one write is queued for it.  (With two it need not be: leak_mem computes
\* both on the cell as it is.)
Foreseen ==
  phase = "verify" =>
    \A i \in QueuedCells :
      (\A j, k \in Entries : write_queue[j].index = i /\ write_queue[k].index = i => j = k)
        => foreseen[i] = Final[i]

\* symb_keep marks the LeakSets of the cells in written only: no other cell
\* ever differs from its first content, or will.
WrittenCovers ==
  \A i \in Index \ written :
    i \notin QueuedCells /\ before[i] = data[i] /\ ~\E b \in Bits : stab[i][b]

\* Manager::step trusts commit to return false only if the concrete memory is
\* the one the evaluation read.
NoSilentChange ==
  phase = "commit" /\ write_queue = << >> /\ ~changed =>
    \A i \in Index : ConcOf(data[i]) = ConcOf(before[i])

\* An observer that applies every on_update has the concrete memory, in the
\* middle of a commit as after it.
ObserverExact == \A i \in Index : shadow[i] = ConcOf(data[i])

\* A commit once begun ends, whatever was queued.
CommitEnds == phase = "commit" ~> phase = "eval"
=============================================================================
