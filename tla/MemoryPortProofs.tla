--------------------------- MODULE MemoryPortProofs ---------------------------
(***************************************************************************)
(* memory<Width> implements AtomicMemory for any cells, bits, symbols and  *)
(* priorities and any number of queued writes, and its observer and its    *)
(* written set are exact.                                                  *)
(***************************************************************************)
EXTENDS MemoryPort, WellFoundedInduction, TLAPS

\* A non-empty set of positions in a queue has a last one.
LEMMA LastExists ==
  ASSUME NEW n \in Nat, NEW P \in SUBSET (1 .. n), P # {}
  PROVE  \E k \in P : \A l \in P : l <= k
  <1> DEFINE R == {ss \in Nat \X Nat : ss[1] < ss[2]}
             T == {n - k : k \in P}
  <1>1. IsWellFoundedOn(R, Nat)
    BY NatLessThanWellFounded DEF OpToRel
  <1>2. \A k \in P : k \in Nat /\ n - k \in Nat
    OBVIOUS
  <1>3. T \subseteq Nat /\ T # {}
    BY <1>2
  <1>4. PICK x \in T : \A y \in T : << y, x >> \notin R
    <2> HIDE DEF R, T
    <2> QED BY <1>1, <1>3, WFMin
  <1>5. PICK k \in P : x = n - k
    OBVIOUS
  <1>6. ASSUME NEW l \in P PROVE l <= k
    <2>1. << n - l, x >> \notin R
      BY <1>4
    <2>2. n - l \in Nat /\ x \in Nat /\ ~(n - l < x)
      BY <2>1, <1>2, <1>3
    <2> QED BY <2>2, <1>2, <1>5
  <1> QED BY <1>6

-----------------------------------------------------------------------------
\* Ids are the ranks of the calls, until the commit consumes the queue.
Ranked == phase # "commit" => \A k \in Entries : write_queue[k].id < Len(write_queue)

PortInv == TypeOK /\ Sorted /\ Ranked

\* The queue after a call of update is a queue: the entries before the new one
\* stay, those after it move by one.
LEMMA InsertedQueue ==
  ASSUME write_queue \in Seq(Writes), NEW w \in Writes, NEW p \in 1 .. Len(write_queue) + 1,
         NEW q, q = Inserted(p, w)
  PROVE  /\ q \in Seq(Writes)
         /\ Len(q) = Len(write_queue) + 1
         /\ DOMAIN q = 1 .. Len(write_queue) + 1
         /\ q[p] = w
         /\ \A k \in 1 .. Len(write_queue) + 1 : k < p =>
              k \in 1 .. Len(write_queue) /\ q[k] = write_queue[k]
         /\ \A k \in 1 .. Len(write_queue) + 1 : k > p =>
              k - 1 \in 1 .. Len(write_queue) /\ k - 1 >= p /\ q[k] = write_queue[k - 1]
  <1> DEFINE n == Len(write_queue)
  <1>1. n \in Nat /\ \A k \in 1 .. n : write_queue[k] \in Writes
    OBVIOUS
  <1>2. \A k \in 1 .. n + 1 : /\ k < p => k \in 1 .. n
                              /\ k > p => k - 1 \in 1 .. n /\ k - 1 >= p
    BY <1>1
  <1>3. q \in [1 .. n + 1 -> Writes]
    BY <1>1, <1>2 DEF Inserted
  <1>4. q \in Seq(Writes) /\ Len(q) = n + 1 /\ DOMAIN q = 1 .. n + 1
    BY <1>1, <1>3
  <1>5. q[p] = w
    BY <1>1 DEF Inserted
  <1>6. \A k \in 1 .. n + 1 : k < p => q[k] = write_queue[k]
    BY <1>1 DEF Inserted
  <1>7. ASSUME NEW k \in 1 .. n + 1, k > p PROVE q[k] = write_queue[k - 1]
    <2>1. q[k] = IF k < p THEN write_queue[k] ELSE IF k = p THEN w ELSE write_queue[k - 1]
      BY <1>1 DEF Inserted
    <2>2. ~(k < p) /\ k # p
      BY <1>7, <1>1
    <2> QED BY <2>1, <2>2
  <1> QED
    BY <1>2, <1>4, <1>5, <1>6, <1>7

\* A call of update keeps the invariant and adds one write, the latest.
LEMMA EnqueueInv ==
  ASSUME DomainAssumption, PortInv, NEW i \in Index, Enqueue(i), aborted' \in BOOLEAN
  PROVE  /\ PortInv'
         /\ \E w \in Writes : /\ w.index = i
                              /\ \A v \in QueueSet : v.id < w.id
                              /\ QueueSet' = QueueSet \union {w}
  <1> DEFINE n == Len(write_queue)
  <1>1. PICK s \in Stimuli, priority \in Priority, p \in 1 .. n + 1 :
          /\ UpperBound(p, priority)
          /\ write_queue' = Inserted(p, [index |-> i, val |-> s.val, mask |-> s.mask,
                                         priority |-> priority, id |-> n])
    BY DEF Enqueue
  <1> DEFINE w == [index |-> i, val |-> s.val, mask |-> s.mask,
                   priority |-> priority, id |-> n]
  <1>2. write_queue \in Seq(Writes) /\ n \in Nat
    BY DEF PortInv, TypeOK
  <1>3. w \in Writes /\ w.priority = priority /\ w.id = n /\ w.index = i
    BY <1>2 DEF DomainAssumption, Writes
  <1> HIDE DEF w
  <1>4. write_queue' = Inserted(p, w)
    BY <1>1 DEF w
  <1>5. /\ write_queue' \in Seq(Writes) /\ Len(write_queue') = n + 1
        /\ DOMAIN write_queue' = 1 .. n + 1
        /\ write_queue'[p] = w
    BY <1>2, <1>3, <1>4, InsertedQueue
  <1>6. \A k \in 1 .. n : write_queue[k] \in Writes /\ write_queue[k].id < n
    BY <1>2 DEF PortInv, Ranked, Entries, Enqueue
  <1>7. \A k \in 1 .. n + 1 : k < p => k \in 1 .. n /\ write_queue'[k] = write_queue[k]
    <2>1. \A k \in 1 .. n + 1 : k < p => write_queue'[k] = write_queue[k]
      BY SMTT(30), <1>2, <1>3, <1>4, InsertedQueue
    <2>2. \A k \in 1 .. n + 1 : k < p => k \in 1 .. n
      BY <1>2
    <2> QED BY <2>1, <2>2
  <1>8. \A k \in 1 .. n + 1 : k > p =>
          k - 1 \in 1 .. n /\ k - 1 >= p /\ write_queue'[k] = write_queue[k - 1]
    <2>1. \A k \in 1 .. n + 1 : k > p => write_queue'[k] = write_queue[k - 1]
      BY SMTT(30), <1>2, <1>3, <1>4, InsertedQueue
    <2>2. \A k \in 1 .. n + 1 : k > p => k - 1 \in 1 .. n /\ k - 1 >= p
      BY <1>2
    <2> QED BY <2>1, <2>2
  <1>9. Entries = 1 .. n /\ Entries' = 1 .. n + 1
    BY <1>2, <1>5 DEF Entries
  <1>10. TypeOK'
    BY <1>5 DEF PortInv, TypeOK, Enqueue
  <1>11. Ranked'
    <2> SUFFICES ASSUME NEW k \in 1 .. n + 1 PROVE write_queue'[k].id < n + 1
      BY <1>5, <1>9 DEF Ranked
    <2>1. \A a \in 1 .. n : write_queue[a].id < n + 1
      BY <1>2, <1>6 DEF Writes
    <2>2. CASE k < p
      BY <2>1, <2>2, <1>7
    <2>3. CASE k = p
      BY <2>3, <1>2, <1>3, <1>5
    <2>4. CASE k > p
      BY <2>1, <2>4, <1>8
    <2> QED BY <2>2, <2>3, <2>4, <1>2
  <1>12. Sorted'
    <2> DEFINE Before(v, u) == \/ v.priority < u.priority
                               \/ v.priority = u.priority /\ v.id < u.id
    <2> SUFFICES ASSUME NEW j \in 1 .. n + 1, NEW k \in 1 .. n + 1, j < k
                 PROVE  Before(write_queue'[j], write_queue'[k])
      BY <1>9 DEF Sorted
    <2>1. \A a, b \in 1 .. n : a < b => Before(write_queue[a], write_queue[b])
      BY <1>9 DEF PortInv, Sorted
    <2>2. ASSUME NEW a \in 1 .. n, a < p PROVE Before(write_queue[a], w)
      <3>1. write_queue[a].priority <= priority
        BY <2>2, <1>1, <1>9 DEF UpperBound
      <3>2. write_queue[a].priority \in Nat /\ priority \in Nat /\ write_queue[a].id < n
        BY <1>6 DEF DomainAssumption, Writes
      <3> QED BY <3>1, <3>2, <1>3
    <2>3. ASSUME NEW a \in 1 .. n, a >= p PROVE Before(w, write_queue[a])
      BY <2>3, <1>1, <1>3, <1>9 DEF UpperBound
    <2> HIDE DEF Before
    <2>4. CASE k < p
      <3>1. j < p
        BY <2>4, <1>2
      <3> QED BY <3>1, <2>1, <2>4, <1>7
    <2>5. CASE k = p
      BY <2>2, <2>5, <1>5, <1>7
    <2>6. CASE k > p /\ j = p
      BY <2>3, <2>6, <1>5, <1>8
    <2>7. CASE k > p /\ j < p
      <3>1. j < k - 1
        BY <2>7, <1>2
      <3> QED BY <3>1, <2>1, <2>7, <1>7, <1>8
    <2>8. CASE k > p /\ j > p
      <3>1. j - 1 < k - 1
        BY <1>2
      <3> QED BY <3>1, <2>1, <2>8, <1>8
    <2> QED BY <2>4, <2>5, <2>6, <2>7, <2>8, <1>2
  <1>13. QueueSet' = QueueSet \union {w}
    <2>1. QueueSet = {write_queue[k] : k \in 1 .. n}
      BY <1>9 DEF QueueSet
    <2>2. QueueSet' = {write_queue'[k] : k \in 1 .. n + 1}
      BY <1>9 DEF QueueSet
    <2>3. ASSUME NEW k \in 1 .. n + 1 PROVE write_queue'[k] \in QueueSet \union {w}
      <3>1. CASE k < p
        BY <2>1, <3>1, <1>7
      <3>2. CASE k = p
        BY <3>2, <1>5
      <3>3. CASE k > p
        BY <2>1, <3>3, <1>8
      <3> QED BY <3>1, <3>2, <3>3, <1>2
    <2>4. ASSUME NEW k \in 1 .. n PROVE \E l \in 1 .. n + 1 : write_queue'[l] = write_queue[k]
      <3>1. CASE k < p
        <4>1. k \in 1 .. n + 1
          BY <1>2
        <4> QED BY <3>1, <4>1, <1>7
      <3>2. CASE k >= p
        <4>1. k + 1 \in 1 .. n + 1 /\ k + 1 > p /\ (k + 1) - 1 = k
          BY <3>2, <1>2
        <4>2. write_queue'[k + 1] = write_queue[(k + 1) - 1]
          BY <4>1, <1>8
        <4> QED BY <4>1, <4>2
      <3> QED BY <3>1, <3>2, <1>2
    <2>5. p \in 1 .. n + 1
      OBVIOUS
    <2> QED BY <2>1, <2>2, <2>3, <2>4, <2>5, <1>5
  <1>14. \A v \in QueueSet : v.id < w.id
    BY <1>3, <1>6, <1>9 DEF QueueSet
  <1> QED BY <1>3, <1>10, <1>11, <1>12, <1>13, <1>14 DEF PortInv

-----------------------------------------------------------------------------
\* The loop of commit takes the first write and leaves the rest in place.
LEMMA CommitQueue ==
  ASSUME TypeOK, CommitEntry
  PROVE  /\ Len(write_queue) \in Nat /\ Len(write_queue) >= 1
         /\ Entries = 1 .. Len(write_queue)
         /\ write_queue[1] \in Writes
         /\ write_queue' \in Seq(Writes)
         /\ Entries' = 1 .. Len(write_queue) - 1
         /\ \A k \in Entries' : k + 1 \in Entries /\ write_queue'[k] = write_queue[k + 1]
         /\ data' = [data EXCEPT ![write_queue[1].index] =
                                   Updated(data[write_queue[1].index], write_queue[1])]
  <1>1. write_queue \in Seq(Writes) /\ write_queue # << >> /\ write_queue' = Tail(write_queue)
    BY DEF TypeOK, CommitEntry
  <1>2. Head(write_queue) = write_queue[1]
    BY <1>1
  <1>3. Len(write_queue) \in Nat /\ Len(write_queue) >= 1
    BY <1>1
  <1>4. /\ write_queue' \in Seq(Writes) /\ Len(write_queue') = Len(write_queue) - 1
        /\ \A k \in 1 .. Len(write_queue) - 1 : write_queue'[k] = write_queue[k + 1]
    BY <1>1, <1>3
  <1>5. Entries = 1 .. Len(write_queue) /\ Entries' = 1 .. Len(write_queue) - 1
    BY <1>1, <1>3, <1>4 DEF Entries
  <1>6. \A k \in Entries' : k + 1 \in Entries
    BY <1>3, <1>5
  <1>7. data' = [data EXCEPT ![write_queue[1].index] =
                               Updated(data[write_queue[1].index], write_queue[1])]
    BY <1>2 DEF CommitEntry
  <1>8. write_queue[1] \in Writes
    BY <1>1, <1>3
  <1> QED
    BY <1>3, <1>4, <1>5, <1>6, <1>7, <1>8

\* An entry of commit keeps the invariant.
LEMMA CommitEntryInv ==
  ASSUME DomainAssumption, PortInv, CommitEntry
  PROVE  PortInv'
  <1> DEFINE w == write_queue[1]
             i == w.index
  <1>1. TypeOK
    BY DEF PortInv
  <1>2. w \in Writes /\ write_queue' \in Seq(Writes)
    BY <1>1, CommitQueue
  <1>3. i \in Index /\ w.val \in [Bits -> Sym] /\ w = Head(write_queue)
    BY <1>1, <1>2 DEF Writes, TypeOK, CommitEntry
  <1> HIDE DEF w
  <1>4. Updated(data[i], w) \in [Bits -> Sym]
    BY <1>1, <1>3 DEF Updated, TypeOK
  <1>5. data' \in [Index -> [Bits -> Sym]]
    BY <1>1, <1>3, <1>4 DEF CommitEntry, TypeOK
  <1>6. stab' \in [Index -> [Bits -> BOOLEAN]]
    BY <1>1, <1>3 DEF CommitEntry, TypeOK
  <1>7. ConcOf(Updated(data[i], w)) \in [Bits -> BOOLEAN]
    BY <1>4 DEF ConcOf, DomainAssumption
  <1>8. shadow' \in [Index -> [Bits -> BOOLEAN]]
    BY <1>1, <1>3, <1>7 DEF CommitEntry, TypeOK
  <1>9. changed' \in BOOLEAN
    BY <1>1 DEF CommitEntry, TypeOK
  <1>10. TypeOK'
    BY <1>1, <1>2, <1>5, <1>6, <1>8, <1>9 DEF CommitEntry, TypeOK
  <1>11. Sorted'
    <2> SUFFICES ASSUME NEW j \in Entries', NEW k \in Entries', j < k
                 PROVE  \/ write_queue'[j].priority < write_queue'[k].priority
                        \/ /\ write_queue'[j].priority = write_queue'[k].priority
                           /\ write_queue'[j].id < write_queue'[k].id
      BY DEF Sorted
    <2>1. /\ j + 1 \in Entries /\ write_queue'[j] = write_queue[j + 1]
          /\ k + 1 \in Entries /\ write_queue'[k] = write_queue[k + 1]
      BY <1>1, CommitQueue
    <2>2. j + 1 < k + 1
      BY <1>1, CommitQueue
    <2> QED BY <2>1, <2>2 DEF PortInv, Sorted
  <1>12. Ranked'
    BY DEF Ranked, CommitEntry
  <1> QED BY <1>10, <1>11, <1>12 DEF PortInv

\* The initial states satisfy the invariant.
LEMMA InitInv == ASSUME DomainAssumption, Init PROVE PortInv
  <1>1. TypeOK
    <2>1. shadow \in [Index -> [Bits -> BOOLEAN]]
      BY DEF Init, ConcOf, DomainAssumption
    <2>2. stab \in [Index -> [Bits -> BOOLEAN]] /\ write_queue \in Seq(Writes)
      BY DEF Init
    <2> QED BY <2>1, <2>2 DEF Init, TypeOK
  <1> QED BY <1>1 DEF Init, PortInv, Sorted, Ranked, Entries

\* The actions that leave the queue alone keep the invariant.
LEMMA QuietInv ==
  ASSUME DomainAssumption, PortInv, 
         \/ \E i \in Index : Hook(i)
         \/ LeakMem \/ Abandon \/ BeginCommit \/ EndCommit \/ UNCHANGED vars
  PROVE  PortInv'
  <1> USE DEF PortInv, TypeOK, Sorted, Ranked, Entries
  <1>1. ASSUME NEW i \in Index, Hook(i) PROVE PortInv'
    BY <1>1 DEF Hook
  <1>2. CASE LeakMem
    BY <1>2 DEF LeakMem
  <1>3. CASE Abandon
    <2>1. phase # "commit"
      BY <1>3 DEF Abandon
    <2> QED BY <1>3, <2>1 DEF Abandon
  <1>4. CASE BeginCommit
    BY <1>4 DEF BeginCommit
  <1>5. CASE EndCommit
    <2>1. Entries' = {}
      BY <1>5 DEF EndCommit
    <2> QED BY <1>5, <2>1 DEF EndCommit
  <1>6. CASE UNCHANGED vars
    BY <1>6 DEF vars
  <1> QED BY <1>1, <1>2, <1>3, <1>4, <1>5, <1>6

LEMMA StepInv == ASSUME DomainAssumption, PortInv, [Next]_vars PROVE PortInv'
  <1>1. ASSUME NEW i \in Index, PortUpdate(i) PROVE PortInv'
    BY <1>1, EnqueueInv DEF PortUpdate, PortInv, TypeOK
  <1>2. ASSUME NEW i \in Index, HarnessUpdate(i) PROVE PortInv'
    BY <1>2, EnqueueInv DEF HarnessUpdate
  <1> QED BY <1>1, <1>2, QuietInv, CommitEntryInv DEF Next

\* The queue stays sorted by priority and by call, for any number of writes:
\* std::upper_bound inserts where commit needs the write to be.
THEOREM QueueSorted == Spec => [](TypeOK /\ Sorted)
  <1>1. Init => PortInv
    BY DomainAssumption, InitInv
  <1>2. PortInv /\ [Next]_vars => PortInv'
    BY DomainAssumption, StepInv
  <1>3. PortInv => TypeOK /\ Sorted
    BY DEF PortInv
  <1> QED BY <1>1, <1>2, <1>3, PTL DEF Spec

-----------------------------------------------------------------------------
(* Refinement *)

\* The last position is the only one CHOOSE can return.
LEMMA ChosenLast ==
  ASSUME NEW P, P \subseteq Nat, NEW k \in P, \A l \in P : l <= k
  PROVE  (CHOOSE m \in P : \A l \in P : l <= m) = k
  <1>1. ASSUME NEW m \in P, \A l \in P : l <= m PROVE m = k
    <2>1. m <= k /\ k <= m /\ m \in Nat /\ k \in Nat
      BY <1>1
    <2> QED BY <2>1
  <1> QED BY <1>1

\* Final at a bit no entry writes, and at a bit whose last entry is k.
LEMMA FinalAt ==
  ASSUME NEW i \in Index, NEW b \in Bits, Entries \subseteq Nat
  PROVE  /\ Pending(i, b) = {} => Final[i][b] = data[i][b]
         /\ \A k \in Pending(i, b) :
              (\A l \in Pending(i, b) : l <= k) => Final[i][b] = write_queue[k].val[b]
  <1>1. Pending(i, b) \subseteq Nat
    BY DEF Pending
  <1>2. Final[i][b] =
          IF Pending(i, b) = {} THEN data[i][b]
          ELSE write_queue[CHOOSE k \in Pending(i, b) :
                             \A l \in Pending(i, b) : l <= k].val[b]
    BY DEF Final
  <1>3. ASSUME NEW k \in Pending(i, b), \A l \in Pending(i, b) : l <= k
        PROVE  Final[i][b] = write_queue[k].val[b]
    <2>1. (CHOOSE m \in Pending(i, b) : \A l \in Pending(i, b) : l <= m) = k
      BY <1>1, <1>3, ChosenLast
    <2> QED BY <1>2, <2>1
  <1> QED BY <1>2, <1>3

\* At the clock edge a sorted queue leaves every bit what the write of the
\* highest rank gives it.
LEMMA FinalIsResolved ==
  ASSUME PortInv
  PROVE  Final = AM!Resolved(QueueSet, data)
  <1>1. write_queue \in Seq(Writes) /\ Entries \in SUBSET (1 .. Len(write_queue))
    BY DEF PortInv, TypeOK, Entries
  <1>2. Entries \subseteq Nat /\ \A k \in Entries : write_queue[k] \in Writes
    BY <1>1 DEF Entries
  <1> SUFFICES ASSUME NEW i \in Index, NEW b \in Bits
               PROVE  Final[i][b] = AM!Resolved(QueueSet, data)[i][b]
    BY DEF Final, AM!Resolved
  <1>3. AM!Resolved(QueueSet, data)[i][b] =
          IF \E w \in QueueSet : AM!Covers(w, i, b)
          THEN AM!Winner(QueueSet, i, b).val[b] ELSE data[i][b]
    BY DEF AM!Resolved
  <1>4. CASE Pending(i, b) = {}
    <2>1. ~\E w \in QueueSet : AM!Covers(w, i, b)
      BY <1>4 DEF QueueSet, AM!Covers, Pending
    <2> QED BY <1>2, <1>3, <1>4, <2>1, FinalAt
  <1>5. CASE Pending(i, b) # {}
    <2>1. Pending(i, b) \in SUBSET (1 .. Len(write_queue)) /\ Len(write_queue) \in Nat
      BY <1>1 DEF Pending
    <2>2. PICK k \in Pending(i, b) : \A l \in Pending(i, b) : l <= k
      BY <1>5, <2>1, LastExists
    <2> DEFINE u == write_queue[k]
    <2>3. u \in QueueSet /\ AM!Covers(u, i, b)
      BY DEF QueueSet, AM!Covers, Pending
    <2>4. ASSUME NEW v \in QueueSet, AM!Covers(v, i, b), v # u
          PROVE  AM!Outranks(u, v) /\ ~AM!Outranks(v, u)
      <3>1. PICK l \in Pending(i, b) : v = write_queue[l]
        BY <2>4 DEF QueueSet, AM!Covers, Pending
      <3>2. l \in Entries /\ k \in Entries /\ l \in Nat /\ k \in Nat
        BY <1>2 DEF Pending
      <3>3. l < k
        BY <2>2, <2>4, <3>1, <3>2
      <3>4. v.priority < u.priority \/ (v.priority = u.priority /\ v.id < u.id)
        BY <3>1, <3>2, <3>3 DEF PortInv, Sorted
      <3>5. v.priority \in Nat /\ u.priority \in Nat /\ v.id \in Nat /\ u.id \in Nat
        BY <1>2, <3>1, <3>2, DomainAssumption DEF Writes, DomainAssumption
      <3> QED BY <3>4, <3>5 DEF AM!Outranks
    <2>5. AM!Winner(QueueSet, i, b) = u
      <3> HIDE DEF u
      <3> QED BY <2>3, <2>4 DEF AM!Winner
    <2>6. Final[i][b] = u.val[b]
      BY <1>2, <2>2, FinalAt
    <2> QED BY <1>3, <2>3, <2>5, <2>6
  <1> QED BY <1>4, <1>5

\* An entry of the loop of commit does not change what the queue will make of
\* the memory.
LEMMA FinalKept ==
  ASSUME DomainAssumption, PortInv, CommitEntry
  PROVE  Final' = Final
  <1> DEFINE w == write_queue[1]
  <1>1. TypeOK /\ TypeOK'
    BY CommitEntryInv DEF PortInv
  <1>2. /\ Len(write_queue) \in Nat /\ Len(write_queue) >= 1
        /\ Entries = 1 .. Len(write_queue) /\ Entries' = 1 .. Len(write_queue) - 1
        /\ w \in Writes
        /\ \A k \in Entries' : k + 1 \in Entries /\ write_queue'[k] = write_queue[k + 1]
        /\ data' = [data EXCEPT ![w.index] = Updated(data[w.index], w)]
    BY <1>1, CommitQueue
  <1> SUFFICES ASSUME NEW i \in Index, NEW b \in Bits
               PROVE  Final'[i][b] = Final[i][b]
    BY DEF Final
  <1> DEFINE P == Pending(i, b)
             Q == {k \in Entries' : write_queue'[k].index = i /\ b \in write_queue'[k].mask}
  <1>3. Final'[i][b] =
          IF Q = {} THEN data'[i][b]
          ELSE write_queue'[CHOOSE k \in Q : \A l \in Q : l <= k].val[b]
    BY DEF Final, Pending
  <1>4. \A k \in Entries' : k \in Q <=> k + 1 \in P
    BY <1>2 DEF Pending
  <1>5. Entries \subseteq Nat /\ P \in SUBSET (1 .. Len(write_queue))
        /\ Q \in SUBSET (1 .. Len(write_queue) - 1) /\ Q \subseteq Nat
    BY <1>2 DEF Pending
  <1>6. \A l \in P : l = 1 \/ l - 1 \in Q
    <2> SUFFICES ASSUME NEW l \in P, l # 1 PROVE l - 1 \in Q
      OBVIOUS
    <2>1. l - 1 \in Entries' /\ (l - 1) + 1 = l
      BY <1>2, <1>5
    <2> QED BY <2>1, <1>4
  <1>7. CASE Q # {}
    <2>0. Len(write_queue) - 1 \in Nat
      BY <1>2
    <2>1. PICK k \in Q : \A l \in Q : l <= k
      <3> HIDE DEF Q
      <3> QED BY <1>5, <1>7, <2>0, LastExists
    <2>2. Final'[i][b] = write_queue'[k].val[b]
      <3> HIDE DEF Q
      <3>1. (CHOOSE m \in Q : \A l \in Q : l <= m) = k
        BY <2>1, <1>5, ChosenLast
      <3> QED BY <1>3, <1>7, <3>1
    <2>3. k + 1 \in P /\ write_queue'[k] = write_queue[k + 1]
      BY <1>2, <1>4
    <2>4. ASSUME NEW l \in P PROVE l <= k + 1
      <3>1. CASE l = 1
        BY <3>1, <1>5
      <3>2. CASE l - 1 \in Q
        <4>1. l - 1 <= k
          BY <2>1, <3>2
        <4> QED BY <4>1, <1>5
      <3> QED BY <3>1, <3>2, <1>6
    <2>5. Final[i][b] = write_queue[k + 1].val[b]
      BY <1>5, <2>3, <2>4, FinalAt
    <2> QED BY <2>2, <2>3, <2>5
  <1>8. CASE Q = {}
    <2>1. Final'[i][b] = data'[i][b]
      BY <1>3, <1>8
    <2>2. w.index \in Index /\ w.val \in [Bits -> Sym] /\ data \in [Index -> [Bits -> Sym]]
      BY <1>1, <1>2 DEF Writes, TypeOK
    <2>3. data'[i][b] = IF w.index = i /\ b \in w.mask THEN w.val[b] ELSE data[i][b]
      BY <1>2, <2>2 DEF Updated
    <2>4. 1 \in Entries
      BY <1>2
    <2>5. CASE w.index = i /\ b \in w.mask
      <3>1. 1 \in P
        BY <2>4, <2>5 DEF Pending
      <3>2. \A l \in P : l <= 1
        BY <1>6, <1>8
      <3> QED BY <1>5, <2>1, <2>3, <2>5, <3>1, <3>2, FinalAt
    <2>6. CASE ~(w.index = i /\ b \in w.mask)
      <3>1. 1 \notin P
        BY <2>6 DEF Pending
      <3>2. P = {}
        BY <1>6, <1>8, <3>1
      <3> QED BY <1>5, <2>1, <2>3, <2>6, <3>2, FinalAt
    <2> QED BY <2>5, <2>6
  <1> QED BY <1>7, <1>8

\* Every step of the port is a step of the atomic memory, or hidden from it.
LEMMA StepRefines ==
  ASSUME DomainAssumption, PortInv, [Next]_vars
  PROVE  [AM!Next]_<< IF phase = "commit" THEN Final ELSE data,
                      IF phase = "commit" THEN {} ELSE QueueSet >>
  <1> DEFINE adata == IF phase = "commit" THEN Final ELSE data
             apending == IF phase = "commit" THEN {} ELSE QueueSet
  <1>1. ASSUME NEW i \in Index, Enqueue(i), aborted' \in BOOLEAN PROVE AM!Update
    <2>1. PICK w \in Writes : /\ w.index = i /\ \A v \in QueueSet : v.id < w.id
                              /\ QueueSet' = QueueSet \union {w}
      BY <1>1, EnqueueInv
    <2>2. phase = "eval" /\ phase' = "eval" /\ data' = data
      BY <1>1 DEF Enqueue
    <2>3. w \in AM!Write
      BY DEF Writes, AM!Write
    <2> QED BY <2>1, <2>2, <2>3 DEF AM!Update
  <1>2. ASSUME NEW i \in Index, PortUpdate(i) \/ HarnessUpdate(i) PROVE AM!Next
    <2>1. Enqueue(i) /\ aborted' \in BOOLEAN
      <3>1. CASE PortUpdate(i)
        BY <3>1 DEF PortUpdate, PortInv, TypeOK
      <3>2. CASE HarnessUpdate(i)
        BY <3>2 DEF HarnessUpdate
      <3> QED BY <1>2, <3>1, <3>2
    <2> QED BY <1>1, <2>1 DEF AM!Next
  <1>3. ASSUME NEW i \in Index, Hook(i) PROVE UNCHANGED << adata, apending >>
    BY <1>3 DEF Hook, QueueSet, Entries
  <1>4. CASE LeakMem
    BY <1>4 DEF LeakMem, QueueSet, Entries
  <1>5. CASE Abandon
    BY <1>5 DEF Abandon, QueueSet, Entries
  <1>6. CASE BeginCommit
    <2>1. phase # "commit" /\ phase' = "commit" /\ data' = data /\ write_queue' = write_queue
      BY <1>6 DEF BeginCommit
    <2>2. Final' = Final
      BY <2>1 DEF Final, Pending, Entries
    <2>3. adata' = AM!Resolved(apending, adata) /\ apending' = {}
      BY <2>1, <2>2, FinalIsResolved
    <2> QED BY <2>3 DEF AM!Next, AM!Edge
  <1>7. CASE CommitEntry
    <2>1. phase = "commit" /\ phase' = "commit"
      BY <1>7 DEF CommitEntry
    <2> QED BY <1>7, <2>1, FinalKept
  <1>8. CASE EndCommit
    <2>1. phase = "commit" /\ phase' = "eval" /\ data' = data
          /\ write_queue = << >> /\ write_queue' = << >>
      BY <1>8 DEF EndCommit
    <2>2. Entries = {} /\ QueueSet' = {}
      BY <2>1 DEF Entries, QueueSet
    <2>3. data \in [Index -> [Bits -> Sym]]
      BY DEF PortInv, TypeOK
    <2>4. Final = data
      BY <2>2, <2>3 DEF Final, Pending
    <2> QED BY <2>1, <2>2, <2>4
  <1>9. CASE UNCHANGED vars
    BY <1>9 DEF vars, QueueSet, Final, Pending, Entries
  <1> QED BY <1>2, <1>3, <1>4, <1>5, <1>6, <1>7, <1>8, <1>9 DEF Next

LEMMA InitRefines == Init => AM!Init
  BY DEF Init, AM!Init, QueueSet, Entries

\* commit() implements an atomic memory with prioritised ports (memory::update
\* and memory::commit), whatever the cells, the bits, the priorities and the
\* number of queued writes.
THEOREM Refinement == Spec => Atomic
  <1>1. Init => PortInv
    BY DomainAssumption, InitInv
  <1>2. PortInv /\ [Next]_vars => PortInv'
    BY DomainAssumption, StepInv
  <1>3. PortInv /\ [Next]_vars =>
          [AM!Next]_<< IF phase = "commit" THEN Final ELSE data,
                       IF phase = "commit" THEN {} ELSE QueueSet >>
    BY DomainAssumption, StepRefines
  <1> QED BY <1>1, <1>2, <1>3, InitRefines, PTL DEF Spec, Atomic, AM!Spec

-----------------------------------------------------------------------------
(* The observer, the value commit returns and the set of written cells *)

\* While commit runs, changed tells whether it may have altered the concrete memory.
ChangedKnown ==
  phase = "commit" /\ ~changed => \A i \in Index : ConcOf(data[i]) = ConcOf(before[i])

CommitInv == ObserverExact /\ ChangedKnown /\ WrittenCovers

\* An entry of commit changes one cell, a written one, and if it changes its
\* concrete value it says so and tells the observer.
LEMMA CommitEntryEffects ==
  ASSUME DomainAssumption, PortInv, CommitInv, CommitEntry
  PROVE  CommitInv'
  <1> DEFINE w == write_queue[1]
             c == w.index
             elem_up == Updated(data[c], w)
             differs == ConcOf(elem_up) # ConcOf(data[c])
  <1>1. TypeOK
    BY DEF PortInv
  <1>2. /\ w \in Writes /\ 1 \in Entries
        /\ \A k \in Entries' : k + 1 \in Entries /\ write_queue'[k] = write_queue[k + 1]
    BY <1>1, CommitQueue
  <1>3. w = Head(write_queue)
    BY <1>1 DEF TypeOK, CommitEntry
  <1>4. c \in Index /\ c \in QueuedCells /\ QueuedCells' \subseteq QueuedCells
    BY <1>2 DEF Writes, QueuedCells
  <1>5. /\ data' = [data EXCEPT ![c] = elem_up]
        /\ changed' = (changed \/ differs)
        /\ shadow' = IF differs THEN [shadow EXCEPT ![c] = ConcOf(elem_up)] ELSE shadow
        /\ \A i \in Index : i # c => stab'[i] = stab[i]
        /\ UNCHANGED << phase, written, before >>
    BY <1>1, <1>3 DEF CommitEntry, TypeOK
  <1>6. data \in [Index -> [Bits -> Sym]] /\ shadow \in [Index -> [Bits -> BOOLEAN]]
    BY <1>1 DEF TypeOK
  <1>7. \A i \in Index : data'[i] = IF i = c THEN elem_up ELSE data[i]
    BY <1>5, <1>6
  <1> HIDE DEF elem_up, c
  <1>8. ObserverExact'
    <2> SUFFICES ASSUME NEW i \in Index PROVE shadow'[i] = ConcOf(data'[i])
      BY DEF ObserverExact, ConcOf
    <2>1. shadow[i] = ConcOf(data[i])
      BY DEF CommitInv, ObserverExact
    <2>2. CASE differs
      BY <1>4, <1>5, <1>6, <1>7, <2>1, <2>2
    <2>3. CASE ~differs
      BY <1>5, <1>7, <2>1, <2>3
    <2> QED BY <2>2, <2>3
  <1>9. ChangedKnown'
    <2> SUFFICES ASSUME ~changed', NEW i \in Index
                 PROVE  ConcOf(data'[i]) = ConcOf(before[i])
      BY <1>5 DEF ChangedKnown, ConcOf
    <2>1. ~changed /\ ~differs
      BY <1>5
    <2>2. ConcOf(data[i]) = ConcOf(before[i])
      BY <2>1 DEF CommitInv, ChangedKnown, CommitEntry
    <2> QED BY <1>7, <2>1, <2>2
  <1>10. WrittenCovers'
    <2> SUFFICES ASSUME NEW i \in Index, i \notin written
                 PROVE  i \notin QueuedCells' /\ before[i] = data'[i]
                        /\ ~\E b \in Bits : stab'[i][b]
      BY <1>5 DEF WrittenCovers
    <2>1. i \notin QueuedCells /\ before[i] = data[i] /\ ~\E b \in Bits : stab[i][b]
      BY DEF CommitInv, WrittenCovers
    <2>2. i # c
      BY <1>4, <2>1
    <2> QED BY <1>4, <1>5, <1>7, <2>1, <2>2
  <1> QED BY <1>8, <1>9, <1>10 DEF CommitInv

\* A call of update queues a write for a cell it adds to written.
LEMMA EnqueueEffects ==
  ASSUME DomainAssumption, PortInv, CommitInv, NEW i \in Index, Enqueue(i), aborted' \in BOOLEAN
  PROVE  CommitInv'
  <1>1. /\ written' = written \union {i}
        /\ UNCHANGED << phase, data, stab, changed, shadow, before >>
    BY DEF Enqueue
  <1>2. PICK w \in Writes : w.index = i /\ QueueSet' = QueueSet \union {w}
    BY EnqueueInv
  <1>3. QueuedCells' \subseteq QueuedCells \union {i}
    BY <1>2 DEF QueuedCells, QueueSet
  <1> QED
    BY <1>1, <1>3 DEF CommitInv, ObserverExact, ChangedKnown, WrittenCovers, ConcOf

LEMMA CommitStep == ASSUME DomainAssumption, PortInv, CommitInv, [Next]_vars PROVE CommitInv'
  <1> USE DEF CommitInv, ObserverExact, ChangedKnown, WrittenCovers, ConcOf, QueuedCells, Entries
  <1>1. ASSUME NEW i \in Index, PortUpdate(i) \/ HarnessUpdate(i) PROVE CommitInv'
    <2>1. Enqueue(i) /\ aborted' \in BOOLEAN
      <3>1. CASE PortUpdate(i)
        BY <3>1 DEF PortUpdate, PortInv, TypeOK
      <3>2. CASE HarnessUpdate(i)
        BY <3>2 DEF HarnessUpdate
      <3> QED BY <1>1, <3>1, <3>2
    <2> QED BY <2>1, EnqueueEffects
  <1>2. ASSUME NEW i \in Index, Hook(i) PROVE CommitInv'
    BY <1>2 DEF Hook
  <1>3. CASE LeakMem
    BY <1>3 DEF LeakMem
  <1>4. CASE Abandon
    BY <1>4 DEF Abandon
  <1>5. CASE BeginCommit
    BY <1>5 DEF BeginCommit
  <1>6. CASE CommitEntry
    BY <1>6, CommitEntryEffects
  <1>7. CASE EndCommit
    BY <1>7 DEF EndCommit
  <1>8. CASE UNCHANGED vars
    BY <1>8 DEF vars
  <1> QED BY <1>1, <1>2, <1>3, <1>4, <1>5, <1>6, <1>7, <1>8 DEF Next

LEMMA CommitInvariant == Spec => []CommitInv
  <1>1. Init => PortInv /\ CommitInv
    <2> SUFFICES ASSUME Init PROVE CommitInv
      BY DomainAssumption, InitInv
    <2> QED
      BY DEF Init, CommitInv, ObserverExact, ChangedKnown, WrittenCovers, ConcOf,
             QueuedCells, Entries
  <1>2. PortInv /\ CommitInv /\ [Next]_vars => PortInv' /\ CommitInv'
    BY DomainAssumption, StepInv, CommitStep
  <1> QED BY <1>1, <1>2, PTL DEF Spec

\* The observer of memory::commit has the concrete memory at every moment, and
\* commit never hides a concrete change from Manager::step.
THEOREM ObserverFaithful == Spec => [](ObserverExact /\ NoSilentChange)
  <1>1. CommitInv => ObserverExact /\ NoSilentChange
    BY DEF CommitInv, ChangedKnown, NoSilentChange
  <1> QED BY <1>1, CommitInvariant, PTL

\* A cell outside written (whose LeakSets symb_keep does not mark) was never
\* touched and no queued write will touch it.
THEOREM WrittenFaithful == Spec => []WrittenCovers
  <1>1. CommitInv => WrittenCovers
    BY DEF CommitInv
  <1> QED BY <1>1, CommitInvariant, PTL

-----------------------------------------------------------------------------
(* What leak_mem gives to the verification *)

\* Until it is verified, the database holds for every queued cell what one of
\* its writes makes of it, and neither the queue nor the cells move.
ForeseenInv ==
  phase = "verify" =>
    \E last \in [QueuedCells -> Entries] :
      /\ \A i \in QueuedCells : write_queue[last[i]].index = i
      /\ foreseen = [i \in QueuedCells |-> Updated(data[i], write_queue[last[i]])]

\* The only write queued for a cell decides all it will hold.
LEMMA OnlyWriteDecides ==
  ASSUME TypeOK, NEW k \in Entries, NEW i, i = write_queue[k].index,
         \A j \in Entries : write_queue[j].index = i => j = k
  PROVE  Final[i] = Updated(data[i], write_queue[k])
  <1>1. Entries \subseteq Nat /\ write_queue[k] \in Writes
    BY DEF TypeOK, Entries
  <1>2. i \in Index
    BY <1>1 DEF Writes
  <1> SUFFICES ASSUME NEW b \in Bits PROVE Final[i][b] = Updated(data[i], write_queue[k])[b]
    BY <1>2 DEF Final, Updated
  <1>3. Updated(data[i], write_queue[k])[b] =
          IF b \in write_queue[k].mask THEN write_queue[k].val[b] ELSE data[i][b]
    BY DEF Updated
  <1>4. CASE b \in write_queue[k].mask
    <2>1. k \in Pending(i, b) /\ \A l \in Pending(i, b) : l <= k
      BY <1>1, <1>4 DEF Pending
    <2> QED BY <1>1, <1>2, <1>3, <1>4, <2>1, FinalAt
  <1>5. CASE b \notin write_queue[k].mask
    <2>1. Pending(i, b) = {}
      BY <1>5 DEF Pending
    <2> QED BY <1>1, <1>2, <1>3, <1>5, <2>1, FinalAt
  <1> QED BY <1>4, <1>5

\* memory::leak_mem announces to the manager what the cell will hold after the
\* edge, for every cell with one queued write: whatever the value, the mask
\* and the other cells' writes.
THEOREM ForeseenExact == Spec => []Foreseen
  <1>1. Init => PortInv /\ ForeseenInv
    <2>1. Init => ForeseenInv
      BY DEF Init, ForeseenInv
    <2> QED BY <2>1, DomainAssumption, InitInv
  <1>2. PortInv /\ ForeseenInv /\ [Next]_vars => PortInv' /\ ForeseenInv'
    <2> SUFFICES ASSUME PortInv, ForeseenInv, [Next]_vars PROVE ForeseenInv'
      BY DomainAssumption, StepInv
    <2>1. ASSUME NEW i \in Index, PortUpdate(i) \/ HarnessUpdate(i) \/ Hook(i) PROVE ForeseenInv'
      BY <2>1 DEF PortUpdate, HarnessUpdate, Enqueue, Hook, ForeseenInv
    <2>2. CASE LeakMem
      <3>1. PICK last \in [QueuedCells -> Entries] :
              /\ \A i \in QueuedCells : write_queue[last[i]].index = i
              /\ foreseen' = [i \in QueuedCells |-> Updated(data[i], write_queue[last[i]])]
        BY <2>2 DEF LeakMem
      <3>2. UNCHANGED << data, write_queue >>
        BY <2>2 DEF LeakMem
      <3>3. UNCHANGED << Entries, QueuedCells >>
        BY <3>2 DEF Entries, QueuedCells
      <3>4. \E l \in [QueuedCells' -> Entries'] :
              /\ \A i \in QueuedCells' : write_queue'[l[i]].index = i
              /\ foreseen' = [i \in QueuedCells' |-> Updated(data'[i], write_queue'[l[i]])]
        BY <3>1, <3>2, <3>3
      <3> QED BY <3>4 DEF ForeseenInv, Updated
    <2>3. CASE Abandon \/ BeginCommit \/ CommitEntry \/ EndCommit
      BY <2>3 DEF Abandon, BeginCommit, CommitEntry, EndCommit, ForeseenInv
    <2>4. CASE UNCHANGED vars
      <3>1. UNCHANGED << phase, data, write_queue, foreseen >>
        BY <2>4 DEF vars
      <3>2. UNCHANGED << Entries, QueuedCells >>
        BY <3>1 DEF Entries, QueuedCells
      <3>3. SUFFICES ASSUME phase = "verify" PROVE ForeseenInv'
        BY <3>1 DEF ForeseenInv
      <3>4. PICK last \in [QueuedCells -> Entries] :
              /\ \A i \in QueuedCells : write_queue[last[i]].index = i
              /\ foreseen = [i \in QueuedCells |-> Updated(data[i], write_queue[last[i]])]
        BY <3>3 DEF ForeseenInv
      <3>5. \E l \in [QueuedCells' -> Entries'] :
              /\ \A i \in QueuedCells' : write_queue'[l[i]].index = i
              /\ foreseen' = [i \in QueuedCells' |-> Updated(data'[i], write_queue'[l[i]])]
        BY <3>1, <3>2, <3>4
      <3> QED BY <3>5 DEF ForeseenInv, Updated
    <2> QED BY <2>1, <2>2, <2>3, <2>4 DEF Next
  <1>3. PortInv /\ ForeseenInv => Foreseen
    <2> SUFFICES ASSUME PortInv, ForeseenInv, phase = "verify", NEW i \in QueuedCells,
                        \A j, k \in Entries :
                          write_queue[j].index = i /\ write_queue[k].index = i => j = k
                 PROVE  foreseen[i] = Final[i]
      BY DEF Foreseen
    <2>1. PICK last \in [QueuedCells -> Entries] :
            /\ \A c \in QueuedCells : write_queue[last[c]].index = c
            /\ foreseen = [c \in QueuedCells |-> Updated(data[c], write_queue[last[c]])]
      BY DEF ForeseenInv
    <2>2. last[i] \in Entries /\ write_queue[last[i]].index = i
      BY <2>1
    <2>3. Final[i] = Updated(data[i], write_queue[last[i]])
      BY <2>2, OnlyWriteDecides DEF PortInv
    <2> QED BY <2>1, <2>3
  <1> QED BY <1>1, <1>2, <1>3, PTL DEF Spec
=============================================================================
