-------------------- MODULE LockFreeClockServer_proofs --------------------
(***************************************************************************)
(* Proofs about LockFreeClockServer, for any clock domains, lookahead and  *)
(* threads: as long as the frequencies do not change, a worker only reads  *)
(* events inside the lookahead window, which the server never disturbs,    *)
(* and calls its callbacks once for each cycle, in order.  At the end, the *)
(* tasks of DynamicClockServer, which works on the same ring.              *)
(***************************************************************************)
EXTENDS LockFreeClockServer, FiniteSetTheorems, WellFoundedInduction, TLAPS

-----------------------------------------------------------------------------
(* What the theorems assume of the constants *)

\* Less than half of the ring is in use.  Were it more, the limit could come
\* round to the stale head that is_ready compares it with, and a thread would
\* take the first of the events of one time for all of them.
RoomToSpare == 2 * Cardinality(Instance) < RingSize

\* The word that no constructor sets does not open the barrier.
UninitBlocks == \A u \in UninitTime : u < 0

-----------------------------------------------------------------------------
(* The ring as a line of events *)

Size == Cardinality(Instance)

\* The time of the n-th cycle of a registry.
Due(r, n) == firstTime[r] + n * InitStep[r]

\* How far an index is from another, going round the ring.
Off(i, from) == IF i >= from THEN i - from ELSE i - from + RingSize

\* The index n further.
Pos(from, n) == IF from + n < RingSize THEN from + n ELSE from + n - RingSize

\* The elements from an index on.
Stretch(elems, from, size) == [n \in 0..size - 1 |-> elems[Pos(from, n)]]

\* The same, while those after the d-th are moved up for one that comes in,
\* and e has been displaced last.
Opened(elems, from, d, e) ==
    [n \in 0..Size - 1 |-> IF n <= d THEN elems[Pos(from, n)]
                           ELSE IF n = d + 1 THEN e ELSE elems[Pos(from, n - 1)]]

\* The events in the ring, from the head on, as they will be when the
\* insertion under way is over.
Waiting == IF serverPc = "find" THEN Size - 1 ELSE Size

Line == IF serverPc = "shift" THEN Opened(element, head, Off(ins, head), prev)
        ELSE Stretch(element, head, Waiting)

Members == IF serverPc = "find" THEN Instance \ {event} ELSE Instance

\* Every member is in the line once.
Complete(line, members, size) ==
    /\ line \in [0..size - 1 -> members]
    /\ \A e \in members : \E n \in 0..size - 1 : line[n] = e
    /\ \A m, n \in 0..size - 1 : m # n => line[m] # line[n]

\* It is in order of time.
Sorted(line, base, size) ==
    \A m, n \in 0..size - 1 : m <= n => base[line[m]] <= base[line[n]]

\* Those before w, and no others, are at most at time edge.
Edge(line, base, size, w, edge) ==
    \A n \in 0..size - 1 : n < w <=> base[line[n]] <= edge

-----------------------------------------------------------------------------
(* The inductive invariant *)

\* The instances of a registry stand for successive cycles, each once.
Successive(r, first, cycles) ==
    /\ \A k \in 1..Instances(r) :
          cycles[<<r, k>>] >= first /\ cycles[<<r, k>>] < first + Instances(r)
    /\ \A m \in first..first + Instances(r) - 1 :
          \E k \in 1..Instances(r) : cycles[<<r, k>>] = m
    /\ \A j, k \in 1..Instances(r) : cycles[<<r, j>>] = cycles[<<r, k>>] => j = k

CycleInv ==
    /\ nStep = InitStep
    /\ \A r \in Registry : nBaseCycle[r] = Due(r, nCycle[r])
    /\ \A e \in Instance : instBase[e] = Due(Parent(e), instCycle[e])
    /\ \A r \in Registry : Successive(r, nCycle[r], instCycle)

LineInv ==
    /\ Complete(Line, Members, Waiting)
    /\ Sorted(Line, instBase, Waiting)
    /\ tail = Pos(head, IF serverPc \in {"find", "shift"} THEN Size - 1 ELSE Size)
    /\ Off(limit, head) <= Waiting
    /\ \E edge \in {-1, currentBaseCycle + lookahead} :
          Edge(Line, instBase, Waiting, Off(limit, head), edge)
    /\ \A e \in Instance : instBase[e] >= currentBaseCycle
    /\ serverPc = "wait" => instBase[Line[0]] = currentBaseCycle
    /\ serverPc = "find" => instBase[event] > currentBaseCycle + lookahead
    /\ serverPc = "shift" => Off(limit, head) <= Off(ins, head) /\ Off(ins, head) <= Size - 1

Walking(t) == workerPc[t] \in {"head", "limit", "read", "run"}

\* A thread that has come to the d-th event of the line, done all of the times
\* up to done, and is at the events got, of time ready.
Reader(line, base, size, d, done, got, ready) ==
    /\ \A n \in 0..size - 1 : n >= d => base[line[n]] > done
    /\ \A n \in 0..size - 1 : n < d => base[line[n]] <= done \/ line[n] \in got
    /\ \A e \in got : base[e] = ready /\ ready > done /\ \E n \in 0..size - 1 : n < d /\ line[n] = e
    /\ got # {} => \A n \in 0..size - 1 : n >= d => base[line[n]] >= ready

\* It has all the events of that time.
Past(line, base, size, d, ready) == \A n \in 0..size - 1 : n >= d => base[line[n]] > ready

ReaderAt(t) ==
    /\ Walking(t) =>
          /\ Reader(Line, instBase, Waiting, Off(index[t], head), localDoneTime[t],
                    clocked[t], localReadyTime[t])
          /\ Off(index[t], head) <= Off(limit, head)
          /\ localDoneTime[t] <= currentBaseCycle + lookahead
          /\ clocked[t] # {} => localReadyTime[t] <= currentBaseCycle + lookahead
    /\ workerPc[t] = "limit" =>
          /\ Off(head, snapshotHead[t]) <= Off(index[t], snapshotHead[t])
          /\ Off(index[t], snapshotHead[t]) <= Size
    /\ workerPc[t] = "read" => Off(index[t], head) < Off(limit, head)
    /\ workerPc[t] = "run" =>
          /\ clocked[t] # {}
          /\ Past(Line, instBase, Waiting, Off(index[t], head), localReadyTime[t])

ReaderInv == \A t \in Thread : ReaderAt(t)

LifeInv ==
    /\ \A t \in Thread :
          /\ workerPc[t] \in {"none", "boot", "init"} => localDoneTime[t] < 0 /\ clocked[t] = {}
          /\ workerPc[t] = "exited" => threadForceExit[t]
          /\ threadForceExit[t] => serverPc \in {"stop", "off", "failed"}
          /\ serverPc \in {"pop", "find", "shift"} => localDoneTime[t] >= currentBaseCycle
    /\ serverPc = "failed" => scenario.again

\* The time up to which a callback has been called.
Mark(c) == IF workerPc[cbThread[c]] = "run" /\ c \notin todo[cbThread[c]]
           THEN localReadyTime[cbThread[c]] ELSE localDoneTime[cbThread[c]]

CallInv ==
    /\ \A c \in Callback :
          /\ nCycle[cbReg[c]] <= calls[c]
          /\ workerPc[cbThread[c]] # "exited" =>
                /\ Due(cbReg[c], calls[c]) > Mark(c)
                /\ calls[c] > 0 => Due(cbReg[c], calls[c] - 1) <= Mark(c)
    /\ \A t \in Thread : workerPc[t] = "run" =>
          \A c \in todo[t] : cbThread[c] = t /\ \E e \in clocked[t] : Parent(e) = cbReg[c]

IInv == CycleInv /\ LineInv /\ ReaderInv /\ LifeInv /\ CallInv

\* A thread that knows the time to collect, and has no event of it yet.
Opening(t) == collecting[t] /\ clocked[t] = {}

\* The event whose time it read stays where it is, so that the loop that asks
\* again whether it is ready finds it.
CollectInv ==
    \A t \in Thread :
       /\ collecting[t] => workerPc[t] \in {"head", "limit", "read"}
       /\ workerPc[t] # "run" /\ ~collecting[t] => clocked[t] = {}
       /\ Opening(t) =>
             /\ Off(index[t], head) < Off(limit, head)
             /\ TimeAt(index[t]) = localReadyTime[t]

IFixed == FixedPeriods => IInv /\ CollectInv

-----------------------------------------------------------------------------
(* The constants *)

\* There are enough instances of a registry to span the lookahead.
LEMMA InstancesSpan ==
    ASSUME NEW r \in Registry
    PROVE  /\ Instances(r) \in Nat \ {0}
           /\ InitStep[r] \in Nat \ {0} /\ firstTime[r] \in Nat /\ lookahead \in Nat
           /\ Instances(r) * InitStep[r] > lookahead + InitStep[r]
<1>1. InitStep[r] \in Nat \ {0} /\ firstTime[r] \in Nat /\ lookahead \in Nat
  BY RingConstants
<1> DEFINE L == lookahead
           S == InitStep[r]
<1>2. ((L + S) \div S + 1) * S > L + S /\ (L + S) \div S \in Nat
  <2> HIDE DEF L, S
  <2>1. L \in Nat /\ S \in Nat \ {0}
    BY <1>1 DEF L, S
  <2> QED BY <2>1, SMT
<1> QED BY <1>1, <1>2 DEF Instances

\* An instance is a pair of its registry and its number.
LEMMA InstanceIsPair ==
    ASSUME NEW e \in Instance
    PROVE  /\ Parent(e) \in Registry /\ e[2] \in 1..Instances(Parent(e))
           /\ e = <<Parent(e), e[2]>>
<1>1. PICK r \in Registry : e \in {<<r, k>> : k \in 1..Instances(r)}
  BY DEF Instance
<1>2. PICK k \in 1..Instances(r) : e = <<r, k>>
  BY <1>1
<1> QED BY <1>2 DEF Parent

\* Every such pair is one.
LEMMA PairIsInstance ==
    ASSUME NEW r \in Registry, NEW k \in 1..Instances(r)
    PROVE  <<r, k>> \in Instance /\ Parent(<<r, k>>) = r
BY DEF Instance, Parent

\* They are finitely many, there is one, and the ring has room for them.
LEMMA InstancesFit ==
    /\ IsFiniteSet(Instance) /\ Size \in Nat \ {0} /\ Size < RingSize
    /\ RingSize \in Nat /\ Index = 0..RingSize - 1 /\ 0 \in Index
    /\ Instance # {}
<1> DEFINE Of(r) == {<<r, k>> : k \in 1..Instances(r)}
<1>1. IsFiniteSet({Of(r) : r \in Registry})
  <2> DEFINE f == [r \in Registry |-> Of(r)]
  <2>1. f \in Surjection(Registry, {Of(r) : r \in Registry})
    <3> HIDE DEF Of
    <3> QED BY DEF Surjection
  <2> HIDE DEF f, Of
  <2> QED BY <2>1, RingConstants, FS_Surjection
<1>2. ASSUME NEW r \in Registry PROVE IsFiniteSet(Of(r))
  <2>1. Instances(r) \in Nat
    BY InstancesSpan
  <2> DEFINE f == [k \in 1..Instances(r) |-> <<r, k>>]
  <2>2. IsFiniteSet(1..Instances(r))
    BY <2>1, FS_Interval
  <2>3. f \in Surjection(1..Instances(r), Of(r))
    BY DEF Surjection
  <2> HIDE DEF f, Of
  <2> QED BY <2>2, <2>3, FS_Surjection
<1>3. IsFiniteSet(Instance)
  <2>1. \A T \in {Of(r) : r \in Registry} : IsFiniteSet(T)
    BY <1>2
  <2>2. IsFiniteSet(UNION {Of(r) : r \in Registry})
    <3> HIDE DEF Of
    <3> QED BY <1>1, <2>1, FS_UNION
  <2> QED BY <2>2 DEF Instance
<1>4. Instance # {}
  <2>1. PICK r \in Registry : TRUE
    BY RingConstants
  <2>2. 1 \in 1..Instances(r)
    BY InstancesSpan
  <2> QED BY <2>1, <2>2, PairIsInstance
<1>5. Cardinality(Instance) \in Nat /\ Cardinality(Instance) # 0
  BY <1>3, <1>4, FS_CardinalityType, FS_EmptySet
<1> QED BY <1>3, <1>4, <1>5, RingConstants DEF Size, Index

\* Later cycles of a registry are due later, at least a period.
LEMMA DueInOrder ==
    ASSUME NEW r \in Registry
    PROVE  /\ \A n \in Nat : Due(r, n) \in Nat /\ Due(r, n + 1) = Due(r, n) + InitStep[r]
           /\ \A m, n \in Nat : m < n => Due(r, m) + InitStep[r] <= Due(r, n)
           /\ \A n \in Nat : Due(r, n + Instances(r)) > Due(r, n) + lookahead + InitStep[r]
           /\ \A n \in Nat : Due(r, n + Instances(r)) = Due(r, n) + Instances(r) * InitStep[r]
<1>1. /\ firstTime[r] \in Nat /\ InitStep[r] \in Nat \ {0} /\ Instances(r) \in Nat
      /\ lookahead \in Nat /\ Instances(r) * InitStep[r] > lookahead + InitStep[r]
  BY InstancesSpan
<1> DEFINE F == firstTime[r]
           S == InitStep[r]
           I == Instances(r)
<1> HIDE DEF F, S, I
<1>2. /\ F \in Nat /\ S \in Nat \ {0} /\ I \in Nat /\ lookahead \in Nat
      /\ I * S > lookahead + S
  BY <1>1 DEF F, S, I
<1>3. ASSUME NEW n \in Nat
      PROVE  /\ F + n * S \in Nat /\ F + (n + 1) * S = (F + n * S) + S
             /\ F + (n + I) * S = (F + n * S) + I * S
  BY <1>2, SMT
<1>4. ASSUME NEW m \in Nat, NEW n \in Nat, m < n
      PROVE  (F + m * S) + S <= F + n * S
  BY <1>2, <1>4, SMT
<1>5. \A n \in Nat : Due(r, n) = F + n * S
  BY DEF Due, F, S
<1>6. \A n \in Nat : n + 1 \in Nat /\ n + I \in Nat
  BY <1>2
<1>7. \A n \in Nat : /\ Due(r, n) \in Nat /\ Due(r, n + 1) = Due(r, n) + S
                     /\ Due(r, n + I) = Due(r, n) + I * S
  BY <1>3, <1>5, <1>6
<1>8. \A m, n \in Nat : m < n => Due(r, m) + S <= Due(r, n)
  BY <1>4, <1>5
<1>9. \A n \in Nat : Due(r, n + I) > Due(r, n) + lookahead + S
  <2> TAKE n \in Nat
  <2>1. Due(r, n) \in Nat /\ Due(r, n + I) = Due(r, n) + I * S
    BY <1>7
  <2>2. I * S \in Nat
    BY <1>2
  <2> QED BY <1>2, <2>1, <2>2
<1> QED BY <1>7, <1>8, <1>9 DEF S, I

\* Of two cycles of a registry the earlier is due earlier.
LEMMA DueTellsCycle ==
    ASSUME NEW r \in Registry, NEW m \in Nat, NEW n \in Nat
    PROVE  /\ Due(r, m) \in Nat /\ Due(r, n) \in Nat
           /\ Due(r, m) <= Due(r, n) <=> m <= n
           /\ Due(r, m) = Due(r, n) <=> m = n
<1>1. InitStep[r] \in Nat \ {0}
  BY InstancesSpan
<1>2. /\ Due(r, m) \in Nat /\ Due(r, n) \in Nat
      /\ m < n => Due(r, m) + InitStep[r] <= Due(r, n)
      /\ n < m => Due(r, n) + InitStep[r] <= Due(r, m)
  BY DueInOrder
<1> QED BY <1>1, <1>2

-----------------------------------------------------------------------------
(* Going round the ring *)

\* Indices and how far they are from one another.
LEMMA Round ==
    ASSUME NEW i \in Index, NEW from \in Index, NEW n \in 0..RingSize - 1
    PROVE  /\ Pos(from, n) \in Index /\ Off(i, from) \in 0..RingSize - 1
           /\ Off(Pos(from, n), from) = n /\ Pos(from, Off(i, from)) = i
           /\ (from + n) % RingSize = Pos(from, n)
           /\ Off(i, from) = 0 <=> i = from
           /\ Pos(from, 0) = from
<1>1. RingSize \in Nat \ {0} /\ i \in 0..RingSize - 1 /\ from \in 0..RingSize - 1
  BY InstancesFit
<1>2. (from + n) % RingSize = IF from + n < RingSize THEN from + n ELSE from + n - RingSize
  <2>1. ASSUME NEW R \in Nat, NEW x \in Nat, x < R PROVE x % R = x
    BY <2>1, SMT
  <2>2. ASSUME NEW R \in Nat, NEW x \in Nat, R <= x, x < 2 * R PROVE x % R = x - R
    BY <2>2, SMT
  <2>3. from + n \in Nat /\ from + n < 2 * RingSize
    BY <1>1
  <2>4. CASE from + n < RingSize
    BY <1>1, <2>1, <2>3, <2>4
  <2>5. CASE RingSize <= from + n
    <3> DEFINE x == from + n
    <3>1. x \in Nat /\ RingSize <= x /\ x < 2 * RingSize
      BY <2>3, <2>5
    <3>2. x % RingSize = x - RingSize
      <4> HIDE DEF x
      <4> QED BY <1>1, <2>2, <3>1, Zenon
    <3> QED BY <1>1, <2>3, <2>5, <3>2
  <2> QED BY <1>1, <2>3, <2>4, <2>5
<1> QED BY <1>1, <1>2 DEF Pos, Off, Index

\* One step further.
LEMMA StepOn ==
    ASSUME NEW i \in Index, NEW from \in Index, NEW n \in 0..RingSize - 2
    PROVE  /\ Succ(i) \in Index
           /\ Off(Succ(i), from) = IF Off(i, from) = RingSize - 1 THEN 0 ELSE Off(i, from) + 1
           /\ Pos(Succ(from), n) = Pos(from, n + 1)
           /\ Pos(from, n + 1) = Succ(Pos(from, n))
           /\ i # from => Off(i, Succ(from)) = Off(i, from) - 1
<1>1. RingSize \in Nat /\ RingSize > 1 /\ i \in 0..RingSize - 1 /\ from \in 0..RingSize - 1
  BY InstancesFit
<1>2. ASSUME NEW j \in Index PROVE Succ(j) = IF j + 1 = RingSize THEN 0 ELSE j + 1
  <2>1. j \in 0..RingSize - 1 /\ 1 \in 0..RingSize - 1
    BY <1>1, InstancesFit
  <2>2. (j + 1) % RingSize = Pos(j, 1)
    BY <2>1, Round
  <2> QED BY <1>1, <2>1, <2>2 DEF Succ, Pos
<1>3. Pos(from, n) \in Index
  BY <1>1, Round
<1> QED BY <1>1, <1>2, <1>3 DEF Pos, Off, Index

\* Between two indices are those that are less far.
LEMMA BetweenIsCloser ==
    ASSUME NEW i \in Index, NEW from \in Index, NEW to \in Index
    PROVE  Between(i, from, to) <=> Off(i, from) < Off(to, from)
<1>1. RingSize \in Nat /\ i \in 0..RingSize - 1 /\ from \in 0..RingSize - 1 /\ to \in 0..RingSize - 1
  BY InstancesFit
<1> QED BY <1>1 DEF Between, Off

\* Ways add up, unless they go round the whole ring.
LEMMA WaysAddUp ==
    ASSUME NEW i \in Index, NEW from \in Index, NEW by \in Index
    PROVE  /\ Off(by, from) + Off(i, by) < RingSize =>
                 Off(i, from) = Off(by, from) + Off(i, by)
           /\ Off(by, from) <= Off(i, from) => Off(i, from) = Off(by, from) + Off(i, by)
           /\ Off(i, by) = Off(from, by) => i = from
<1>1. RingSize \in Nat /\ i \in 0..RingSize - 1 /\ from \in 0..RingSize - 1 /\ by \in 0..RingSize - 1
  BY InstancesFit
<1> QED BY <1>1 DEF Off

\* A nonempty set of natural numbers has a least element.
LEMMA Least ==
    ASSUME NEW S \in SUBSET Nat, S # {}
    PROVE  \E n \in S : \A m \in S : n <= m
<1> DEFINE R == {x \in Nat \X Nat : x[1] < x[2]}
<1>1. OpToRel(<, Nat) = R
  BY DEF OpToRel
<1>2. IsWellFoundedOn(R, Nat)
  BY <1>1, NatLessThanWellFounded
<1>3. PICK n \in S : \A m \in S : ~(<<m, n>> \in R)
  <2> HIDE DEF R
  <2> QED BY <1>2, WFMin
<1>4. ASSUME NEW m \in S PROVE n <= m
  <2>1. <<m, n>> \in Nat \X Nat /\ m \in Nat /\ n \in Nat
    OBVIOUS
  <2>2. ~(m < n)
    BY <1>3, <2>1
  <2> QED BY <2>1, <2>2
<1> QED BY <1>4

\* The search for a place ends at the first later event, or at the tail.
LEMMA SearchEnds ==
    ASSUME RingTypeOK, NEW t \in Int
    PROVE  \E p \in 0..Off(tail, head) :
              /\ FirstAfter(t) = Pos(head, p) /\ Pos(head, p) \in Index
              /\ p < Off(tail, head) => instBase[element[Pos(head, p)]] > t
              /\ \A m \in 0..p - 1 : instBase[element[Pos(head, m)]] <= t
<1>1. /\ head \in Index /\ tail \in Index /\ element \in [Index -> Instance]
      /\ instBase \in [Instance -> Nat]
  BY DEF RingTypeOK
<1>2. RingSize \in Nat /\ RingSize > 0
  BY InstancesFit
<1> DEFINE at(n) == (head + n) % RingSize
           Early(n) == Between(at(n), head, tail) /\ TimeAt(at(n)) <= t
           Late == {n \in 0..RingSize - 1 : ~Early(n)}
           w == Off(tail, head)
<1>3. w \in 0..RingSize - 1 /\ Pos(head, w) = tail
  BY <1>1, <1>2, Round
<1>4. ASSUME NEW n \in 0..RingSize - 1
      PROVE  /\ at(n) = Pos(head, n) /\ Pos(head, n) \in Index
             /\ Early(n) <=> n < w /\ instBase[element[Pos(head, n)]] <= t
  <2>1. at(n) = Pos(head, n) /\ Pos(head, n) \in Index /\ Off(Pos(head, n), head) = n
    BY <1>1, Round
  <2>2. Between(Pos(head, n), head, tail) <=> n < w
    BY <1>1, <2>1, BetweenIsCloser
  <2>3. TimeAt(at(n)) = instBase[element[Pos(head, n)]]
    BY <2>1 DEF TimeAt
  <2> HIDE DEF at, w
  <2> QED BY <2>1, <2>2, <2>3
<1>5. w \in Late
  <2> HIDE DEF Early, w
  <2> QED BY <1>3, <1>4
<1>6. PICK p \in Late : \A m \in Late : p <= m
  <2>1. Late \in SUBSET Nat
    BY <1>2
  <2> HIDE DEF Late
  <2> QED BY <2>1, <1>5, Least
<1> DEFINE First(n) == ~Early(n) /\ \A m \in 0..n - 1 : Early(m)
<1>7. First(p)
  <2>1. ASSUME NEW m \in 0..p - 1 PROVE Early(m)
    <3>1. m \in 0..RingSize - 1 /\ ~(p <= m)
      BY <1>2
    <3> HIDE DEF Early
    <3> QED BY <3>1, <1>6
  <2> HIDE DEF Early
  <2> QED BY <2>1
<1>8. ASSUME NEW q \in 0..RingSize - 1, First(q) PROVE q = p
  <2>1. ~(p < q)
    <3> SUFFICES ASSUME p < q PROVE FALSE
      OBVIOUS
    <3>1. p \in 0..q - 1
      BY <1>2
    <3> HIDE DEF Early
    <3> QED BY <3>1, <1>8
  <2>2. ~(q < p)
    <3> SUFFICES ASSUME q < p PROVE FALSE
      OBVIOUS
    <3>1. q \in 0..p - 1
      BY <1>2
    <3> HIDE DEF Early
    <3> QED BY <3>1, <1>7, <1>8
  <2> QED BY <1>2, <2>1, <2>2
<1>9. (CHOOSE n \in 0..RingSize - 1 : First(n)) = p
  <2>1. p \in 0..RingSize - 1
    OBVIOUS
  <2> HIDE DEF First, Late
  <2> QED BY <1>7, <1>8, <2>1
<1>10. FirstAfter(t) = at(CHOOSE n \in 0..RingSize - 1 : First(n))
  <2>1. ASSUME NEW n \in 0..RingSize - 1
        PROVE  First(n) <=> /\ ~(Between(at(n), head, tail) /\ TimeAt(at(n)) <= t)
                            /\ \A m \in 0..n - 1 : Between(at(m), head, tail) /\ TimeAt(at(m)) <= t
    OBVIOUS
  <2> QED BY DEF FirstAfter
<1>11. FirstAfter(t) = Pos(head, p)
  <2> HIDE DEF First, at, Late
  <2>1. p \in 0..RingSize - 1
    BY DEF Late
  <2> QED BY <1>4, <1>9, <1>10, <2>1
<1>12. p \in 0..w
  <2>1. p <= w /\ p \in 0..RingSize - 1
    BY <1>5, <1>6
  <2> QED BY <1>2, <1>3, <2>1
<1>13. \A m \in 0..p - 1 : instBase[element[Pos(head, m)]] <= t
  <2> TAKE m \in 0..p - 1
  <2>1. m \in 0..RingSize - 1 /\ Early(m)
    BY <1>2, <1>7
  <2> HIDE DEF Early
  <2> QED BY <2>1, <1>4
<1>14. p < w => instBase[element[Pos(head, p)]] > t
  <2>1. p \in 0..RingSize - 1 /\ ~Early(p)
    BY <1>7
  <2>2. Pos(head, p) \in Index
    BY <1>4, <2>1
  <2>3. instBase[element[Pos(head, p)]] \in Nat
    BY <1>1, <2>2
  <2> HIDE DEF Early, Late
  <2> QED BY <2>1, <2>3, <1>4
<1> QED
  <2>1. Pos(head, p) \in Index
    <3>1. p \in 0..RingSize - 1
      OBVIOUS
    <3> QED BY <3>1, <1>4
  <2> HIDE DEF Late
  <2> QED BY <1>11, <1>12, <1>13, <1>14, <2>1

-----------------------------------------------------------------------------
(* Lines of events *)

\* A line without its first event.
Rest(line, size) == [n \in 0..size - 2 |-> line[n + 1]]

\* A line of size events with an event put in before the p-th.
Put(line, size, p, e) ==
    [n \in 0..size |-> IF n < p THEN line[n] ELSE IF n = p THEN e ELSE line[n - 1]]

\* What is left of a line whose first event leaves, and gets another time.
LEMMA RestIs ==
    ASSUME NEW size \in Nat \ {0}, NEW line, NEW base, NEW after,
           Complete(line, Instance, size),
           \A e \in Instance : e # line[0] => after[e] = base[e]
    PROVE  \A n \in 0..size - 2 :
                 /\ n + 1 \in 0..size - 1 /\ Rest(line, size)[n] = line[n + 1]
                 /\ line[n + 1] \in Instance \ {line[0]}
                 /\ after[line[n + 1]] = base[line[n + 1]]
<1> TAKE n \in 0..size - 2
<1>1. n + 1 \in 0..size - 1 /\ n + 1 # 0 /\ 0 \in 0..size - 1
  OBVIOUS
<1>2. line[n + 1] \in Instance /\ line[n + 1] # line[0]
  BY <1>1 DEF Complete
<1> QED BY <1>1, <1>2 DEF Rest

\* The first event leaves the line, and gets another time.
LEMMA LinePopped ==
    ASSUME NEW size \in Nat \ {0}, NEW line, NEW base \in [Instance -> Nat],
           NEW after \in [Instance -> Nat],
           Complete(line, Instance, size), Sorted(line, base, size),
           \A e \in Instance : e # line[0] => after[e] = base[e]
    PROVE  /\ Complete(Rest(line, size), Instance \ {line[0]}, size - 1)
           /\ Sorted(Rest(line, size), after, size - 1)
<1> DEFINE rest == Rest(line, size)
<1>1. \A n \in 0..size - 2 : n + 1 \in 0..size - 1 /\ rest[n] = line[n + 1]
  BY DEF Rest
<1>2. 0 \in 0..size - 1 /\ line \in [0..size - 1 -> Instance]
  BY DEF Complete
<1>3. ASSUME NEW n \in 0..size - 2
      PROVE  /\ rest[n] \in Instance \ {line[0]} /\ after[rest[n]] = base[line[n + 1]]
  <2>1. n + 1 \in 0..size - 1 /\ rest[n] = line[n + 1] /\ n + 1 # 0
    BY <1>1
  <2>2. line[n + 1] # line[0]
    BY <2>1, <1>2 DEF Complete
  <2>3. line[n + 1] \in Instance
    BY <2>1, <1>2
  <2> HIDE DEF rest
  <2> QED BY <2>1, <2>2, <2>3
<1>4. rest \in [0..(size - 1) - 1 -> Instance \ {line[0]}]
  <2>1. (size - 1) - 1 = size - 2
    OBVIOUS
  <2>2. rest = [n \in 0..size - 2 |-> rest[n]]
    BY DEF Rest
  <2> HIDE DEF rest
  <2> QED BY <2>1, <2>2, <1>3
<1>5. ASSUME NEW e \in Instance \ {line[0]}
      PROVE  \E n \in 0..(size - 1) - 1 : rest[n] = e
  <2>1. PICK m \in 0..size - 1 : line[m] = e
    BY DEF Complete
  <2>2. m # 0
    BY <2>1
  <2>3. m - 1 \in 0..size - 2 /\ (m - 1) + 1 = m /\ (size - 1) - 1 = size - 2
    BY <2>2
  <2> HIDE DEF rest
  <2> QED BY <2>1, <2>3, <1>1
<1>6. ASSUME NEW m \in 0..size - 2, NEW n \in 0..size - 2, m # n
      PROVE  rest[m] # rest[n]
  <2>1. m + 1 \in 0..size - 1 /\ n + 1 \in 0..size - 1 /\ m + 1 # n + 1
    BY <1>6
  <2>2. line[m + 1] # line[n + 1]
    BY <2>1 DEF Complete
  <2> HIDE DEF rest
  <2> QED BY <2>2, <1>1
<1>7. ASSUME NEW m \in 0..size - 2, NEW n \in 0..size - 2, m <= n
      PROVE  after[rest[m]] <= after[rest[n]]
  <2>1. m + 1 \in 0..size - 1 /\ n + 1 \in 0..size - 1 /\ m + 1 <= n + 1
    BY <1>7
  <2>2. base[line[m + 1]] <= base[line[n + 1]]
    BY <2>1 DEF Sorted
  <2> HIDE DEF rest
  <2> QED BY <2>2, <1>3
<1>8. (size - 1) - 1 = size - 2
  OBVIOUS
<1>9. Complete(rest, Instance \ {line[0]}, size - 1)
  <2> HIDE DEF rest
  <2> QED BY <1>4, <1>5, <1>6, <1>8 DEF Complete
<1>10. Sorted(rest, after, size - 1)
  <2> HIDE DEF rest
  <2> QED BY <1>7, <1>8 DEF Sorted
<1> QED BY <1>1, <1>3, <1>9, <1>10

\* An event takes its place in the line.
LEMMA LinePut ==
    ASSUME NEW size \in Nat, NEW line, NEW base \in [Instance -> Nat], NEW e \in Instance,
           Complete(line, Instance \ {e}, size), Sorted(line, base, size),
           NEW p \in 0..size, \A m \in 0..p - 1 : base[line[m]] <= base[e],
           p < size => base[line[p]] > base[e]
    PROVE  /\ Complete(Put(line, size, p, e), Instance, size + 1)
           /\ Sorted(Put(line, size, p, e), base, size + 1)
           /\ \A n \in 0..size :
                 /\ n < p => n \in 0..size - 1 /\ Put(line, size, p, e)[n] = line[n]
                 /\ n = p => Put(line, size, p, e)[n] = e
                 /\ n > p => n - 1 \in 0..size - 1 /\ Put(line, size, p, e)[n] = line[n - 1]
<1> DEFINE new == Put(line, size, p, e)
<1>1. ASSUME NEW n \in 0..size
      PROVE  /\ n < p => n \in 0..size - 1 /\ new[n] = line[n]
             /\ n = p => new[n] = e
             /\ n > p => n - 1 \in 0..size - 1 /\ new[n] = line[n - 1]
  BY DEF Put
<1>2. line \in [0..size - 1 -> Instance \ {e}]
  BY DEF Complete
<1>3. (size + 1) - 1 = size
  OBVIOUS
<1>4. new \in [0..size -> Instance]
  <2>1. ASSUME NEW n \in 0..size PROVE new[n] \in Instance
    <3> HIDE DEF new
    <3>1. CASE n < p
      BY <3>1, <1>1, <1>2
    <3>2. CASE n = p
      BY <3>2, <1>1
    <3>3. CASE n > p
      BY <3>3, <1>1, <1>2
    <3> QED BY <3>1, <3>2, <3>3
  <2>2. new = [n \in 0..size |-> new[n]]
    BY DEF Put
  <2> HIDE DEF new
  <2> QED BY <2>1, <2>2
<1>5. ASSUME NEW d \in Instance PROVE \E n \in 0..size : new[n] = d
  <2> HIDE DEF new
  <2>1. CASE d = e
    BY <2>1, <1>1
  <2>2. CASE d # e
    <3>1. PICK m \in 0..size - 1 : line[m] = d
      BY <2>2 DEF Complete
    <3>2. CASE m < p
      <4>1. m \in 0..size
        OBVIOUS
      <4> QED BY <4>1, <3>1, <3>2, <1>1
    <3>3. CASE m >= p
      <4>1. m + 1 \in 0..size /\ m + 1 > p /\ (m + 1) - 1 = m
        BY <3>3
      <4>2. new[m + 1] = line[(m + 1) - 1]
        BY <4>1, <1>1
      <4> QED BY <4>1, <4>2, <3>1
    <3> QED BY <3>2, <3>3
  <2> QED BY <2>1, <2>2
<1>6. ASSUME NEW m \in 0..size, NEW n \in 0..size, m < n
      PROVE  new[m] # new[n] /\ base[new[m]] <= base[new[n]]
  <2> HIDE DEF new
  <2>0. \A i \in 0..size - 1 : line[i] \in Instance /\ line[i] # e /\ base[line[i]] \in Nat
    BY <1>2
  <2>00. base[e] \in Nat
    OBVIOUS
  <2>1. CASE n < p
    <3>1. m \in 0..size - 1 /\ n \in 0..size - 1 /\ new[m] = line[m] /\ new[n] = line[n]
      BY <2>1, <1>6, <1>1
    <3>2. line[m] # line[n] /\ base[line[m]] <= base[line[n]]
      BY <3>1, <1>6 DEF Complete, Sorted
    <3> QED BY <3>1, <3>2
  <2>2. CASE n = p
    <3>1. m \in 0..size - 1 /\ m \in 0..p - 1 /\ new[m] = line[m] /\ new[n] = e
      BY <2>2, <1>6, <1>1
    <3> QED BY <3>1, <2>0
  <2>3. CASE n > p /\ m < p
    <3>1. /\ m \in 0..size - 1 /\ n - 1 \in 0..size - 1
          /\ new[m] = line[m] /\ new[n] = line[n - 1]
      BY <2>3, <1>6, <1>1
    <3>2. m < n - 1
      BY <2>3
    <3>3. line[m] # line[n - 1] /\ base[line[m]] <= base[line[n - 1]]
      BY <3>1, <3>2 DEF Complete, Sorted
    <3> QED BY <3>1, <3>3
  <2>4. CASE n > p /\ m = p
    <3>1. n - 1 \in 0..size - 1 /\ p \in 0..size - 1 /\ p <= n - 1 /\ new[m] = e /\ new[n] = line[n - 1]
      BY <2>4, <1>6, <1>1
    <3>2. base[line[p]] <= base[line[n - 1]] /\ base[line[p]] > base[e]
      BY <3>1 DEF Sorted
    <3>3. base[line[p]] \in Nat /\ base[line[n - 1]] \in Nat /\ line[n - 1] # e
      BY <3>1, <2>0
    <3> QED BY <3>1, <3>2, <3>3, <2>00
  <2>5. CASE m > p
    <3>1. /\ m - 1 \in 0..size - 1 /\ n - 1 \in 0..size - 1 /\ m - 1 # n - 1 /\ m - 1 <= n - 1
          /\ new[m] = line[m - 1] /\ new[n] = line[n - 1]
      BY <2>5, <1>6, <1>1
    <3>2. line[m - 1] # line[n - 1] /\ base[line[m - 1]] <= base[line[n - 1]]
      BY <3>1 DEF Complete, Sorted
    <3> QED BY <3>1, <3>2
  <2> QED BY <1>6, <2>1, <2>2, <2>3, <2>4, <2>5
<1>7. Complete(new, Instance, size + 1)
  <2> HIDE DEF new
  <2>1. \A m, n \in 0..size : m # n => new[m] # new[n]
    <3> TAKE m \in 0..size, n \in 0..size
    <3>1. m # n => m < n \/ n < m
      OBVIOUS
    <3> QED BY <3>1, <1>6
  <2> QED BY <1>3, <1>4, <1>5, <2>1 DEF Complete
<1>8. Sorted(new, base, size + 1)
  <2> HIDE DEF new
  <2>1. \A m, n \in 0..size : m <= n => base[new[m]] <= base[new[n]]
    <3> TAKE m \in 0..size, n \in 0..size
    <3>1. m <= n => m < n \/ n = m
      OBVIOUS
    <3>2. base[new[m]] \in Nat
      BY <1>4
    <3> QED BY <3>1, <3>2, <1>6
  <2> QED BY <1>3, <2>1 DEF Sorted
<1> QED BY <1>1, <1>7, <1>8

\* The end of the window, when the first event leaves the line.
LEMMA EdgePopped ==
    ASSUME NEW size \in Nat \ {0}, NEW line, NEW base \in [Instance -> Nat],
           NEW after \in [Instance -> Nat],
           Complete(line, Instance, size), Sorted(line, base, size),
           \A e \in Instance : e # line[0] => after[e] = base[e],
           NEW w \in Nat, NEW edge \in Int, Edge(line, base, size, w, edge),
           base[line[0]] <= edge
    PROVE  w > 0 /\ Edge(Rest(line, size), after, size - 1, w - 1, edge)
<1>1. \A n \in 0..size - 2 :
         /\ n + 1 \in 0..size - 1 /\ Rest(line, size)[n] = line[n + 1]
         /\ line[n + 1] \in Instance \ {line[0]}
         /\ after[line[n + 1]] = base[line[n + 1]]
  BY RestIs
<1>2. 0 \in 0..size - 1
  OBVIOUS
<1>3. w > 0
  BY <1>2 DEF Edge
<1>4. ASSUME NEW n \in 0..size - 2
      PROVE  n < w - 1 <=> after[Rest(line, size)[n]] <= edge
  <2>1. n + 1 \in 0..size - 1 /\ after[Rest(line, size)[n]] = base[line[n + 1]]
    BY <1>1
  <2>2. n + 1 < w <=> base[line[n + 1]] <= edge
    BY <2>1 DEF Edge
  <2>3. n < w - 1 <=> n + 1 < w
    OBVIOUS
  <2> QED BY <2>1, <2>2, <2>3
<1>5. (size - 1) - 1 = size - 2
  OBVIOUS
<1> QED BY <1>3, <1>4, <1>5 DEF Edge

\* A thread that is past the first event, when that leaves the line.
LEMMA ReaderPopped ==
    ASSUME NEW size \in Nat \ {0}, NEW line, NEW base \in [Instance -> Nat],
           NEW after \in [Instance -> Nat],
           Complete(line, Instance, size), Sorted(line, base, size),
           \A e \in Instance : e # line[0] => after[e] = base[e],
           NEW d \in Nat, NEW done \in Int, NEW got \in SUBSET Instance, NEW ready \in Int,
           Reader(line, base, size, d, done, got, ready),
           base[line[0]] <= done
    PROVE  /\ d > 0 /\ Reader(Rest(line, size), after, size - 1, d - 1, done, got, ready)
           /\ Past(line, base, size, d, ready) =>
                 Past(Rest(line, size), after, size - 1, d - 1, ready)
<1> DEFINE rest == Rest(line, size)
<1>1. \A n \in 0..size - 2 :
         /\ n + 1 \in 0..size - 1 /\ rest[n] = line[n + 1]
         /\ line[n + 1] \in Instance \ {line[0]}
         /\ after[line[n + 1]] = base[line[n + 1]]
  BY RestIs
<1>2. 0 \in 0..size - 1 /\ line \in [0..size - 1 -> Instance] /\ base[line[0]] \in Nat
  BY DEF Complete
<1>3. d > 0
  BY <1>2 DEF Reader
<1>4. \A n \in 0..size - 2 : n >= d - 1 <=> n + 1 >= d
  OBVIOUS
<1>5. ASSUME NEW n \in 0..size - 2
      PROVE  /\ n + 1 \in 0..size - 1 /\ rest[n] = line[n + 1] /\ after[rest[n]] = base[line[n + 1]]
             /\ n >= d - 1 <=> n + 1 >= d
             /\ n < d - 1 <=> n + 1 < d
  BY <1>1
<1>6. ASSUME NEW e \in got
      PROVE  after[e] = ready /\ ready > done /\ \E n \in 0..size - 2 : n < d - 1 /\ rest[n] = e
  <2>1. /\ base[e] = ready /\ ready > done
        /\ \E n \in 0..size - 1 : n < d /\ line[n] = e
    BY DEF Reader
  <2>2. PICK n \in 0..size - 1 : n < d /\ line[n] = e
    BY <2>1
  <2>3. e # line[0]
    BY <2>1, <1>2
  <2>4. n # 0
    BY <2>2, <2>3
  <2>5. n - 1 \in 0..size - 2 /\ n - 1 < d - 1 /\ (n - 1) + 1 = n
    BY <2>2, <2>4
  <2>6. rest[n - 1] = e
    <3> HIDE DEF rest
    <3> QED BY <2>2, <2>5, <1>1
  <2>7. after[e] = base[e]
    BY <2>3
  <2> HIDE DEF rest
  <2> QED BY <2>1, <2>5, <2>6, <2>7
<1>7. (size - 1) - 1 = size - 2
  OBVIOUS
<1> HIDE DEF rest
<1>8. \A n \in 0..size - 2 : n >= d - 1 => after[rest[n]] > done
  BY <1>5 DEF Reader
<1>9. \A n \in 0..size - 2 : n < d - 1 => after[rest[n]] <= done \/ rest[n] \in got
  BY <1>5 DEF Reader
<1>10. got # {} => \A n \in 0..size - 2 : n >= d - 1 => after[rest[n]] >= ready
  BY <1>5 DEF Reader
<1>11. \A n \in 0..size - 2 : n >= d - 1 => after[rest[n]] = base[line[n + 1]] /\ n + 1 >= d
  BY <1>5
<1>12. Reader(rest, after, size - 1, d - 1, done, got, ready)
  BY <1>6, <1>7, <1>8, <1>9, <1>10 DEF Reader
<1>13. Past(line, base, size, d, ready) => Past(rest, after, size - 1, d - 1, ready)
  BY <1>1, <1>5, <1>7, <1>11 DEF Past
<1> QED BY <1>3, <1>12, <1>13 DEF rest

\* An event later than the window is put in after it, which it leaves as it is.
LEMMA EdgePut ==
    ASSUME NEW size \in Nat, NEW line, NEW base \in [Instance -> Nat], NEW e \in Instance,
           Complete(line, Instance \ {e}, size), Sorted(line, base, size),
           NEW p \in 0..size, \A m \in 0..p - 1 : base[line[m]] <= base[e],
           p < size => base[line[p]] > base[e],
           NEW w \in 0..size, NEW edge \in Int, Edge(line, base, size, w, edge),
           base[e] > edge
    PROVE  w <= p /\ Edge(Put(line, size, p, e), base, size + 1, w, edge)
<1> DEFINE new == Put(line, size, p, e)
<1>1. \A n \in 0..size :
         /\ n < p => n \in 0..size - 1 /\ new[n] = line[n]
         /\ n = p => new[n] = e
         /\ n > p => n - 1 \in 0..size - 1 /\ new[n] = line[n - 1]
  BY LinePut
<1>2. \A n \in 0..size - 1 : line[n] \in Instance /\ base[line[n]] \in Nat
  BY DEF Complete
<1>0. base[e] \in Nat
  OBVIOUS
<1>3. w <= p
  <2> SUFFICES ASSUME p < w PROVE FALSE
    OBVIOUS
  <2>1. p \in 0..size - 1
    OBVIOUS
  <2>2. base[line[p]] <= edge /\ base[line[p]] > base[e]
    BY <2>1 DEF Edge
  <2> QED BY <2>1, <2>2, <1>2, <1>0
<1> HIDE DEF new
<1>4. ASSUME NEW n \in 0..size
      PROVE  n < w <=> base[new[n]] <= edge
  <2>1. CASE n < p
    BY <2>1, <1>1 DEF Edge
  <2>2. CASE n = p
    BY <2>2, <1>0, <1>1, <1>3
  <2>3. CASE n > p
    <3>1. n - 1 \in 0..size - 1 /\ new[n] = line[n - 1] /\ ~(n - 1 < w) /\ ~(n < w)
      BY <2>3, <1>1, <1>3
    <3> QED BY <3>1 DEF Edge
  <2> QED BY <2>1, <2>2, <2>3
<1>5. (size + 1) - 1 = size
  OBVIOUS
<1> QED BY <1>3, <1>4, <1>5 DEF Edge, new

\* An event later than those a thread is at is put in after the place it has come to.
LEMMA ReaderPut ==
    ASSUME NEW size \in Nat, NEW line, NEW base \in [Instance -> Nat], NEW e \in Instance,
           Complete(line, Instance \ {e}, size), Sorted(line, base, size),
           NEW p \in 0..size, \A m \in 0..p - 1 : base[line[m]] <= base[e],
           p < size => base[line[p]] > base[e],
           NEW d \in 0..p, NEW done \in Int, NEW got \in SUBSET Instance, NEW ready \in Int,
           Reader(line, base, size, d, done, got, ready),
           base[e] > done, got # {} => base[e] > ready
    PROVE  /\ Reader(Put(line, size, p, e), base, size + 1, d, done, got, ready)
           /\ got # {} /\ Past(line, base, size, d, ready) =>
                 Past(Put(line, size, p, e), base, size + 1, d, ready)
<1> DEFINE new == Put(line, size, p, e)
<1>1. \A n \in 0..size :
         /\ n < p => n \in 0..size - 1 /\ new[n] = line[n]
         /\ n = p => new[n] = e
         /\ n > p => n - 1 \in 0..size - 1 /\ new[n] = line[n - 1]
  BY LinePut
<1>0. base[e] \in Nat
  OBVIOUS
<1> HIDE DEF new
<1>2. ASSUME NEW n \in 0..size, n >= d
      PROVE  new[n] = e \/ \E m \in 0..size - 1 : m >= d /\ new[n] = line[m]
  <2>1. CASE n < p
    BY <2>1, <1>1, <1>2
  <2>2. CASE n = p
    BY <2>2, <1>1
  <2>3. CASE n > p
    <3>1. n - 1 \in 0..size - 1 /\ n - 1 >= d /\ new[n] = line[n - 1]
      BY <2>3, <1>1
    <3> QED BY <3>1
  <2> QED BY <2>1, <2>2, <2>3
<1>3. ASSUME NEW n \in 0..size, n < d
      PROVE  n \in 0..size - 1 /\ new[n] = line[n]
  <2>1. n < p
    BY <1>3
  <2> QED BY <2>1, <1>1
<1>4. (size + 1) - 1 = size
  OBVIOUS
<1>5. \A n \in 0..size : n >= d => base[new[n]] > done
  BY <1>2 DEF Reader
<1>6. \A n \in 0..size : n < d => base[new[n]] <= done \/ new[n] \in got
  BY <1>3 DEF Reader
<1>7. got # {} => \A n \in 0..size : n >= d => base[new[n]] >= ready
  BY <1>0, <1>2 DEF Reader
<1>8. got # {} /\ Past(line, base, size, d, ready) => Past(new, base, size + 1, d, ready)
  BY <1>0, <1>2, <1>4 DEF Past
<1>9. \A b \in got : base[b] = ready /\ ready > done /\ \E n \in 0..size : n < d /\ new[n] = b
  <2> TAKE b \in got
  <2>1. base[b] = ready /\ ready > done /\ \E n \in 0..size - 1 : n < d /\ line[n] = b
    BY DEF Reader
  <2>2. PICK n \in 0..size - 1 : n < d /\ line[n] = b
    BY <2>1
  <2>3. n \in 0..size /\ n < p
    BY <2>2
  <2> QED BY <2>1, <2>2, <2>3, <1>1
<1>10. Reader(new, base, size + 1, d, done, got, ready)
  BY <1>4, <1>5, <1>6, <1>7, <1>9 DEF Reader
<1> QED BY <1>8, <1>10 DEF new

-----------------------------------------------------------------------------
(* The line the ring starts with *)

\* Each registry has its place in lTimeEvents.
LEMMA PlacesDiffer ==
    ASSUME NEW q \in Registry, NEW r \in Registry
    PROVE  PlaceOf(r) \in Nat /\ (PlaceOf(q) = PlaceOf(r) => q = r)
<1>1. \A x \in Registry : \E i \in DOMAIN events : events[i] = x
  BY RingConstants DEF ToSet
<1>2. events[PlaceOf(q)] = q /\ events[PlaceOf(r)] = r /\ PlaceOf(r) \in DOMAIN events
  BY <1>1 DEF PlaceOf
<1>3. DOMAIN events = 1..Len(events) /\ Len(events) \in Nat
  BY RingConstants
<1> QED BY <1>2, <1>3

\* An instance is due first at the time of its cycle.
LEMMA FirstBaseIsDue ==
    ASSUME NEW e \in Instance
    PROVE  FirstBase(e) = Due(Parent(e), e[2] - 1) /\ e[2] - 1 \in Nat /\ FirstBase(e) \in Nat
<1>1. Parent(e) \in Registry /\ e[2] \in 1..Instances(Parent(e)) /\ Instances(Parent(e)) \in Nat
  BY InstanceIsPair, InstancesSpan
<1>2. e[2] - 1 \in Nat
  BY <1>1
<1>3. FirstBase(e) = Due(Parent(e), e[2] - 1)
  BY DEF FirstBase, Due
<1> QED BY <1>1, <1>2, <1>3, DueInOrder

\* Of two instances one is inserted before the other.
LEMMA InsertedInOrder ==
    ASSUME NEW c \in Instance, NEW d \in Instance, NEW e \in Instance
    PROVE  /\ ~InsertedBefore(d, d)
           /\ d # e => InsertedBefore(d, e) \/ InsertedBefore(e, d)
           /\ InsertedBefore(c, d) /\ InsertedBefore(d, e) => InsertedBefore(c, e)
           /\ InsertedBefore(d, e) => FirstBase(d) <= FirstBase(e)
<1>1. \A x \in Instance : FirstBase(x) \in Nat /\ PlaceOf(Parent(x)) \in Nat
  BY FirstBaseIsDue, PlacesDiffer, InstanceIsPair
<1>2. ASSUME FirstBase(d) = FirstBase(e), PlaceOf(Parent(d)) = PlaceOf(Parent(e))
      PROVE  d = e
  <2>1. Parent(d) \in Registry /\ Parent(e) \in Registry
    BY InstanceIsPair
  <2>2. Parent(d) = Parent(e)
    BY <1>2, <2>1, PlacesDiffer
  <2>3. /\ Due(Parent(d), d[2] - 1) = Due(Parent(d), e[2] - 1)
        /\ d[2] - 1 \in Nat /\ e[2] - 1 \in Nat
    BY <1>2, <2>2, FirstBaseIsDue
  <2>4. d[2] - 1 = e[2] - 1
    BY <2>1, <2>3, DueTellsCycle
  <2>5. d = <<Parent(d), d[2]>> /\ e = <<Parent(e), e[2]>> /\ d[2] \in Int /\ e[2] \in Int
    BY <2>1, InstanceIsPair, InstancesSpan
  <2> QED BY <2>2, <2>4, <2>5
<1> QED BY <1>1, <1>2 DEF InsertedBefore

\* The ranks are the places in a line of all instances, in order of time.
LEMMA RanksAreLine ==
    /\ \A d, e \in Instance : /\ Rank(d) \in 0..Size - 1
                              /\ Rank(d) = Rank(e) => d = e
                              /\ Rank(d) <= Rank(e) => FirstBase(d) <= FirstBase(e)
    /\ \A n \in 0..Size - 1 : \E e \in Instance : Rank(e) = n
<1> DEFINE Before(e) == {d \in Instance : InsertedBefore(d, e)}
<1>1. \A e \in Instance : Rank(e) = Cardinality(Before(e))
  BY DEF Rank
<1>2. IsFiniteSet(Instance) /\ Size \in Nat \ {0} /\ Size = Cardinality(Instance)
  BY InstancesFit DEF Size
<1>3. ASSUME NEW e \in Instance PROVE Rank(e) \in 0..Size - 1 /\ IsFiniteSet(Before(e))
  <2>1. Before(e) \in SUBSET Instance
    OBVIOUS
  <2>2. e \notin Before(e)
    BY InsertedInOrder
  <2>3. Before(e) # Instance
    BY <2>2
  <2> HIDE DEF Before
  <2>4. IsFiniteSet(Before(e)) /\ Cardinality(Before(e)) <= Size /\ Cardinality(Before(e)) # Size
    BY <2>1, <2>3, <1>2, FS_Subset
  <2>5. Cardinality(Before(e)) \in Nat
    BY <2>4, FS_CardinalityType
  <2> QED BY <1>1, <1>2, <2>4, <2>5
<1>4. ASSUME NEW d \in Instance, NEW e \in Instance, InsertedBefore(d, e)
      PROVE  Rank(d) < Rank(e)
  <2>1. Before(d) \in SUBSET Before(e)
    BY <1>4, InsertedInOrder
  <2>2. d \in Before(e) /\ d \notin Before(d)
    BY <1>4, InsertedInOrder
  <2>3. Before(d) # Before(e)
    BY <2>2
  <2> HIDE DEF Before
  <2>4. Cardinality(Before(d)) <= Cardinality(Before(e)) /\ Cardinality(Before(d)) # Cardinality(Before(e))
    BY <2>1, <2>3, <1>3, FS_Subset
  <2>5. Rank(d) \in 0..Size - 1 /\ Rank(e) \in 0..Size - 1
    BY <1>3
  <2> QED BY <1>1, <1>2, <2>4, <2>5
<1> HIDE DEF Before
<1>5. ASSUME NEW d \in Instance, NEW e \in Instance
      PROVE  /\ Rank(d) = Rank(e) => d = e
             /\ Rank(d) <= Rank(e) => FirstBase(d) <= FirstBase(e)
  <2>1. Rank(d) \in Int /\ Rank(e) \in Int
    BY <1>2, <1>3
  <2>2. d = e \/ InsertedBefore(d, e) \/ InsertedBefore(e, d)
    BY InsertedInOrder
  <2>3. CASE d = e
    BY <2>3, FirstBaseIsDue
  <2>4. CASE InsertedBefore(d, e)
    <3>1. Rank(d) < Rank(e)
      BY <2>4, <1>4
    <3>2. FirstBase(d) <= FirstBase(e)
      BY <2>4, InsertedInOrder
    <3> QED BY <2>1, <3>1, <3>2
  <2>5. CASE InsertedBefore(e, d)
    <3>1. Rank(e) < Rank(d)
      BY <2>5, <1>4
    <3> QED BY <2>1, <3>1
  <2> QED BY <2>2, <2>3, <2>4, <2>5
<1> DEFINE f == [e \in Instance |-> Rank(e)]
<1>6. f \in Injection(Instance, 0..Size - 1)
  <2>1. f \in [Instance -> 0..Size - 1]
    BY <1>3
  <2>2. \A d, e \in Instance : f[d] = f[e] => d = e
    BY <1>5
  <2> HIDE DEF f
  <2> QED BY <2>1, <2>2 DEF Injection, IsInjective
<1>7. IsFiniteSet(0..Size - 1) /\ Cardinality(0..Size - 1) = Size
  <2>1. Size - 1 \in Int /\ ~(0 > Size - 1) /\ (Size - 1) - 0 + 1 = Size
    BY <1>2
  <2> QED BY <2>1, FS_Interval
<1>8. f \in Surjection(Instance, 0..Size - 1)
  <2> HIDE DEF f
  <2> QED BY <1>2, <1>6, <1>7, FS_Injection
<1>9. ASSUME NEW n \in 0..Size - 1 PROVE \E e \in Instance : Rank(e) = n
  BY <1>8 DEF Surjection
<1> QED BY <1>3, <1>5, <1>9

\* So the n-th of the initial events has rank n.
LEMMA InitialLine ==
    ASSUME NEW line, line = [n \in 0..Size - 1 |-> InitialEvent(n)],
           NEW base, base = [e \in Instance |-> FirstBase(e)]
    PROVE  Complete(line, Instance, Size) /\ Sorted(line, base, Size)
<1>1. ASSUME NEW n \in 0..Size - 1
      PROVE  line[n] \in Instance /\ Rank(line[n]) = n
  <2>1. \E e \in Instance : Rank(e) = n
    BY RanksAreLine
  <2>2. InitialEvent(n) \in Instance /\ Rank(InitialEvent(n)) = n
    BY <2>1 DEF InitialEvent
  <2> QED BY <2>2
<1>2. line \in [0..Size - 1 -> Instance]
  BY <1>1
<1>3. ASSUME NEW e \in Instance PROVE \E n \in 0..Size - 1 : line[n] = e
  <2>1. Rank(e) \in 0..Size - 1
    BY RanksAreLine
  <2>2. line[Rank(e)] \in Instance /\ Rank(line[Rank(e)]) = Rank(e)
    BY <2>1, <1>1
  <2>3. line[Rank(e)] = e
    BY <2>2, RanksAreLine
  <2> QED BY <2>1, <2>3
<1>4. ASSUME NEW m \in 0..Size - 1, NEW n \in 0..Size - 1, m # n PROVE line[m] # line[n]
  BY <1>1, <1>4
<1>5. ASSUME NEW m \in 0..Size - 1, NEW n \in 0..Size - 1, m <= n
      PROVE  base[line[m]] <= base[line[n]]
  <2>1. /\ line[m] \in Instance /\ line[n] \in Instance
        /\ Rank(line[m]) <= Rank(line[n])
    BY <1>1, <1>5
  <2>2. FirstBase(line[m]) <= FirstBase(line[n])
    BY <2>1, RanksAreLine
  <2> QED BY <2>1, <2>2
<1>6. Complete(line, Instance, Size)
  BY <1>2, <1>3, <1>4 DEF Complete
<1>7. Sorted(line, base, Size)
  BY <1>5 DEF Sorted
<1> QED BY <1>6, <1>7

-----------------------------------------------------------------------------
(* Type correctness *)

TypeInv == TypeOK /\ scenario \in Scenarios

\* The periods a module may set are numbers.
LEMMA StepsAreNumbers ==
    ASSUME scenario \in Scenarios, NEW r \in Registry, NEW s \in scenario.steps[r]
    PROVE  s \in Nat
<1>1. scenario \in Scenario
  BY LockFreeConstants
<1>2. scenario.steps \in [Registry -> SUBSET (1..10)]
  BY <1>1 DEF Scenario
<1> QED BY <1>2

\* The ring starts with the right types.
LEMMA RingInitTypes == RingInit => RingTypeOK
<1> SUFFICES ASSUME RingInit PROVE RingTypeOK
  OBVIOUS
<1>1. /\ Size \in Nat \ {0} /\ Size < RingSize /\ RingSize \in Nat /\ Index = 0..RingSize - 1
      /\ Size = Cardinality(Instance)
  BY InstancesFit DEF Size
<1>2. ASSUME NEW n \in 0..Size - 1 PROVE InitialEvent(n) \in Instance
  <2>1. \E e \in Instance : Rank(e) = n
    BY RanksAreLine
  <2> QED BY <2>1 DEF InitialEvent
<1>3. ASSUME NEW i \in Index
      PROVE  InitialEvent(IF i < Cardinality(Instance) THEN i ELSE 0) \in Instance
  <2>1. (IF i < Cardinality(Instance) THEN i ELSE 0) \in 0..Size - 1
    BY <1>1
  <2> QED BY <2>1, <1>2
<1>4. element \in [Index -> Instance]
  BY <1>3 DEF RingInit
<1>5. tail \in Index /\ head \in Index /\ limit \in Index /\ ins \in Index
  BY <1>1 DEF RingInit
<1>6. event \in Instance /\ prev \in Instance
  <2>1. 0 \in Index
    BY <1>1
  <2> QED BY <2>1, <1>4 DEF RingInit
<1>7. instBase \in [Instance -> Nat] /\ instCycle \in [Instance -> Nat]
  BY FirstBaseIsDue DEF RingInit
<1>8. nBaseCycle \in [Registry -> Nat] /\ nCycle \in [Registry -> Nat] /\ nStep \in [Registry -> Nat]
  BY RingConstants DEF RingInit
<1>9. currentBaseCycle \in Nat
  BY DEF RingInit
<1> QED BY <1>4, <1>5, <1>6, <1>7, <1>8, <1>9 DEF RingTypeOK

\* Advancing the time keeps them.
LEMMA AdvanceTypes ==
    ASSUME RingTypeOK, AdvanceTime
    PROVE  RingTypeOK'
<1>1. TimeAt(head) \in Nat
  BY DEF RingTypeOK, TimeAt
<1>2. WindowEnd(TimeAt(head)) \in Int
  BY <1>1, RingConstants DEF WindowEnd
<1>3. FirstAfter(WindowEnd(TimeAt(head))) \in Index
  BY <1>2, SearchEnds
<1> QED BY <1>1, <1>3 DEF AdvanceTime, RingTypeOK, registryVars, instVars, insertVars

\* So do the steps that put the events of the current time back.
LEMMA ReInsertTypes ==
    ASSUME RingTypeOK, ReInsert
    PROVE  RingTypeOK'
<1>1. CASE PopFront
  <2> DEFINE e == element[head]
  <2>1. e \in Instance /\ Parent(e) \in Registry
    BY InstanceIsPair DEF RingTypeOK
  <2>2. Stride(e) \in Nat /\ nStep[Parent(e)] \in Nat
    BY <2>1, InstancesSpan DEF Stride, RingTypeOK
  <2>3. Stride(e) * nStep[Parent(e)] \in Nat
    BY <2>2
  <2>4. Succ(head) \in Index
    <3>1. 0 \in 0..RingSize - 2
      BY InstancesFit
    <3> QED BY <3>1, StepOn DEF RingTypeOK
  <2>5. /\ instCycle' \in [Instance -> Nat] /\ instBase' \in [Instance -> Nat]
        /\ nCycle' \in [Registry -> Nat] /\ nBaseCycle' \in [Registry -> Nat]
    <3>1. CASE IsOldest(e)
      <4>1. /\ instCycle' = [instCycle EXCEPT ![e] = @ + Stride(e)]
            /\ instBase' = [instBase EXCEPT ![e] = @ + Stride(e) * nStep[Parent(e)]]
            /\ nCycle' = [nCycle EXCEPT ![Parent(e)] = @ + 1]
            /\ nBaseCycle' = [nBaseCycle EXCEPT ![Parent(e)] = @ + nStep[Parent(e)]]
        BY <1>1, <3>1 DEF PopFront
      <4> DEFINE k == Stride(e) * nStep[Parent(e)]
      <4>2. instBase' = [instBase EXCEPT ![e] = @ + k]
        BY <4>1
      <4> HIDE DEF e, k
      <4>3. k \in Nat
        BY <2>3 DEF k
      <4> QED BY <2>1, <2>2, <4>1, <4>2, <4>3 DEF RingTypeOK
    <3>2. CASE ~IsOldest(e)
      BY <1>1, <3>2 DEF PopFront, RingTypeOK, instVars
    <3> QED BY <3>1, <3>2
  <2> QED BY <1>1, <2>1, <2>4, <2>5 DEF PopFront, RingTypeOK
<1>2. CASE InsertBegin
  <2>1. instBase[event] \in Int
    BY DEF RingTypeOK
  <2>2. FirstAfter(instBase[event]) \in Index
    BY <2>1, SearchEnds
  <2> QED BY <1>2, <2>2 DEF InsertBegin, RingTypeOK, registryVars, instVars
<1>3. CASE InsertShift
  <2>1. Succ(ins) \in Index
    <3>1. 0 \in 0..RingSize - 2
      BY InstancesFit
    <3> QED BY <3>1, StepOn DEF RingTypeOK
  <2> QED BY <1>3, <2>1 DEF InsertShift, RingTypeOK, Displaced, registryVars, instVars
<1>4. CASE InsertEnd
  <2>1. Succ(ins) \in Index
    <3>1. 0 \in 0..RingSize - 2
      BY InstancesFit
    <3> QED BY <3>1, StepOn DEF RingTypeOK
  <2> QED BY <1>4, <2>1 DEF InsertEnd, RingTypeOK, registryVars, instVars, insertVars
<1>5. CASE ClockEnd
  BY <1>5 DEF ClockEnd, RingTypeOK, ringVars, registryVars, instVars, indexVars, insertVars
<1> QED BY <1>1, <1>2, <1>3, <1>4, <1>5 DEF ReInsert

\* The first states have the right types.
LEMMA InitTypes == Init => TypeInv
<1> SUFFICES ASSUME Init PROVE TypeInv
  OBVIOUS
<1>1. RingTypeOK
  BY RingInitTypes DEF Init
<1>2. 0 \in Index
  BY InstancesFit
<1>3. localDoneTime \in [Thread -> Int]
  BY LockFreeConstants DEF Init
<1> QED BY <1>1, <1>2, <1>3 DEF Init, TypeInv, TypeOK

\* The steps of the server thread keep them.
LEMMA ServerTypes ==
    ASSUME TypeInv, Server \/ ClockBegin \/ StopClockServer \/ InitAgain
    PROVE  TypeInv'
<1> USE DEF TypeInv, TypeOK
<1>1. CASE \E t \in Thread : CreatePthread(t)
  BY <1>1 DEF CreatePthread, RingTypeOK, ringVars, registryVars, instVars, indexVars, insertVars, workVars, cbVars
<1>2. CASE \E t \in Thread : DestroyPthread(t)
  BY <1>2 DEF DestroyPthread, RingTypeOK, ringVars, registryVars, instVars, indexVars, insertVars, workVars, cbVars
<1>3. CASE PthreadCreated
  BY <1>3 DEF PthreadCreated, RingTypeOK, ringVars, registryVars, instVars, indexVars, insertVars,
              workerVars, threadVars, workVars, cbVars
<1>4. CASE PthreadJoined
  BY <1>4 DEF PthreadJoined, RingTypeOK, ringVars, registryVars, instVars, indexVars, insertVars, workVars, cbVars
<1>5. CASE Barrier
  BY <1>5 DEF Barrier, RingTypeOK, ringVars, registryVars, instVars, indexVars, insertVars,
              workerVars, threadVars, workVars, cbVars
<1>6. CASE StopClockServer
  BY <1>6 DEF StopClockServer, RingTypeOK, ringVars, registryVars, instVars, indexVars, insertVars,
              workerVars, threadVars, workVars, cbVars
<1>7. CASE InitAgain
  BY <1>7 DEF InitAgain, RingTypeOK, ringVars, registryVars, instVars, indexVars, insertVars,
              workerVars, threadVars, workVars, cbVars
<1>8. CASE ClockBegin
  <2>1. RingTypeOK'
    BY <1>8, AdvanceTypes DEF ClockBegin
  <2> QED BY <1>8, <2>1 DEF ClockBegin, AdvanceTime, workerVars, threadVars, workVars, cbVars
<1>9. CASE AddEventsAgain
  <2>1. RingTypeOK'
    BY <1>9, ReInsertTypes DEF AddEventsAgain
  <2>2. serverPc' \in {"create", "idle", "wait", "pop", "find", "shift", "stop", "off", "failed"}
    BY <1>9 DEF AddEventsAgain, ReInsert, PopFront, InsertBegin, InsertShift, InsertEnd, ClockEnd
  <2> QED BY <1>9, <2>1, <2>2 DEF AddEventsAgain, workerVars, threadVars, workVars, cbVars
<1> QED BY <1>1, <1>2, <1>3, <1>4, <1>5, <1>6, <1>7, <1>8, <1>9 DEF Server

\* So do the steps of a worker.
LEMMA WorkerTypes ==
    ASSUME TypeInv, NEW t \in Thread, Worker(t)
    PROVE  TypeInv'
<1> USE DEF TypeInv, TypeOK
<1>0. UNCHANGED <<ringVars, serverPc, scenario, target>>
  BY DEF Worker, ThreadStart, ThreadInit, SnapshotHead, Ready, Wait, FirstTime, Collect, Collected,
         RunCallback, FinishTime
<1>00. RingTypeOK'
  BY <1>0 DEF RingTypeOK, ringVars, registryVars, instVars, indexVars, insertVars
<1>1. CASE ThreadStart(t)
  BY <1>0, <1>00, <1>1 DEF ThreadStart, workVars, cbVars
<1>2. CASE ThreadInit(t)
  BY <1>0, <1>00, <1>2 DEF ThreadInit, threadVars, workVars, cbVars, RingTypeOK
<1>3. CASE SnapshotHead(t)
  BY <1>0, <1>00, <1>3 DEF SnapshotHead, threadVars, workVars, cbVars, RingTypeOK
<1>4. CASE Ready(t)
  BY <1>0, <1>00, <1>4 DEF Ready, threadVars, workVars, cbVars
<1>5. CASE Wait(t)
  <2>1. TimeAt(head) \in Int
    BY DEF RingTypeOK, TimeAt
  <2> QED BY <1>0, <1>00, <1>5, <2>1 DEF Wait, threadVars, workVars, cbVars
<1>6. CASE Collect(t)
  <2>1. element[index[t]] \in Instance /\ instBase[element[index[t]]] \in Int
    BY DEF RingTypeOK
  <2>2. Succ(index[t]) \in Index
    <3>1. 0 \in 0..RingSize - 2
      BY InstancesFit
    <3> QED BY <3>1, StepOn
  <2> QED BY <1>0, <1>00, <1>6, <2>1, <2>2 DEF Collect, threadVars, cbVars
<1>7. CASE Collected(t)
  BY <1>0, <1>00, <1>7 DEF Collected, threadVars, cbVars
<1>8. CASE \E c \in Callback : RunCallback(t, c)
  BY <1>0, <1>00, <1>8 DEF RunCallback, threadVars, RingTypeOK
<1>9. CASE FinishTime(t)
  BY <1>0, <1>00, <1>9 DEF FinishTime, DoneTime, threadVars, cbVars
<1>10. CASE FirstTime(t)
  <2>1. TimeAt(index[t]) \in Int
    BY DEF RingTypeOK, TimeAt
  <2> QED BY <1>0, <1>00, <1>10, <2>1 DEF FirstTime, threadVars, cbVars
<1> QED BY <1>1, <1>2, <1>3, <1>4, <1>5, <1>6, <1>7, <1>8, <1>9, <1>10 DEF Worker

\* Every step keeps them.
LEMMA StepTypes ==
    ASSUME TypeInv, [Next]_vars
    PROVE  TypeInv'
<1>1. CASE Server \/ ClockBegin \/ StopClockServer \/ InitAgain
  BY <1>1, ServerTypes
<1>2. CASE \E t \in Thread : Worker(t)
  BY <1>2, WorkerTypes
<1>3. CASE UNCHANGED vars
  BY <1>3 DEF vars, TypeInv, TypeOK, RingTypeOK, ringVars, registryVars, instVars, indexVars, insertVars,
              workerVars, threadVars, workVars, cbVars
<1>4. ASSUME NEW t \in Thread, NEW r \in Registry, NEW s \in scenario.steps[r],
             SetDomainFrequency(t, r, s)
      PROVE  TypeInv'
  <2>1. s \in Nat
    BY StepsAreNumbers DEF TypeInv
  <2> QED BY <1>4, <2>1 DEF SetDomainFrequency, TypeInv, TypeOK, RingTypeOK, instVars, indexVars, insertVars,
              threadVars, cbVars
<1> QED BY <1>1, <1>2, <1>3, <1>4 DEF Next, Finished

\* The variables keep their types, whatever the frequencies.
THEOREM TypesKept == Spec => []TypeOK
<1>1. Spec => []TypeInv
  BY InitTypes, StepTypes, PTL DEF Spec
<1> QED BY <1>1, PTL DEF TypeInv

-----------------------------------------------------------------------------
(* What a thread does on the line *)

\* A thread begins at the head, having done nothing.
LEMMA ReaderBegins ==
    ASSUME NEW size \in Nat, NEW line, NEW base \in [Instance -> Nat],
           \A n \in 0..size - 1 : line[n] \in Instance, NEW ready
    PROVE  Reader(line, base, size, 0, -1, {}, ready)
<1>1. \A n \in 0..size - 1 : base[line[n]] > -1
  OBVIOUS
<1> QED BY <1>1 DEF Reader

\* It takes the event it has come to, if that has the time it is at or is the first.
LEMMA ReaderCollects ==
    ASSUME NEW size \in Nat, NEW line, NEW base \in [Instance -> Nat],
           \A n \in 0..size - 1 : line[n] \in Instance, Sorted(line, base, size),
           NEW d \in 0..size - 1, NEW done \in Int, NEW got \in SUBSET Instance, NEW ready \in Int,
           Reader(line, base, size, d, done, got, ready),
           got # {} => base[line[d]] = ready
    PROVE  Reader(line, base, size, d + 1, done, got \cup {line[d]}, base[line[d]])
<1>1. \A n \in 0..size - 1 : base[line[n]] \in Nat
  OBVIOUS
<1> DEFINE e == line[d]
<1>2. base[e] > done /\ base[e] \in Nat
  BY <1>1 DEF Reader
<1>3. \A n \in 0..size - 1 : n >= d + 1 => base[line[n]] > done /\ base[line[n]] >= base[e]
  BY <1>1 DEF Reader, Sorted
<1>4. ASSUME NEW n \in 0..size - 1, n < d + 1
      PROVE  base[line[n]] <= done \/ line[n] \in got \cup {e}
  <2>1. n < d \/ n = d
    BY <1>4
  <2> QED BY <2>1 DEF Reader
<1>5. ASSUME NEW b \in got \cup {e}
      PROVE  base[b] = base[e] /\ base[e] > done /\ \E n \in 0..size - 1 : n < d + 1 /\ line[n] = b
  <2>1. CASE b = e
    BY <2>1, <1>2
  <2>2. CASE b \in got
    <3>1. base[b] = ready /\ \E n \in 0..size - 1 : n < d /\ line[n] = b
      BY <2>2 DEF Reader
    <3>2. PICK n \in 0..size - 1 : n < d /\ line[n] = b
      BY <3>1
    <3>3. n < d + 1
      BY <3>2
    <3> QED BY <2>2, <3>1, <3>2, <3>3, <1>2
  <2> QED BY <2>1, <2>2
<1> HIDE DEF e
<1>6. Reader(line, base, size, d + 1, done, got \cup {e}, base[e])
  BY <1>3, <1>4, <1>5 DEF Reader
<1> QED BY <1>6 DEF e

\* It has all the events of its time when the next one is of another time.
LEMMA ReaderHasAll ==
    ASSUME NEW size \in Nat, NEW line, NEW base \in [Instance -> Nat],
           \A n \in 0..size - 1 : line[n] \in Instance, Sorted(line, base, size),
           NEW d \in 0..size, NEW done \in Int, NEW got \in SUBSET Instance, NEW ready \in Int,
           Reader(line, base, size, d, done, got, ready), got # {},
           d < size => base[line[d]] # ready
    PROVE  Past(line, base, size, d, ready)
<1> SUFFICES ASSUME NEW n \in 0..size - 1, n >= d PROVE base[line[n]] > ready
  BY DEF Past
<1>1. d \in 0..size - 1 /\ d < size
  OBVIOUS
<1>2. base[line[n]] \in Nat /\ base[line[d]] \in Nat
  BY <1>1
<1>3. base[line[d]] >= ready /\ base[line[d]] <= base[line[n]]
  BY <1>1 DEF Reader, Sorted
<1> QED BY <1>1, <1>2, <1>3

\* Its time is then done.
LEMMA ReaderFinishes ==
    ASSUME NEW size \in Nat, NEW line, NEW base \in [Instance -> Nat],
           \A n \in 0..size - 1 : line[n] \in Instance,
           NEW d \in Nat, NEW done \in Int, NEW got \in SUBSET Instance, NEW ready \in Int,
           Reader(line, base, size, d, done, got, ready), got # {},
           Past(line, base, size, d, ready)
    PROVE  Reader(line, base, size, d, ready, {}, ready)
<1>1. \A n \in 0..size - 1 : base[line[n]] \in Nat
  OBVIOUS
<1>2. ready > done /\ \A e \in got : base[e] = ready
  BY DEF Reader
<1>3. \A n \in 0..size - 1 : n < d => base[line[n]] <= ready
  BY <1>1, <1>2 DEF Reader
<1> QED BY <1>3 DEF Reader, Past

-----------------------------------------------------------------------------
(* The line and the ring *)

\* The number of events that are in the ring.
LEMMA WaitingFits ==
    /\ Waiting \in Nat /\ Waiting <= Size /\ Size < RingSize /\ RingSize \in Nat /\ Size \in Nat \ {0}
    /\ serverPc # "find" => Waiting = Size
    /\ serverPc = "find" => Waiting = Size - 1
BY InstancesFit DEF Waiting

\* Up to the place of the insertion, the line is what the ring holds.
LEMMA LineIsRing ==
    ASSUME NEW n \in 0..Waiting - 1, serverPc = "shift" => n <= Off(ins, head)
    PROVE  Line[n] = element[Pos(head, n)]
<1>1. CASE serverPc = "shift"
  <2>1. n \in 0..Size - 1
    BY <1>1, WaitingFits
  <2> QED BY <1>1, <2>1 DEF Line, Opened
<1>2. CASE serverPc # "shift"
  BY <1>2 DEF Line, Stretch
<1> QED BY <1>1, <1>2

\* All in the line are instances, with their times.
LEMMA LineHolds ==
    ASSUME TypeInv, LineInv, NEW n \in 0..Waiting - 1
    PROVE  Line[n] \in Members /\ Line[n] \in Instance /\ instBase[Line[n]] \in Nat
<1>1. Line[n] \in Members /\ Members \subseteq Instance
  BY DEF LineInv, Complete, Members
<1> QED BY <1>1 DEF TypeInv, TypeOK, RingTypeOK

\* Indices are at a distance from the head.
LEMMA Distances ==
    ASSUME TypeInv
    PROVE  /\ Off(limit, head) \in 0..RingSize - 1 /\ Off(ins, head) \in 0..RingSize - 1
           /\ Off(tail, head) \in 0..RingSize - 1
           /\ \A t \in Thread : /\ Off(index[t], head) \in 0..RingSize - 1
                                /\ Off(index[t], snapshotHead[t]) \in 0..RingSize - 1
                                /\ Off(head, snapshotHead[t]) \in 0..RingSize - 1
           /\ head \in Index /\ limit \in Index /\ tail \in Index /\ ins \in Index
           /\ \A t \in Thread : index[t] \in Index /\ snapshotHead[t] \in Index
<1>1. /\ head \in Index /\ limit \in Index /\ tail \in Index /\ ins \in Index
      /\ \A t \in Thread : index[t] \in Index /\ snapshotHead[t] \in Index
  BY DEF TypeInv, TypeOK, RingTypeOK
<1>2. 0 \in 0..RingSize - 1
  BY InstancesFit
<1> QED BY <1>1, <1>2, Round

\* What a thread reads inside the window is the event of the line.
LEMMA ThreadSeesLine ==
    ASSUME TypeInv, LineInv, NEW t \in Thread, Off(index[t], head) < Off(limit, head)
    PROVE  /\ Off(index[t], head) \in 0..Waiting - 1
           /\ Line[Off(index[t], head)] = element[index[t]]
           /\ serverPc = "shift" => Off(index[t], head) < Off(ins, head)
<1> DEFINE d == Off(index[t], head)
           w == Off(limit, head)
           j == Off(ins, head)
<1>1. d \in 0..RingSize - 1 /\ w \in 0..RingSize - 1 /\ j \in 0..RingSize - 1
  BY Distances
<1>2. w <= Waiting /\ (serverPc = "shift" => w <= j)
  BY DEF LineInv
<1>3. Pos(head, d) = index[t]
  BY <1>1, Distances, Round
<1> HIDE DEF d, w, j
<1>4. d < w
  BY DEF d, w
<1>5. d \in 0..Waiting - 1 /\ (serverPc = "shift" => d < j)
  BY <1>1, <1>2, <1>4, WaitingFits
<1>6. serverPc = "shift" => d <= j
  BY <1>1, <1>5
<1>7. Line[d] = element[index[t]]
  BY <1>3, <1>5, <1>6, LineIsRing DEF j
<1> QED BY <1>5, <1>7 DEF d, j

\* Before an insertion begins, the head is the first of the line.
LEMMA HeadIsFirst ==
    ASSUME TypeInv, serverPc \notin {"find", "shift"}
    PROVE  0 \in 0..Waiting - 1 /\ Line[0] = element[head] /\ Waiting = Size
<1>1. 0 \in 0..Waiting - 1 /\ Waiting = Size
  BY WaitingFits
<1>2. Pos(head, 0) = head
  BY <1>1, Distances, Round, WaitingFits
<1> QED BY <1>1, <1>2, LineIsRing

\* A step that leaves the ring alone leaves the line alone.
LEMMA RingUnmoved ==
    ASSUME UNCHANGED ringVars,
           \/ serverPc' = serverPc
           \/ /\ serverPc \notin {"find", "shift"} /\ serverPc' \notin {"find", "shift"}
              /\ serverPc' # "wait"
    PROVE  /\ Line' = Line /\ Waiting' = Waiting /\ Members' = Members
           /\ CycleInv => CycleInv'
           /\ LineInv => LineInv'
<1>1. /\ UNCHANGED <<nBaseCycle, nCycle, nStep, instBase, instCycle, element, head, limit, tail>>
      /\ UNCHANGED <<currentBaseCycle, event, ins, prev>>
  BY DEF ringVars, registryVars, instVars, indexVars, insertVars
<1>2. /\ serverPc' = "shift" <=> serverPc = "shift"
      /\ serverPc' = "find" <=> serverPc = "find"
      /\ serverPc' = "wait" => serverPc = "wait"
  OBVIOUS
<1>3. Waiting' = Waiting /\ Members' = Members
  BY <1>1, <1>2 DEF Waiting, Members
<1>4. Line' = Line
  BY <1>1, <1>2, <1>3 DEF Line
<1>5. CycleInv => CycleInv'
  BY <1>1 DEF CycleInv
<1>6. LineInv => LineInv'
  BY <1>1, <1>2, <1>3, <1>4 DEF LineInv
<1> QED BY <1>3, <1>4, <1>5, <1>6

\* The invariant holds at first.
LEMMA InitInv ==
    ASSUME UninitBlocks, Init
    PROVE  IInv
<1>0. TypeInv
  BY InitTypes
<1>1. RingInit /\ serverPc = "create"
  BY DEF Init
<1>2. CycleInv
  <2>1. \A r \in Registry : nBaseCycle[r] = Due(r, nCycle[r])
    <3> TAKE r \in Registry
    <3>1. firstTime[r] \in Nat /\ InitStep[r] \in Nat
      BY InstancesSpan
    <3>2. Due(r, 0) = firstTime[r]
      BY <3>1 DEF Due
    <3> QED BY <1>1, <3>2 DEF RingInit
  <2>2. \A e \in Instance : instBase[e] = Due(Parent(e), instCycle[e])
    BY <1>1, FirstBaseIsDue DEF RingInit
  <2>3. ASSUME NEW r \in Registry PROVE Successive(r, nCycle[r], instCycle)
    <3>1. Instances(r) \in Nat
      BY InstancesSpan
    <3>2. \A k \in 1..Instances(r) : instCycle[<<r, k>>] = k - 1
      <4> TAKE k \in 1..Instances(r)
      <4>1. <<r, k>> \in Instance /\ <<r, k>>[2] = k
        BY PairIsInstance
      <4> QED BY <4>1, <1>1 DEF RingInit
    <3>3. nCycle[r] = 0
      BY <1>1 DEF RingInit
    <3>4. ASSUME NEW m \in 0..Instances(r) - 1
          PROVE  \E k \in 1..Instances(r) : instCycle[<<r, k>>] = m
      <4>1. m + 1 \in 1..Instances(r) /\ (m + 1) - 1 = m
        BY <3>1
      <4>2. instCycle[<<r, m + 1>>] = m
        BY <4>1, <3>2
      <4> QED BY <4>1, <4>2
    <3> QED BY <3>1, <3>2, <3>3, <3>4 DEF Successive
  <2> QED BY <1>1, <2>1, <2>2, <2>3 DEF CycleInv, RingInit
<1>3. Line = [n \in 0..Size - 1 |-> InitialEvent(n)]
  <2>1. Waiting = Size /\ Size < RingSize /\ RingSize \in Nat /\ Size \in Nat
    BY <1>1, WaitingFits
  <2>2. \A n \in 0..Size - 1 : element[Pos(head, n)] = InitialEvent(n)
    <3> TAKE n \in 0..Size - 1
    <3>1. head = 0 /\ Pos(head, n) = n /\ n \in Index /\ n < Cardinality(Instance)
      BY <1>1, <2>1, InstancesFit DEF RingInit, Pos, Size
    <3> QED BY <1>1, <3>1 DEF RingInit
  <2>3. Line = [n \in 0..Size - 1 |-> element[Pos(head, n)]]
    BY <1>1, <2>1 DEF Line, Stretch
  <2> QED BY <2>2, <2>3
<1>4. Complete(Line, Instance, Size) /\ Sorted(Line, instBase, Size)
  <2>1. instBase = [e \in Instance |-> FirstBase(e)]
    BY <1>1 DEF RingInit
  <2> QED BY <1>3, <2>1, InitialLine
<1>5. LineInv
  <2>1. Waiting = Size /\ Members = Instance /\ Size < RingSize /\ RingSize \in Nat /\ Size \in Nat
    BY <1>1, WaitingFits DEF Members
  <2>2. tail = Pos(head, Size) /\ Off(limit, head) = 0
    BY <1>1, <2>1 DEF RingInit, Pos, Off, Size
  <2>3. \A n \in 0..Size - 1 : instBase[Line[n]] \in Nat
    BY <1>0, <1>4 DEF TypeInv, TypeOK, RingTypeOK, Complete
  <2>4. Edge(Line, instBase, Size, 0, -1)
    BY <2>3 DEF Edge
  <2>5. \A e \in Instance : instBase[e] >= currentBaseCycle
    BY <1>0, <1>1 DEF TypeInv, TypeOK, RingTypeOK, RingInit
  <2> QED BY <1>1, <1>4, <2>1, <2>2, <2>4, <2>5 DEF LineInv
<1>6. ReaderInv
  BY DEF Init, ReaderInv, ReaderAt, Walking
<1>7. LifeInv
  BY DEF Init, LifeInv, UninitBlocks
<1>8. CallInv
  <2>1. ASSUME NEW c \in Callback
        PROVE  /\ nCycle[cbReg[c]] <= calls[c] /\ calls[c] = 0
               /\ Due(cbReg[c], calls[c]) > Mark(c)
    <3>1. cbReg[c] \in Registry /\ cbThread[c] \in Thread
      BY LockFreeConstants
    <3>2. calls[c] = 0 /\ nCycle[cbReg[c]] = 0
      BY <1>1, <3>1 DEF Init, RingInit
    <3>3. Due(cbReg[c], calls[c]) \in Nat
      BY <3>1, <3>2, DueInOrder
    <3>4. Mark(c) = localDoneTime[cbThread[c]]
      BY <3>1 DEF Mark, Init
    <3>5. localDoneTime[cbThread[c]] \in Int /\ localDoneTime[cbThread[c]] < 0
      BY <1>0, <3>1 DEF Init, UninitBlocks, TypeInv, TypeOK
    <3> QED BY <3>2, <3>3, <3>4, <3>5
  <2>2. \A t \in Thread : workerPc[t] # "run"
    BY DEF Init
  <2> QED BY <2>1, <2>2 DEF CallInv
<1> QED BY <1>2, <1>5, <1>6, <1>7, <1>8 DEF IInv

-----------------------------------------------------------------------------
(* The server's steps on the ring *)

\* The window opens further, up to the new time and the lookahead.
LEMMA WindowOpens ==
    ASSUME TypeInv, IInv, ClockBegin
    PROVE  /\ Off(limit, head) \in Nat /\ Off(limit, head) <= Off(limit', head)
           /\ Off(limit', head) \in 0..Size
           /\ Edge(Line, instBase, Size, Off(limit', head), TimeAt(head) + lookahead)
<1> DEFINE now == TimeAt(head)
           w == Off(limit, head)
           v == Off(limit', head)
<1>1. /\ serverPc = "idle" /\ serverPc' = "wait"
      /\ currentBaseCycle' = now /\ limit' = FirstAfter(now + lookahead)
      /\ UNCHANGED <<nBaseCycle, nCycle, nStep, instBase, instCycle, element, head, tail>>
      /\ UNCHANGED <<event, ins, prev, scenario, workerVars, cbVars>>
  BY DEF ClockBegin, AdvanceTime, WindowEnd, registryVars, instVars, insertVars
<1>2. /\ Waiting = Size /\ Members = Instance /\ Waiting' = Size /\ Members' = Instance
      /\ Line' = Line
  BY <1>1 DEF Waiting, Members, Line
<1>3. /\ Complete(Line, Instance, Size) /\ Sorted(Line, instBase, Size)
      /\ tail = Pos(head, Size) /\ w <= Size
      /\ \A e \in Instance : instBase[e] >= currentBaseCycle
  BY <1>1, <1>2 DEF IInv, LineInv
<1>4. PICK edge \in {-1, currentBaseCycle + lookahead} : Edge(Line, instBase, Size, w, edge)
  BY <1>1, <1>2 DEF IInv, LineInv
<1>5. /\ Size \in Nat \ {0} /\ Size < RingSize /\ RingSize \in Nat /\ lookahead \in Nat
      /\ currentBaseCycle \in Nat
  BY WaitingFits, RingConstants DEF TypeInv, TypeOK, RingTypeOK
<1>6. \A n \in 0..Size - 1 : Line[n] \in Instance /\ instBase[Line[n]] \in Nat
  BY <1>2, LineHolds DEF IInv
<1>7. 0 \in 0..Size - 1 /\ now = instBase[Line[0]] /\ now \in Nat /\ now >= currentBaseCycle
  <2>1. 0 \in 0..Size - 1 /\ Line[0] = element[head]
    BY <1>1, <1>2, HeadIsFirst
  <2> QED BY <2>1, <1>3, <1>6 DEF TimeAt
<1> HIDE DEF now
<1>8. PICK p \in 0..Off(tail, head) :
          /\ FirstAfter(now + lookahead) = Pos(head, p) /\ Pos(head, p) \in Index
          /\ p < Off(tail, head) => instBase[element[Pos(head, p)]] > now + lookahead
          /\ \A m \in 0..p - 1 : instBase[element[Pos(head, m)]] <= now + lookahead
  <2>1. now + lookahead \in Int
    BY <1>5, <1>7
  <2> QED BY <2>1, SearchEnds DEF TypeInv, TypeOK
<1>9. Off(tail, head) = Size
  <2>1. Size \in 0..RingSize - 1
    BY <1>5
  <2> QED BY <2>1, <1>3, Distances, Round
<1>10. p \in 0..Size /\ p \in 0..RingSize - 1 /\ v = p
  <2>1. p \in 0..Size /\ p \in 0..RingSize - 1
    BY <1>5, <1>8, <1>9
  <2>2. Off(Pos(head, p), head) = p
    BY <2>1, Distances, Round
  <2> QED BY <2>1, <2>2, <1>1, <1>8
<1>11. \A n \in 0..Size - 1 : element[Pos(head, n)] = Line[n]
  BY <1>1, <1>2, LineIsRing
<1>12. Edge(Line, instBase, Size, p, now + lookahead)
  <2> SUFFICES ASSUME NEW n \in 0..Size - 1
               PROVE  n < p <=> instBase[Line[n]] <= now + lookahead
    BY DEF Edge
  <2>1. CASE n < p
    <3>1. n \in 0..p - 1
      BY <2>1
    <3> QED BY <2>1, <3>1, <1>8, <1>11
  <2>2. CASE ~(n < p)
    <3>1. p \in 0..Size - 1 /\ p <= n
      BY <2>2, <1>5, <1>10
    <3>2. instBase[Line[p]] > now + lookahead
      BY <3>1, <1>5, <1>8, <1>9, <1>11
    <3>3. instBase[Line[p]] <= instBase[Line[n]]
      BY <3>1, <1>3 DEF Sorted
    <3> QED BY <2>2, <3>1, <3>2, <3>3, <1>5, <1>6, <1>7
  <2> QED BY <2>1, <2>2
<1>13. w <= v /\ w \in Nat
  <2>1. w \in Nat
    BY Distances, <1>5
  <2> SUFFICES ASSUME p < w PROVE FALSE
    BY <2>1, <1>10
  <2>2. p \in 0..Size - 1
    BY <1>3, <1>5, <1>10, <2>1
  <2>3. instBase[Line[p]] <= edge /\ instBase[Line[p]] > now + lookahead
    BY <2>2, <1>4, <1>5, <1>8, <1>9, <1>11 DEF Edge
  <2> QED BY <2>2, <2>3, <1>5, <1>6, <1>7
<1> QED BY <1>10, <1>12, <1>13 DEF now

\* The server lets the workers go.
LEMMA ClockBegins ==
    ASSUME TypeInv, IInv, ClockBegin
    PROVE  IInv'
<1> DEFINE now == TimeAt(head)
           w == Off(limit, head)
           v == Off(limit', head)
<1>1. /\ serverPc = "idle" /\ serverPc' = "wait"
      /\ currentBaseCycle' = now /\ limit' = FirstAfter(now + lookahead)
      /\ UNCHANGED <<nBaseCycle, nCycle, nStep, instBase, instCycle, element, head, tail>>
      /\ UNCHANGED <<event, ins, prev, scenario, workerVars, cbVars>>
  BY DEF ClockBegin, AdvanceTime, WindowEnd, registryVars, instVars, insertVars
<1>2. /\ UNCHANGED <<workerPc, threadActive, threadForceExit, localDoneTime, index, snapshotHead>>
      /\ UNCHANGED <<localReadyTime, clocked, todo, mayChange, calls>>
  BY <1>1 DEF workerVars, threadVars, workVars, cbVars
<1>3. /\ Waiting = Size /\ Members = Instance /\ Waiting' = Size /\ Members' = Instance
      /\ Line' = Line
  BY <1>1 DEF Waiting, Members, Line
<1>4. /\ Complete(Line, Instance, Size) /\ Sorted(Line, instBase, Size)
      /\ tail = Pos(head, Size) /\ w <= Size
      /\ \A e \in Instance : instBase[e] >= currentBaseCycle
  BY <1>1, <1>3 DEF IInv, LineInv
<1>5. /\ Size \in Nat \ {0} /\ Size < RingSize /\ RingSize \in Nat /\ lookahead \in Nat
      /\ currentBaseCycle \in Nat
  BY WaitingFits, RingConstants DEF TypeInv, TypeOK, RingTypeOK
<1>6. \A n \in 0..Size - 1 : Line[n] \in Instance /\ instBase[Line[n]] \in Nat
  BY <1>3, LineHolds DEF IInv
<1>7. 0 \in 0..Size - 1 /\ now = instBase[Line[0]] /\ now \in Nat /\ now >= currentBaseCycle
  <2>1. 0 \in 0..Size - 1 /\ Line[0] = element[head]
    BY <1>1, <1>3, HeadIsFirst
  <2> QED BY <2>1, <1>4, <1>6 DEF TimeAt
<1> HIDE DEF now
<1>8. /\ w \in Nat /\ w <= v /\ v \in 0..Size
      /\ Edge(Line, instBase, Size, v, now + lookahead)
  BY WindowOpens DEF now
<1> HIDE DEF w, v
<1>9. CycleInv'
  BY <1>1 DEF IInv, CycleInv
<1>10. \A e \in Instance : instBase[e] >= now
  <2> TAKE e \in Instance
  <2>1. PICK n \in 0..Size - 1 : Line[n] = e
    BY <1>4 DEF Complete
  <2>2. instBase[Line[0]] <= instBase[Line[n]]
    BY <1>4, <1>7 DEF Sorted
  <2> QED BY <2>1, <2>2, <1>6, <1>7
<1>11. LineInv'
  <2>1. Complete(Line, Instance, Size)' /\ Sorted(Line, instBase, Size)'
    BY <1>1, <1>3, <1>4 DEF Complete, Sorted, Size
  <2>2. Edge(Line', instBase', Size, Off(limit', head'), currentBaseCycle' + lookahead)
    BY <1>1, <1>3, <1>8 DEF v
  <2>3. Off(limit', head') <= Size
    BY <1>1, <1>5, <1>8 DEF v
  <2> QED BY <1>1, <1>3, <1>4, <1>7, <1>10, <2>2, <2>3 DEF LineInv
<1>12. ReaderInv'
  <2> SUFFICES ASSUME NEW t \in Thread
      PROVE  /\ Walking(t) =>
                /\ Reader(Line, instBase, Size, Off(index[t], head), localDoneTime[t],
                        clocked[t], localReadyTime[t])
                /\ Off(index[t], head) <= v
                /\ localDoneTime[t] <= now + lookahead
                /\ clocked[t] # {} => localReadyTime[t] <= now + lookahead
             /\ workerPc[t] = "limit" =>
                /\ Off(head, snapshotHead[t]) <= Off(index[t], snapshotHead[t])
                /\ Off(index[t], snapshotHead[t]) <= Size
             /\ workerPc[t] = "read" => Off(index[t], head) < v
             /\ workerPc[t] = "run" =>
                /\ clocked[t] # {}
                /\ Past(Line, instBase, Size, Off(index[t], head), localReadyTime[t])
    BY <1>1, <1>2, <1>3 DEF ReaderInv, ReaderAt, Walking, v
  <2> DEFINE d == Off(index[t], head)
  <2>1. d \in Nat /\ v \in Nat /\ localDoneTime[t] \in Int /\ localReadyTime[t] \in Int
    BY <1>5, <1>8, Distances DEF TypeInv, TypeOK
  <2> HIDE DEF d
  <2>2. Walking(t) =>
                /\ Reader(Line, instBase, Size, d, localDoneTime[t], clocked[t], localReadyTime[t])
                /\ d <= w
                /\ localDoneTime[t] <= currentBaseCycle + lookahead
                /\ clocked[t] # {} => localReadyTime[t] <= currentBaseCycle + lookahead
    BY <1>3 DEF IInv, ReaderInv, ReaderAt, d, w
  <2>3. Walking(t) =>
                /\ d <= v
                /\ localDoneTime[t] <= now + lookahead
                /\ clocked[t] # {} => localReadyTime[t] <= now + lookahead
    BY <2>1, <2>2, <1>5, <1>7, <1>8
  <2>4. /\ workerPc[t] = "limit" =>
                /\ Off(head, snapshotHead[t]) <= Off(index[t], snapshotHead[t])
                /\ Off(index[t], snapshotHead[t]) <= Size
        /\ workerPc[t] = "run" =>
                /\ clocked[t] # {}
                /\ Past(Line, instBase, Size, d, localReadyTime[t])
    BY <1>3 DEF IInv, ReaderInv, ReaderAt, d
  <2>5. workerPc[t] = "read" => d < w
    BY DEF IInv, ReaderInv, ReaderAt, d, w
  <2>6. workerPc[t] = "read" => d < v
    BY <2>1, <2>5, <1>8
  <2> QED BY <2>2, <2>3, <2>4, <2>6 DEF d
<1>13. LifeInv'
  BY <1>1, <1>2 DEF IInv, LifeInv
<1>14. CallInv'
  BY <1>1, <1>2 DEF IInv, CallInv, Mark
<1> QED BY <1>9, <1>11, <1>12, <1>13, <1>14 DEF IInv

\* The oldest instance becomes the youngest, and the next one the oldest.
LEMMA OldestMovesOn ==
    ASSUME NEW r \in Registry, NEW first \in Nat, NEW cycles \in [Instance -> Nat],
           Successive(r, first, cycles), NEW e \in Instance, Parent(e) = r, cycles[e] = first,
           NEW after \in [Instance -> Nat], after[e] = first + Instances(r),
           \A d \in Instance : d # e => after[d] = cycles[d]
    PROVE  /\ Successive(r, first + 1, after)
           /\ \A q \in Registry, f \in Nat : q # r /\ Successive(q, f, cycles) => Successive(q, f, after)
<1>1. Instances(r) \in Nat \ {0}
  BY InstancesSpan
<1>2. e = <<r, e[2]>> /\ e[2] \in 1..Instances(r)
  BY InstanceIsPair
<1>3. \A k \in 1..Instances(r) : <<r, k>> \in Instance
  BY PairIsInstance
<1>4. ASSUME NEW k \in 1..Instances(r)
      PROVE  /\ k = e[2] => <<r, k>> = e /\ after[<<r, k>>] = first + Instances(r)
             /\ k # e[2] => /\ after[<<r, k>>] = cycles[<<r, k>>] /\ cycles[<<r, k>>] # first
                            /\ cycles[<<r, k>>] >= first /\ cycles[<<r, k>>] < first + Instances(r)
                            /\ cycles[<<r, k>>] \in Nat
  <2>1. <<r, k>> \in Instance
    BY <1>3
  <2>2. k = e[2] => <<r, k>> = e
    BY <1>2
  <2>3. k # e[2] => <<r, k>> # e
    BY <1>2
  <2>4. cycles[<<r, k>>] >= first /\ cycles[<<r, k>>] < first + Instances(r)
    BY DEF Successive
  <2>5. k # e[2] => cycles[<<r, k>>] # cycles[<<r, e[2]>>]
    BY <1>2 DEF Successive
  <2> QED BY <2>1, <2>2, <2>3, <2>4, <2>5, <1>2
<1>5. \A k \in 1..Instances(r) :
         after[<<r, k>>] >= first + 1 /\ after[<<r, k>>] < (first + 1) + Instances(r)
  BY <1>1, <1>4
<1>6. ASSUME NEW m \in first + 1..(first + 1) + Instances(r) - 1
      PROVE  \E k \in 1..Instances(r) : after[<<r, k>>] = m
  <2>1. CASE m = first + Instances(r)
    BY <2>1, <1>2, <1>4
  <2>2. CASE m # first + Instances(r)
    <3>1. m \in first..first + Instances(r) - 1 /\ m # first
      BY <2>2, <1>1
    <3>2. PICK k \in 1..Instances(r) : cycles[<<r, k>>] = m
      BY <3>1 DEF Successive
    <3>3. k # e[2]
      BY <3>1, <3>2, <1>2
    <3> QED BY <3>2, <3>3, <1>4
  <2> QED BY <2>1, <2>2
<1>7. ASSUME NEW j \in 1..Instances(r), NEW k \in 1..Instances(r), after[<<r, j>>] = after[<<r, k>>]
      PROVE  j = k
  <2>1. CASE j = e[2] /\ k = e[2]
    BY <2>1
  <2>2. CASE j # e[2] /\ k # e[2]
    <3>1. cycles[<<r, j>>] = cycles[<<r, k>>]
      BY <2>2, <1>4, <1>7
    <3> QED BY <3>1 DEF Successive
  <2>3. CASE j = e[2] /\ k # e[2]
    BY <2>3, <1>1, <1>4, <1>7
  <2>4. CASE j # e[2] /\ k = e[2]
    BY <2>4, <1>1, <1>4, <1>7
  <2> QED BY <2>1, <2>2, <2>3, <2>4
<1>8. Successive(r, first + 1, after)
  BY <1>5, <1>6, <1>7 DEF Successive
<1>9. ASSUME NEW q \in Registry, NEW f \in Nat, q # r, Successive(q, f, cycles)
      PROVE  Successive(q, f, after)
  <2>1. \A k \in 1..Instances(q) : after[<<q, k>>] = cycles[<<q, k>>]
    <3> TAKE k \in 1..Instances(q)
    <3>1. <<q, k>> \in Instance /\ Parent(<<q, k>>) = q
      BY PairIsInstance
    <3> QED BY <3>1, <1>9
  <2> QED BY <2>1, <1>9 DEF Successive
<1> QED BY <1>8, <1>9

\* The event at the head is the oldest instance of its registry.
LEMMA HeadIsOldest ==
    ASSUME TypeInv, CycleInv, Complete(Line, Instance, Size), Sorted(Line, instBase, Size),
           NEW e \in Instance, e = Line[0]
    PROVE  IsOldest(e) /\ instCycle[e] = nCycle[Parent(e)]
<1> DEFINE r == Parent(e)
<1>1. /\ r \in Registry /\ e[2] \in 1..Instances(r) /\ e = <<r, e[2]>> /\ Instances(r) \in Nat \ {0}
      /\ nCycle[r] \in Nat /\ instCycle[e] \in Nat
  BY InstanceIsPair, InstancesSpan DEF TypeInv, TypeOK, RingTypeOK
<1>2. Successive(r, nCycle[r], instCycle)
  BY <1>1 DEF CycleInv
<1>3. instCycle[e] >= nCycle[r]
  BY <1>1, <1>2 DEF Successive
<1>4. nCycle[r] \in nCycle[r]..nCycle[r] + Instances(r) - 1
  BY <1>1
<1>5. PICK k \in 1..Instances(r) : instCycle[<<r, k>>] = nCycle[r]
  BY <1>2, <1>4 DEF Successive
<1>6. <<r, k>> \in Instance /\ Parent(<<r, k>>) = r
  BY <1>1, PairIsInstance
<1>7. PICK n \in 0..Size - 1 : Line[n] = <<r, k>>
  BY <1>6 DEF Complete
<1>8. instBase[e] <= instBase[<<r, k>>]
  <2>1. 0 \in 0..Size - 1 /\ 0 <= n
    BY WaitingFits
  <2> QED BY <2>1, <1>7 DEF Sorted
<1>9. instBase[e] = Due(r, instCycle[e]) /\ instBase[<<r, k>>] = Due(r, nCycle[r])
  BY <1>5, <1>6 DEF CycleInv
<1>10. instCycle[e] <= nCycle[r]
  BY <1>1, <1>8, <1>9, DueTellsCycle
<1>11. instCycle[e] = nCycle[r]
  BY <1>1, <1>3, <1>10
<1>12. nBaseCycle[r] = Due(r, nCycle[r])
  BY <1>1 DEF CycleInv
<1> QED BY <1>9, <1>11, <1>12 DEF IsOldest

\* The event leaves the head, and gets a time past the window.
LEMMA PopFrontKeeps ==
    ASSUME TypeInv, IInv, PopFront, UNCHANGED <<scenario, target, workerVars, cbVars>>
    PROVE  IInv'
<1> DEFINE w == Off(limit, head)
           now == currentBaseCycle
<1>1. PICK e \in Instance : e = element[head]
  BY DEF TypeInv, TypeOK, RingTypeOK
<1>2. PICK r \in Registry : r = Parent(e)
  BY InstanceIsPair
<1>3. /\ serverPc = "pop" /\ head' = Succ(head) /\ event' = e
      /\ instBase[e] = now
      /\ UNCHANGED <<nStep, element, limit, tail, currentBaseCycle, ins, prev>>
  BY <1>1 DEF PopFront, TimeAt
<1>4. /\ UNCHANGED <<workerPc, threadActive, threadForceExit, localDoneTime, index, snapshotHead>>
      /\ UNCHANGED <<localReadyTime, clocked, todo, mayChange, calls, scenario>>
  BY DEF workerVars, threadVars, workVars, cbVars
<1>5. /\ Waiting = Size /\ Members = Instance
      /\ 0 \in 0..Size - 1 /\ Line[0] = e
  BY <1>1, <1>3, HeadIsFirst DEF Members
<1>6. /\ Complete(Line, Instance, Size) /\ Sorted(Line, instBase, Size)
      /\ tail = Pos(head, Size) /\ w <= Size
      /\ \A d \in Instance : instBase[d] >= now
  BY <1>3, <1>5 DEF IInv, LineInv
<1>7. PICK edge \in {-1, now + lookahead} : Edge(Line, instBase, Size, w, edge)
  BY <1>3, <1>5 DEF IInv, LineInv
<1>8. /\ Size \in Nat \ {0} /\ Size < RingSize /\ RingSize \in Nat /\ lookahead \in Nat
      /\ now \in Nat /\ w \in Nat /\ edge \in Int
      /\ instBase \in [Instance -> Nat] /\ instCycle \in [Instance -> Nat]
      /\ nCycle \in [Registry -> Nat] /\ nBaseCycle \in [Registry -> Nat]
  <2>1. Size \in Nat \ {0} /\ Size < RingSize /\ RingSize \in Nat /\ lookahead \in Nat
    BY WaitingFits, RingConstants
  <2>2. now \in Nat
    BY DEF TypeInv, TypeOK, RingTypeOK
  <2>3. w \in Nat
    BY <2>1, Distances
  <2>4. edge \in Int
    BY <2>1, <2>2
  <2>5. /\ instBase \in [Instance -> Nat] /\ instCycle \in [Instance -> Nat]
        /\ nCycle \in [Registry -> Nat] /\ nBaseCycle \in [Registry -> Nat]
    BY DEF TypeInv, TypeOK, RingTypeOK
  <2> QED BY <2>1, <2>2, <2>3, <2>4, <2>5
<1>9. IsOldest(e) /\ instCycle[e] = nCycle[r]
  BY <1>2, <1>5, <1>6, HeadIsOldest DEF IInv
<1>10. /\ serverPc' = "find"
       /\ nCycle' = [nCycle EXCEPT ![r] = @ + 1]
       /\ nBaseCycle' = [nBaseCycle EXCEPT ![r] = @ + nStep[r]]
       /\ instCycle' = [instCycle EXCEPT ![e] = @ + Instances(r)]
       /\ instBase' = [instBase EXCEPT ![e] = @ + Instances(r) * nStep[r]]
  BY <1>1, <1>2, <1>9 DEF PopFront, Stride
<1>11. TypeInv'
  <2>1. RingTypeOK'
    BY ReInsertTypes DEF ReInsert, TypeInv, TypeOK
  <2> QED BY <2>1, <1>10 DEF TypeInv, TypeOK, workerVars, threadVars, workVars, cbVars
<1>12. /\ instBase' \in [Instance -> Nat] /\ instCycle' \in [Instance -> Nat]
  BY <1>11 DEF TypeInv, TypeOK, RingTypeOK
<1>13. \A d \in Instance : d # e => instBase'[d] = instBase[d] /\ instCycle'[d] = instCycle[d]
  BY <1>8, <1>10
<1>14. /\ instCycle'[e] = nCycle[r] + Instances(r) /\ nStep = InitStep
       /\ instBase'[e] = Due(r, nCycle[r] + Instances(r))
       /\ instBase'[e] > now + lookahead
  <2>1. nStep = InitStep /\ instBase[e] = Due(r, nCycle[r])
    BY <1>2, <1>9 DEF IInv, CycleInv
  <2>2. instBase'[e] = instBase[e] + Instances(r) * InitStep[r]
    BY <1>8, <1>10, <2>1
  <2>3. /\ Due(r, nCycle[r] + Instances(r)) = Due(r, nCycle[r]) + Instances(r) * InitStep[r]
        /\ Due(r, nCycle[r] + Instances(r)) > Due(r, nCycle[r]) + lookahead + InitStep[r]
        /\ InitStep[r] \in Nat
    BY <1>8, DueInOrder, InstancesSpan
  <2>4. instBase'[e] \in Nat
    BY <1>12
  <2>5. instBase'[e] = Due(r, nCycle[r] + Instances(r))
    BY <2>1, <2>2, <2>3
  <2>6. instBase'[e] > now + lookahead + InitStep[r]
    BY <2>1, <2>3, <2>5, <1>3
  <2>7. instBase'[e] > now + lookahead
    BY <2>3, <2>4, <2>6, <1>8
  <2>8. instCycle'[e] = nCycle[r] + Instances(r)
    BY <1>8, <1>9, <1>10
  <2> QED BY <2>1, <2>5, <2>7, <2>8
<1>15. CycleInv'
  <2>1. \A q \in Registry : nBaseCycle'[q] = Due(q, nCycle'[q])
    <3> TAKE q \in Registry
    <3>1. nBaseCycle[q] = Due(q, nCycle[q]) /\ nCycle[q] \in Nat
      BY <1>8 DEF IInv, CycleInv
    <3>2. CASE q = r
      <4>1. Due(r, nCycle[r] + 1) = Due(r, nCycle[r]) + InitStep[r]
        BY <1>8, DueInOrder
      <4> QED BY <3>1, <3>2, <4>1, <1>8, <1>10, <1>14
    <3>3. CASE q # r
      BY <3>1, <3>3, <1>8, <1>10
    <3> QED BY <3>2, <3>3
  <2>2. \A d \in Instance : instBase'[d] = Due(Parent(d), instCycle'[d])
    <3> TAKE d \in Instance
    <3>1. CASE d = e
      BY <3>1, <1>2, <1>14
    <3>2. CASE d # e
      BY <3>2, <1>13 DEF IInv, CycleInv
    <3> QED BY <3>1, <3>2
  <2>3. \A q \in Registry : Successive(q, nCycle[q], instCycle) /\ nCycle[q] \in Nat
    BY <1>8 DEF IInv, CycleInv
  <2>4. /\ Successive(r, nCycle[r] + 1, instCycle')
        /\ \A q \in Registry, f \in Nat : q # r /\ Successive(q, f, instCycle) => Successive(q, f, instCycle')
    BY <2>3, <1>2, <1>8, <1>9, <1>12, <1>13, <1>14, OldestMovesOn
  <2>5. \A q \in Registry : Successive(q, nCycle'[q], instCycle')
    <3> TAKE q \in Registry
    <3>1. CASE q = r
      BY <3>1, <2>4, <1>8, <1>10
    <3>2. CASE q # r
      BY <3>2, <2>3, <2>4, <1>8, <1>10
    <3> QED BY <3>1, <3>2
  <2> QED BY <2>1, <2>2, <2>5, <1>3, <1>14 DEF CycleInv
<1>16. /\ Waiting' = Size - 1 /\ Members' = Instance \ {Line[0]} /\ Line' = Rest(Line, Size)
  <2>1. Waiting' = Size - 1 /\ Members' = Instance \ {e}
    BY <1>3, <1>10 DEF Waiting, Members
  <2>2. Line' = Stretch(element, Succ(head), Size - 1)
    BY <2>1, <1>3, <1>10 DEF Line
  <2>3. ASSUME NEW n \in 0..Size - 2 PROVE element[Pos(Succ(head), n)] = Line[n + 1]
    <3>1. n + 1 \in 0..Size - 1 /\ n \in 0..RingSize - 2
      BY <1>8
    <3>2. Line[n + 1] = element[Pos(head, n + 1)]
      BY <3>1, <1>3, <1>5, LineIsRing
    <3>3. Pos(Succ(head), n) = Pos(head, n + 1)
      BY <3>1, Distances, StepOn
    <3> QED BY <3>2, <3>3
  <2>4. (Size - 1) - 1 = Size - 2
    BY <1>8
  <2>5. Line' = Rest(Line, Size)
    BY <2>2, <2>3, <2>4 DEF Stretch, Rest
  <2> QED BY <2>1, <2>5, <1>5
<1> DEFINE rest == Rest(Line, Size)
<1>17. Complete(rest, Instance \ {Line[0]}, Size - 1) /\ Sorted(rest, instBase', Size - 1)
  <2>1. \A d \in Instance : d # Line[0] => instBase'[d] = instBase[d]
    BY <1>5, <1>13
  <2> QED BY <2>1, <1>6, <1>8, <1>12, LinePopped
<1> HIDE DEF w
<1>18. ASSUME NEW t \in Thread
       PROVE  /\ Walking(t) /\ localDoneTime[t] >= now
              /\ Reader(Line, instBase, Size, Off(index[t], head), localDoneTime[t],
                        clocked[t], localReadyTime[t])
              /\ Off(index[t], head) <= w
              /\ Off(index[t], head) > 0
              /\ Reader(rest, instBase', Size - 1, Off(index[t], head) - 1, localDoneTime[t],
                        clocked[t], localReadyTime[t])
              /\ Past(Line, instBase, Size, Off(index[t], head), localReadyTime[t]) =>
                   Past(rest, instBase', Size - 1, Off(index[t], head) - 1, localReadyTime[t])
  <2>1. localDoneTime[t] >= now /\ localDoneTime[t] \in Int /\ localReadyTime[t] \in Int
    BY <1>3 DEF IInv, LifeInv, TypeInv, TypeOK
  <2>2. ~threadForceExit[t] /\ workerPc[t] # "exited"
    BY <1>3 DEF IInv, LifeInv
  <2>3. workerPc[t] \notin {"none", "boot", "init"}
    BY <2>1, <1>8 DEF IInv, LifeInv
  <2>4. workerPc[t] \in {"none", "boot", "init", "head", "limit", "read", "run", "exited"}
    BY DEF TypeInv, TypeOK
  <2>5. Walking(t)
    BY <2>2, <2>3, <2>4 DEF Walking
  <2> DEFINE d == Off(index[t], head)
  <2>6. d \in Nat /\ clocked[t] \in SUBSET Instance
    BY Distances, <1>8 DEF TypeInv, TypeOK
  <2> HIDE DEF d
  <2>7. Reader(Line, instBase, Size, d, localDoneTime[t], clocked[t], localReadyTime[t]) /\ d <= w
    BY <2>5, <1>5 DEF IInv, ReaderInv, ReaderAt, d, w
  <2>8. \A b \in Instance : b # Line[0] => instBase'[b] = instBase[b]
    BY <1>5, <1>13
  <2>9. instBase[Line[0]] <= localDoneTime[t]
    BY <2>1, <1>3, <1>5, <1>8
  <2> HIDE DEF rest, now
  <2>10. /\ d > 0
         /\ Reader(Rest(Line, Size), instBase', Size - 1, d - 1, localDoneTime[t],
                        clocked[t], localReadyTime[t])
         /\ Past(Line, instBase, Size, d, localReadyTime[t]) =>
                   Past(Rest(Line, Size), instBase', Size - 1, d - 1, localReadyTime[t])
    BY <2>1, <2>6, <2>7, <2>8, <2>9, <1>6, <1>8, <1>12, ReaderPopped
  <2> QED BY <2>1, <2>5, <2>7, <2>10 DEF d, rest
<1>19. w > 0
  <2>1. PICK t \in Thread : TRUE
    BY LockFreeConstants
  <2>2. Off(index[t], head) > 0 /\ Off(index[t], head) <= w /\ Off(index[t], head) \in Nat
    BY <1>8, <1>18, Distances
  <2> QED BY <2>2, <1>8
<1>20. Edge(rest, instBase', Size - 1, w - 1, edge)
  <2>1. \A b \in Instance : b # Line[0] => instBase'[b] = instBase[b]
    BY <1>5, <1>13
  <2>2. instBase[Line[0]] <= edge
    BY <1>5, <1>7, <1>8, <1>19 DEF Edge
  <2> HIDE DEF rest
  <2>3. Edge(Rest(Line, Size), instBase', Size - 1, w - 1, edge)
    BY <2>1, <2>2, <1>6, <1>7, <1>8, <1>12, EdgePopped
  <2> QED BY <2>3 DEF rest
<1> HIDE DEF rest
<1>21. Off(limit, head') = w - 1
  <2>1. limit # head
    BY <1>19, Distances, Round, WaitingFits DEF w
  <2>2. 0 \in 0..RingSize - 2
    BY <1>8
  <2> QED BY <2>1, <2>2, <1>3, Distances, StepOn DEF w
<1>22. LineInv'
  <2>1. tail = Pos(Succ(head), Size - 1)
    <3>1. Size - 1 \in 0..RingSize - 2 /\ (Size - 1) + 1 = Size
      BY <1>8
    <3> QED BY <3>1, <1>6, Distances, StepOn
  <2>2. \A d \in Instance : instBase'[d] >= now
    <3> TAKE d \in Instance
    <3>1. CASE d = e
      BY <3>1, <1>8, <1>12, <1>14
    <3>2. CASE d # e
      BY <3>2, <1>6, <1>13
    <3> QED BY <3>1, <3>2
  <2>3. Off(limit', head') <= Waiting'
    BY <1>3, <1>6, <1>8, <1>16, <1>21
  <2>4. Complete(Line', Members', Waiting') /\ Sorted(Line', instBase', Waiting')
    BY <1>16, <1>17 DEF rest
  <2>5. Edge(Line', instBase', Waiting', Off(limit', head'), edge)
    BY <1>3, <1>16, <1>20, <1>21 DEF rest
  <2>6. Complete(Line, Members, Waiting)' /\ Sorted(Line, instBase, Waiting)'
    BY <2>4 DEF Complete, Sorted
  <2>7. tail' = Pos(head', Size - 1)
    BY <2>1, <1>3
  <2> QED BY <2>2, <2>3, <2>5, <2>6, <2>7, <1>3, <1>7, <1>10, <1>14 DEF LineInv
<1>23. ReaderInv'
  <2> SUFFICES ASSUME NEW t \in Thread
      PROVE  /\ Reader(rest, instBase', Size - 1, Off(index[t], head'), localDoneTime[t],
                        clocked[t], localReadyTime[t])
             /\ Off(index[t], head') <= w - 1
             /\ localDoneTime[t] <= now + lookahead
             /\ clocked[t] # {} => localReadyTime[t] <= now + lookahead
             /\ workerPc[t] = "limit" =>
                /\ Off(head', snapshotHead[t]) <= Off(index[t], snapshotHead[t])
                /\ Off(index[t], snapshotHead[t]) <= Size
             /\ workerPc[t] = "read" => Off(index[t], head') < w - 1
             /\ workerPc[t] = "run" =>
                /\ clocked[t] # {}
                /\ Past(rest, instBase', Size - 1, Off(index[t], head'), localReadyTime[t])
    BY <1>3, <1>4, <1>16, <1>21 DEF ReaderInv, ReaderAt, Walking, rest
  <2> DEFINE d == Off(index[t], head)
             s == snapshotHead[t]
  <2>1. d \in Nat /\ d > 0
    BY <1>8, <1>18, Distances
  <2>2. index[t] # head
    <3>1. 0 \in 0..RingSize - 1 /\ index[t] \in Index /\ head \in Index
      BY <1>8, Distances
    <3>2. d = 0 <=> index[t] = head
      BY <3>1, Round
    <3> QED BY <2>1, <3>2
  <2>3. Off(index[t], head') = d - 1
    <3>1. 0 \in 0..RingSize - 2
      BY <1>8
    <3> QED BY <3>1, <2>2, <1>3, Distances, StepOn
  <2>4. workerPc[t] = "limit" =>
                /\ Off(head', s) <= Off(index[t], s)
                /\ Off(index[t], s) <= Size
    <3> SUFFICES ASSUME workerPc[t] = "limit"
                 PROVE  Off(head', s) <= Off(index[t], s) /\ Off(index[t], s) <= Size
      OBVIOUS
    <3>1. Off(head, s) <= Off(index[t], s) /\ Off(index[t], s) <= Size
      BY DEF IInv, ReaderInv, ReaderAt
    <3>2. Off(head, s) \in 0..RingSize - 1 /\ Off(index[t], s) \in 0..RingSize - 1
      BY Distances
    <3>3. Off(head, s) # Off(index[t], s)
      <4>1. head \in Index /\ s \in Index /\ index[t] \in Index
        BY Distances
      <4>2. Pos(s, Off(head, s)) = head /\ Pos(s, Off(index[t], s)) = index[t]
        BY <4>1, <3>2, Round
      <4> HIDE DEF s
      <4> QED BY <2>2, <4>2
    <3>4. Off(head', s) = Off(head, s) + 1
      <4>1. 0 \in 0..RingSize - 2 /\ head \in Index /\ s \in Index
        BY <1>8, Distances
      <4>2. Off(Succ(head), s) = IF Off(head, s) = RingSize - 1 THEN 0 ELSE Off(head, s) + 1
        BY <4>1, StepOn
      <4>3. Off(head, s) # RingSize - 1
        <5> HIDE DEF s
        <5> QED BY <3>1, <3>2, <3>3, <1>8
      <4> QED BY <4>2, <4>3, <1>3
    <3> HIDE DEF s
    <3> QED BY <3>1, <3>2, <3>3, <3>4
  <2>5. workerPc[t] = "read" => d < w
    BY DEF IInv, ReaderInv, ReaderAt, w
  <2>6. workerPc[t] = "run" =>
                clocked[t] # {} /\ Past(Line, instBase, Size, d, localReadyTime[t])
    BY <1>5 DEF IInv, ReaderInv, ReaderAt
  <2>7. /\ localDoneTime[t] <= now + lookahead
        /\ clocked[t] # {} => localReadyTime[t] <= now + lookahead
    BY <1>18 DEF IInv, ReaderInv, ReaderAt
  <2>8. /\ Reader(rest, instBase', Size - 1, d - 1, localDoneTime[t], clocked[t], localReadyTime[t])
        /\ d <= w
        /\ workerPc[t] = "run" => Past(rest, instBase', Size - 1, d - 1, localReadyTime[t])
    BY <2>6, <1>18
  <2> HIDE DEF d, s
  <2>9. d - 1 <= w - 1 /\ (workerPc[t] = "read" => d - 1 < w - 1)
    BY <2>1, <2>5, <2>8, <1>8
  <2> QED BY <2>3, <2>4, <2>6, <2>7, <2>8, <2>9 DEF s
<1>24. LifeInv'
  BY <1>3, <1>4, <1>10 DEF IInv, LifeInv
<1>25. CallInv'
  <2>1. \A c \in Callback : Mark(c)' = Mark(c)
    BY <1>4 DEF Mark
  <2>2. ASSUME NEW c \in Callback PROVE nCycle'[cbReg[c]] <= calls[c]
    <3>1. cbReg[c] \in Registry /\ cbThread[c] \in Thread
      BY LockFreeConstants
    <3>2. nCycle[cbReg[c]] <= calls[c] /\ calls[c] \in Nat /\ nCycle[cbReg[c]] \in Nat
      BY <3>1, <1>8 DEF IInv, CallInv, TypeInv, TypeOK
    <3>3. CASE cbReg[c] # r
      BY <3>1, <3>2, <3>3, <1>8, <1>10
    <3>4. CASE cbReg[c] = r
      <4> DEFINE t == cbThread[c]
      <4>1. Walking(t) /\ localDoneTime[t] >= now
        BY <3>1, <1>18
      <4>2. Due(r, calls[c]) > Mark(c)
        BY <3>4, <4>1 DEF IInv, CallInv, Walking
      <4>3. Mark(c) >= now
        <5>1. CASE workerPc[t] = "run" /\ c \notin todo[t]
          <6>1. clocked[t] # {}
            BY <5>1, <3>1 DEF IInv, ReaderInv, ReaderAt
          <6>2. localReadyTime[t] > localDoneTime[t]
            <7>1. Reader(Line, instBase, Size, Off(index[t], head), localDoneTime[t],
                        clocked[t], localReadyTime[t])
              BY <3>1, <1>18
            <7> QED BY <6>1, <7>1 DEF Reader
          <6>3. localReadyTime[t] \in Int /\ localDoneTime[t] \in Int
            BY <3>1 DEF TypeInv, TypeOK
          <6>4. Mark(c) = localReadyTime[t]
            BY <5>1 DEF Mark
          <6> QED BY <6>2, <6>3, <6>4, <4>1, <1>8
        <5>2. CASE ~(workerPc[t] = "run" /\ c \notin todo[t])
          <6>1. Mark(c) = localDoneTime[t]
            BY <5>2 DEF Mark
          <6> QED BY <6>1, <4>1
        <5> QED BY <5>1, <5>2
      <4>4. Mark(c) \in Int
        BY <3>1 DEF Mark, TypeInv, TypeOK
      <4>5. Due(r, nCycle[r]) = now
        BY <1>2, <1>3, <1>9 DEF IInv, CycleInv
      <4>6. Due(r, calls[c]) \in Nat /\ Due(r, nCycle[r]) \in Nat
            /\ (Due(r, calls[c]) <= Due(r, nCycle[r]) <=> calls[c] <= nCycle[r])
        BY <3>2, <3>4, DueTellsCycle
      <4>7. ~(calls[c] <= nCycle[r])
        <5> HIDE DEF t, now
        <5>1. Due(r, calls[c]) > now /\ now \in Int
          BY <4>2, <4>3, <4>4, <4>6, <1>8
        <5> QED BY <4>5, <4>6, <5>1
      <4>8. nCycle'[r] = nCycle[r] + 1
        BY <1>8, <1>10
      <4> QED BY <3>2, <3>4, <4>7, <4>8
    <3> QED BY <3>3, <3>4
  <2> QED BY <2>1, <2>2, <1>4 DEF IInv, CallInv
<1> QED BY <1>15, <1>22, <1>23, <1>24, <1>25 DEF IInv

\* The event is put in behind the window, where no thread is.
LEMMA InsertBeginKeeps ==
    ASSUME TypeInv, IInv, InsertBegin, UNCHANGED <<scenario, target, workerVars, cbVars>>
    PROVE  IInv'
<1> DEFINE w == Off(limit, head)
           now == currentBaseCycle
           size == Size - 1
<1>1. /\ serverPc = "find"
      /\ UNCHANGED <<nBaseCycle, nCycle, nStep, instBase, instCycle, head, limit, tail>>
      /\ UNCHANGED <<currentBaseCycle, event>>
  BY DEF InsertBegin, registryVars, instVars
<1>2. /\ UNCHANGED <<workerPc, threadActive, threadForceExit, localDoneTime, index, snapshotHead>>
      /\ UNCHANGED <<localReadyTime, clocked, todo, mayChange, calls, scenario>>
  BY DEF workerVars, threadVars, workVars, cbVars
<1>3. Waiting = size /\ Members = Instance \ {event} /\ event \in Instance
  BY <1>1, WaitingFits DEF Members, TypeInv, TypeOK, RingTypeOK
<1>4. /\ Complete(Line, Instance \ {event}, size) /\ Sorted(Line, instBase, size)
      /\ tail = Pos(head, size) /\ w <= size
      /\ instBase[event] > now + lookahead
      /\ \A d \in Instance : instBase[d] >= now
  BY <1>1, <1>3 DEF IInv, LineInv
<1>5. PICK edge \in {-1, now + lookahead} : Edge(Line, instBase, size, w, edge)
  BY <1>1, <1>3 DEF IInv, LineInv
<1>6. /\ Size \in Nat \ {0} /\ Size < RingSize /\ RingSize \in Nat /\ lookahead \in Nat
      /\ now \in Nat /\ edge \in Int /\ size \in Nat /\ size + 1 = Size
      /\ instBase \in [Instance -> Nat] /\ instBase[event] \in Nat
  <2>1. Size \in Nat \ {0} /\ Size < RingSize /\ RingSize \in Nat /\ lookahead \in Nat
    BY WaitingFits, RingConstants
  <2>2. now \in Nat /\ instBase \in [Instance -> Nat]
    BY DEF TypeInv, TypeOK, RingTypeOK
  <2> QED BY <2>1, <2>2, <1>3
<1>7. w \in 0..size
  <2>1. w \in Nat
    BY <1>6, Distances
  <2> QED BY <2>1, <1>4, <1>6
<1> HIDE DEF now, size
<1>8. PICK p \in 0..Off(tail, head) :
          /\ FirstAfter(instBase[event]) = Pos(head, p) /\ Pos(head, p) \in Index
          /\ p < Off(tail, head) => instBase[element[Pos(head, p)]] > instBase[event]
          /\ \A m \in 0..p - 1 : instBase[element[Pos(head, m)]] <= instBase[event]
  <2>1. instBase[event] \in Int
    BY <1>6
  <2> QED BY <2>1, SearchEnds DEF TypeInv, TypeOK
<1>9. Off(tail, head) = size
  <2>1. size \in 0..RingSize - 1
    BY <1>6
  <2> QED BY <2>1, <1>4, Distances, Round
<1>10. p \in 0..size /\ p \in 0..RingSize - 1
  BY <1>6, <1>8, <1>9
<1>11. \A n \in 0..size - 1 : element[Pos(head, n)] = Line[n]
  BY <1>1, <1>3, LineIsRing
<1>12. /\ \A m \in 0..p - 1 : instBase[Line[m]] <= instBase[event]
       /\ p < size => instBase[Line[p]] > instBase[event]
  <2>1. \A m \in 0..p - 1 : m \in 0..size - 1
    BY <1>6, <1>10
  <2>2. p < size => p \in 0..size - 1
    BY <1>6, <1>10
  <2> QED BY <2>1, <2>2, <1>8, <1>9, <1>11
<1> DEFINE i == Pos(head, p)
           new == Put(Line, size, p, event)
<1>13. instBase[event] > edge
  <2>1. edge = -1 \/ edge = now + lookahead
    OBVIOUS
  <2> QED BY <2>1, <1>4, <1>6
<1>14. w <= p /\ Edge(new, instBase, Size, w, edge)
  <2> HIDE DEF w
  <2>1. w <= p /\ Edge(Put(Line, size, p, event), instBase, size + 1, w, edge)
    BY <1>3, <1>4, <1>5, <1>6, <1>7, <1>10, <1>12, <1>13, EdgePut
  <2> QED BY <2>1, <1>6
<1>15. Complete(new, Instance, Size) /\ Sorted(new, instBase, Size)
  <2>1. Complete(Put(Line, size, p, event), Instance, size + 1) /\ Sorted(Put(Line, size, p, event), instBase, size + 1)
    BY <1>3, <1>4, <1>6, <1>10, <1>12, LinePut
  <2> QED BY <2>1, <1>6
<1>16. i \in Index /\ Off(i, head) = p
  BY <1>8, <1>10, Distances, Round
<1>17. ~Between(i, head, limit)
  <2>1. Between(i, head, limit) <=> Off(i, head) < w
    BY <1>16, Distances, BetweenIsCloser
  <2> HIDE DEF w, i
  <2> QED BY <2>1, <1>7, <1>10, <1>14, <1>16
<1>18. /\ ins' = i /\ prev' = element[i] /\ serverPc' = "shift"
       /\ element' = [element EXCEPT ![i] = event]
  BY <1>8, <1>17 DEF InsertBegin
<1> HIDE DEF i
<1>19. /\ Waiting' = Size /\ Members' = Instance /\ Line' = new
  <2>1. Waiting' = Size /\ Members' = Instance
    BY <1>18 DEF Waiting, Members
  <2>2. Line' = Opened(element', head, p, element[i])
    BY <1>1, <1>16, <1>18 DEF Line
  <2>3. element \in [Index -> Instance]
    BY DEF TypeInv, TypeOK, RingTypeOK
  <2>4. ASSUME NEW n \in 0..Size - 1
        PROVE  (IF n <= p THEN element'[Pos(head, n)] ELSE IF n = p + 1 THEN element[i]
                ELSE element'[Pos(head, n - 1)]) = new[n]
    <3>1. n \in 0..size /\ n \in 0..RingSize - 1
      BY <1>6
    <3>2. \A m \in 0..RingSize - 1 : /\ Pos(head, m) \in Index
                                     /\ m # p => element'[Pos(head, m)] = element[Pos(head, m)]
      <4> TAKE m \in 0..RingSize - 1
      <4>1. Pos(head, m) \in Index /\ Off(Pos(head, m), head) = m
        BY Distances, Round
      <4>2. m # p => Pos(head, m) # i
        BY <4>1, <1>16
      <4> QED BY <4>1, <4>2, <2>3, <1>18
    <3>3. CASE n < p
      <4>1. n \in 0..size - 1 /\ n <= p /\ n # p
        BY <3>1, <3>3, <1>6, <1>10
      <4>2. new[n] = Line[n]
        BY <3>1, <3>3 DEF Put
      <4> HIDE DEF new
      <4> QED BY <4>1, <4>2, <3>1, <3>2, <1>11
    <3>4. CASE n = p
      <4>1. element'[i] = event
        BY <2>3, <1>16, <1>18
      <4>2. new[n] = event
        BY <3>1, <3>4 DEF Put
      <4> HIDE DEF new
      <4> QED BY <4>1, <4>2, <3>4 DEF i
    <3>5. CASE n = p + 1
      <4>1. p \in 0..size - 1 /\ n - 1 = p /\ ~(n <= p) /\ ~(n < p) /\ n # p
        BY <3>1, <3>5, <1>6, <1>10
      <4>2. new[n] = Line[n - 1]
        BY <3>1, <4>1 DEF Put
      <4>3. element[i] = Line[p]
        BY <4>1, <1>11 DEF i
      <4> HIDE DEF new
      <4> QED BY <4>1, <4>2, <4>3, <3>5
    <3>6. CASE n > p + 1
      <4>1. n - 1 \in 0..size - 1 /\ n - 1 \in 0..RingSize - 1 /\ n - 1 # p
            /\ ~(n <= p) /\ ~(n < p) /\ n # p /\ n # p + 1
        BY <3>1, <3>6, <1>6, <1>10
      <4>2. new[n] = Line[n - 1]
        BY <3>1, <4>1 DEF Put
      <4>3. element'[Pos(head, n - 1)] = element[Pos(head, n - 1)]
        BY <4>1, <3>2
      <4>4. element[Pos(head, n - 1)] = Line[n - 1]
        BY <4>1, <1>11
      <4> HIDE DEF new
      <4> QED BY <4>1, <4>2, <4>3, <4>4
    <3> QED BY <3>1, <3>3, <3>4, <3>5, <3>6, <1>6, <1>10
  <2>5. new = [n \in 0..Size - 1 |-> new[n]]
    BY <1>6 DEF Put
  <2> HIDE DEF new
  <2>6. Line' = new
    BY <2>2, <2>4, <2>5 DEF Opened
  <2> QED BY <2>1, <2>6
<1> HIDE DEF new, w
<1>20. CycleInv'
  BY <1>1 DEF IInv, CycleInv
<1>21. LineInv'
  <2>1. Complete(Line, Members, Waiting)' /\ Sorted(Line, instBase, Waiting)'
    BY <1>1, <1>15, <1>19 DEF Complete, Sorted
  <2>2. Edge(Line', instBase', Waiting', Off(limit', head'), edge)
    BY <1>1, <1>14, <1>19 DEF w
  <2>3. Off(limit', head') <= Waiting'
    BY <1>1, <1>6, <1>7, <1>19 DEF w
  <2>4. Off(limit', head') <= Off(ins', head') /\ Off(ins', head') <= Size - 1
    BY <1>1, <1>6, <1>10, <1>14, <1>16, <1>18 DEF w, size
  <2>5. tail' = Pos(head', Size - 1)
    BY <1>1, <1>4 DEF size
  <2> QED BY <2>1, <2>2, <2>3, <2>4, <2>5, <1>1, <1>4, <1>5, <1>18 DEF LineInv, now
<1>22. ReaderInv'
  <2> SUFFICES ASSUME NEW t \in Thread
      PROVE  /\ Walking(t) =>
                /\ Reader(new, instBase, Size, Off(index[t], head), localDoneTime[t],
                        clocked[t], localReadyTime[t])
                /\ Off(index[t], head) <= w
                /\ localDoneTime[t] <= now + lookahead
                /\ clocked[t] # {} => localReadyTime[t] <= now + lookahead
             /\ workerPc[t] = "limit" =>
                /\ Off(head, snapshotHead[t]) <= Off(index[t], snapshotHead[t])
                /\ Off(index[t], snapshotHead[t]) <= Size
             /\ workerPc[t] = "read" => Off(index[t], head) < w
             /\ workerPc[t] = "run" =>
                /\ clocked[t] # {}
                /\ Past(new, instBase, Size, Off(index[t], head), localReadyTime[t])
    BY <1>1, <1>2, <1>19 DEF ReaderInv, ReaderAt, Walking, w, now
  <2> DEFINE d == Off(index[t], head)
  <2>1. /\ d \in Nat /\ clocked[t] \in SUBSET Instance
        /\ localDoneTime[t] \in Int /\ localReadyTime[t] \in Int
    BY Distances, <1>6 DEF TypeInv, TypeOK
  <2> HIDE DEF d
  <2>2. /\ Walking(t) =>
                /\ Reader(Line, instBase, size, d, localDoneTime[t], clocked[t], localReadyTime[t])
                /\ d <= w
                /\ localDoneTime[t] <= now + lookahead
                /\ clocked[t] # {} => localReadyTime[t] <= now + lookahead
        /\ workerPc[t] = "limit" =>
                /\ Off(head, snapshotHead[t]) <= Off(index[t], snapshotHead[t])
                /\ Off(index[t], snapshotHead[t]) <= Size
        /\ workerPc[t] = "read" => d < w
        /\ workerPc[t] = "run" =>
                /\ clocked[t] # {}
                /\ Past(Line, instBase, size, d, localReadyTime[t])
    BY <1>3 DEF IInv, ReaderInv, ReaderAt, d, w, now
  <2>3. ASSUME Walking(t)
        PROVE  /\ Reader(new, instBase, Size, d, localDoneTime[t], clocked[t], localReadyTime[t])
               /\ clocked[t] # {} /\ Past(Line, instBase, size, d, localReadyTime[t]) =>
                     Past(new, instBase, Size, d, localReadyTime[t])
    <3>1. d \in 0..p
      BY <2>1, <2>2, <2>3, <1>7, <1>6, <1>10, <1>14
    <3>2. instBase[event] > localDoneTime[t]
      BY <2>1, <2>2, <2>3, <1>4, <1>6
    <3>3. clocked[t] # {} => instBase[event] > localReadyTime[t]
      BY <2>1, <2>2, <2>3, <1>4, <1>6
    <3>4. Reader(Line, instBase, size, d, localDoneTime[t], clocked[t], localReadyTime[t])
      BY <2>2, <2>3
    <3>5. /\ Reader(Put(Line, size, p, event), instBase, size + 1, d, localDoneTime[t],
                    clocked[t], localReadyTime[t])
          /\ clocked[t] # {} /\ Past(Line, instBase, size, d, localReadyTime[t]) =>
                     Past(Put(Line, size, p, event), instBase, size + 1, d, localReadyTime[t])
      BY <2>1, <3>1, <3>2, <3>3, <3>4, <1>3, <1>4, <1>6, <1>10, <1>12, ReaderPut
    <3> QED BY <3>5, <1>6 DEF new
  <2>4. workerPc[t] = "run" => Walking(t)
    BY DEF Walking
  <2> QED BY <2>2, <2>3, <2>4 DEF d
<1>23. LifeInv'
  BY <1>1, <1>2, <1>18 DEF IInv, LifeInv
<1>24. CallInv'
  BY <1>1, <1>2 DEF IInv, CallInv, Mark
<1> QED BY <1>20, <1>21, <1>22, <1>23, <1>24 DEF IInv

\* Moving an element up leaves the line as it is.
LEMMA InsertShiftKeeps ==
    ASSUME TypeInv, IInv, InsertShift, UNCHANGED <<scenario, target, workerVars, cbVars>>
    PROVE  IInv'
<1> DEFINE w == Off(limit, head)
           d == Off(ins, head)
<1>1. /\ serverPc = "shift" /\ serverPc' = "shift" /\ Between(ins, head, tail)
      /\ ins' = Succ(ins) /\ element' = [element EXCEPT ![Succ(ins)] = prev]
      /\ prev' = element[Succ(ins)]
      /\ UNCHANGED <<nBaseCycle, nCycle, nStep, instBase, instCycle, head, limit, tail>>
      /\ UNCHANGED <<currentBaseCycle, event>>
  BY DEF InsertShift, Displaced, registryVars, instVars
<1>2. /\ UNCHANGED <<workerPc, threadActive, threadForceExit, localDoneTime, index, snapshotHead>>
      /\ UNCHANGED <<localReadyTime, clocked, todo, mayChange, calls, scenario>>
  BY DEF workerVars, threadVars, workVars, cbVars
<1>3. Waiting = Size /\ Members = Instance /\ Waiting' = Size /\ Members' = Instance
  BY <1>1 DEF Waiting, Members
<1>4. /\ tail = Pos(head, Size - 1) /\ w <= d /\ d <= Size - 1
  BY <1>1 DEF IInv, LineInv
<1>5. /\ Size \in Nat \ {0} /\ Size < RingSize /\ RingSize \in Nat
      /\ d \in 0..RingSize - 1 /\ w \in 0..RingSize - 1
      /\ head \in Index /\ ins \in Index /\ tail \in Index /\ element \in [Index -> Instance]
  BY WaitingFits, Distances DEF TypeInv, TypeOK, RingTypeOK
<1>6. d < Size - 1
  <2>1. Off(tail, head) = Size - 1
    <3>1. Size - 1 \in 0..RingSize - 1
      BY <1>5
    <3> QED BY <3>1, <1>4, <1>5, Round
  <2> QED BY <2>1, <1>1, <1>5, BetweenIsCloser
<1>7. Succ(ins) \in Index /\ Off(Succ(ins), head) = d + 1
  <2>1. 0 \in 0..RingSize - 2
    BY <1>5
  <2>2. Off(Succ(ins), head) = IF d = RingSize - 1 THEN 0 ELSE d + 1
    BY <2>1, <1>5, StepOn
  <2>3. Succ(ins) \in Index
    BY <2>1, <1>5, StepOn
  <2> HIDE DEF d
  <2> QED BY <2>2, <2>3, <1>5, <1>6
<1> HIDE DEF d, w
<1>8. \A m \in 0..RingSize - 1 :
         /\ Pos(head, m) \in Index
         /\ m # d + 1 => element'[Pos(head, m)] = element[Pos(head, m)]
         /\ m = d + 1 => Pos(head, m) = Succ(ins) /\ element'[Pos(head, m)] = prev
  <2> TAKE m \in 0..RingSize - 1
  <2>1. Pos(head, m) \in Index /\ Off(Pos(head, m), head) = m
    BY <1>5, Round
  <2>2. Pos(head, Off(Succ(ins), head)) = Succ(ins)
    BY <1>5, <1>7, Round
  <2>3. m # d + 1 => Pos(head, m) # Succ(ins)
    BY <2>1, <1>7
  <2>4. m = d + 1 => Pos(head, m) = Succ(ins)
    BY <2>2, <1>7
  <2> QED BY <2>1, <2>3, <2>4, <1>1, <1>5
<1>9. Line' = Line
  <2>1. Line = Opened(element, head, d, prev)
    BY <1>1 DEF Line, d
  <2>2. Line' = Opened(element', head, d + 1, element[Succ(ins)])
    BY <1>1, <1>7 DEF Line
  <2>3. ASSUME NEW n \in 0..Size - 1
        PROVE  (IF n <= d THEN element[Pos(head, n)] ELSE IF n = d + 1 THEN prev
                ELSE element[Pos(head, n - 1)])
               = (IF n <= d + 1 THEN element'[Pos(head, n)] ELSE IF n = (d + 1) + 1 THEN element[Succ(ins)]
                  ELSE element'[Pos(head, n - 1)])
    <3>1. n \in 0..RingSize - 1
      BY <1>5
    <3>2. CASE n <= d
      <4>1. n # d + 1 /\ n <= d + 1
        BY <3>2, <1>5
      <4> QED BY <4>1, <3>1, <3>2, <1>8
    <3>3. CASE n = d + 1
      <4>1. ~(n <= d) /\ n <= d + 1
        BY <3>3, <1>5
      <4> QED BY <4>1, <3>1, <3>3, <1>8
    <3>4. CASE n > d + 1
      <4>1. /\ n - 1 \in 0..RingSize - 1 /\ ~(n <= d) /\ ~(n <= d + 1) /\ n # d + 1
            /\ n = (d + 1) + 1 <=> n - 1 = d + 1
        BY <3>1, <3>4, <1>5
      <4>2. CASE n - 1 = d + 1
        <5>1. Pos(head, n - 1) = Succ(ins)
          BY <4>1, <4>2, <1>8
        <5> QED BY <4>1, <4>2, <5>1
      <4>3. CASE n - 1 # d + 1
        <5>1. element'[Pos(head, n - 1)] = element[Pos(head, n - 1)]
          BY <4>1, <4>3, <1>8
        <5> QED BY <4>1, <4>3, <5>1
      <4> QED BY <4>2, <4>3
    <3> QED BY <3>1, <3>2, <3>3, <3>4, <1>5
  <2> QED BY <2>1, <2>2, <2>3 DEF Opened
<1>10. CycleInv'
  BY <1>1 DEF IInv, CycleInv
<1>11. LineInv'
  <2>1. Off(limit', head') <= Off(ins', head') /\ Off(ins', head') <= Size - 1
    BY <1>1, <1>4, <1>5, <1>6, <1>7 DEF w
  <2>2. /\ Complete(Line, Members, Waiting)' /\ Sorted(Line, instBase, Waiting)'
        /\ \E edge \in {-1, currentBaseCycle + lookahead} :
              Edge(Line', instBase', Waiting', Off(limit', head'), edge)
        /\ Off(limit', head') <= Waiting'
        /\ \A e \in Instance : instBase[e] >= currentBaseCycle
    BY <1>1, <1>3, <1>9 DEF IInv, LineInv
  <2> QED BY <2>1, <2>2, <1>1, <1>4 DEF LineInv
<1>12. ReaderInv'
  BY <1>1, <1>2, <1>3, <1>9 DEF IInv, ReaderInv, ReaderAt, Walking
<1>13. LifeInv'
  BY <1>1, <1>2 DEF IInv, LifeInv
<1>14. CallInv'
  BY <1>1, <1>2 DEF IInv, CallInv, Mark
<1> QED BY <1>10, <1>11, <1>12, <1>13, <1>14 DEF IInv

\* When the last has been moved, the ring is the line.
LEMMA InsertEndKeeps ==
    ASSUME TypeInv, IInv, InsertEnd, UNCHANGED <<scenario, target, workerVars, cbVars>>
    PROVE  IInv'
<1> DEFINE d == Off(ins, head)
<1>1. /\ serverPc = "shift" /\ ~Between(ins, head, tail) /\ tail' = Succ(ins)
      /\ serverPc' = IF Succ(ins) = head THEN "failed" ELSE "pop"
      /\ UNCHANGED <<nBaseCycle, nCycle, nStep, instBase, instCycle, element, head, limit>>
      /\ UNCHANGED <<currentBaseCycle, event, ins, prev>>
  BY DEF InsertEnd, registryVars, instVars, insertVars
<1>2. /\ UNCHANGED <<workerPc, threadActive, threadForceExit, localDoneTime, index, snapshotHead>>
      /\ UNCHANGED <<localReadyTime, clocked, todo, mayChange, calls, scenario>>
  BY DEF workerVars, threadVars, workVars, cbVars
<1>3. Waiting = Size /\ Members = Instance
  BY <1>1 DEF Waiting, Members
<1>4. tail = Pos(head, Size - 1) /\ d <= Size - 1
  BY <1>1 DEF IInv, LineInv
<1>5. /\ Size \in Nat \ {0} /\ Size < RingSize /\ RingSize \in Nat
      /\ d \in 0..RingSize - 1
      /\ head \in Index /\ ins \in Index /\ tail \in Index
  BY WaitingFits, Distances
<1>6. d = Size - 1
  <2>1. Off(tail, head) = Size - 1
    <3>1. Size - 1 \in 0..RingSize - 1
      BY <1>5
    <3> QED BY <3>1, <1>4, <1>5, Round
  <2>2. ~(d < Size - 1)
    BY <2>1, <1>1, <1>5, BetweenIsCloser
  <2> HIDE DEF d
  <2> QED BY <2>2, <1>4, <1>5
<1>7. Succ(ins) = Pos(head, Size) /\ Succ(ins) # head
  <2>1. Size - 1 \in 0..RingSize - 2 /\ Size \in 0..RingSize - 1 /\ (Size - 1) + 1 = Size /\ d \in 0..RingSize - 1
    BY <1>5
  <2>2. ins = Pos(head, Size - 1)
    BY <2>1, <1>5, <1>6, Round
  <2>3. Succ(ins) = Pos(head, Size)
    BY <2>1, <2>2, <1>5, StepOn
  <2>4. Off(Pos(head, Size), head) = Size /\ (Off(Pos(head, Size), head) = 0 <=> Pos(head, Size) = head)
    BY <2>1, <1>5, Round
  <2> QED BY <2>3, <2>4, <1>5
<1>8. serverPc' = "pop" /\ Waiting' = Size /\ Members' = Instance
  BY <1>1, <1>7 DEF Waiting, Members
<1>9. Line' = Line
  <2>1. Line = Opened(element, head, Size - 1, prev)
    BY <1>1, <1>6 DEF Line
  <2>2. Line' = Stretch(element, head, Size)
    BY <1>1, <1>8 DEF Line
  <2>3. \A n \in 0..Size - 1 : n <= Size - 1
    BY <1>5
  <2> QED BY <2>1, <2>2, <2>3 DEF Opened, Stretch
<1>10. CycleInv'
  BY <1>1 DEF IInv, CycleInv
<1>11. LineInv'
  <2>1. /\ Complete(Line, Members, Waiting)' /\ Sorted(Line, instBase, Waiting)'
        /\ \E edge \in {-1, currentBaseCycle + lookahead} :
              Edge(Line', instBase', Waiting', Off(limit', head'), edge)
        /\ Off(limit', head') <= Waiting'
        /\ \A e \in Instance : instBase[e] >= currentBaseCycle
    BY <1>1, <1>3, <1>8, <1>9 DEF IInv, LineInv
  <2> QED BY <2>1, <1>1, <1>7, <1>8 DEF LineInv
<1>12. ReaderInv'
  BY <1>1, <1>2, <1>3, <1>8, <1>9 DEF IInv, ReaderInv, ReaderAt, Walking
<1>13. LifeInv'
  BY <1>1, <1>2, <1>8 DEF IInv, LifeInv
<1>14. CallInv'
  BY <1>1, <1>2 DEF IInv, CallInv, Mark
<1> QED BY <1>10, <1>11, <1>12, <1>13, <1>14 DEF IInv

-----------------------------------------------------------------------------
(* The server's steps that leave the ring alone *)

\* The clock is over, or the server starts, stops or finds the workers done.
LEMMA ServerMoves ==
    ASSUME TypeInv, IInv, UNCHANGED <<scenario, ringVars, workerVars, cbVars>>,
           \/ PthreadCreated \/ StopClockServer \/ InitAgain \/ Barrier \/ ClockEnd
    PROVE  IInv'
<1>1. /\ UNCHANGED <<workerPc, threadActive, threadForceExit, localDoneTime, index, snapshotHead>>
      /\ UNCHANGED <<localReadyTime, clocked, todo, mayChange, calls, scenario>>
      /\ UNCHANGED <<instBase, head, limit, currentBaseCycle, nCycle>>
  BY DEF workerVars, threadVars, workVars, cbVars, ringVars, registryVars, instVars, indexVars, insertVars
<1>2. /\ serverPc \notin {"find", "shift"} /\ serverPc' \notin {"find", "shift"} /\ serverPc' # "wait"
      /\ serverPc \in {"stop", "off", "failed"} => serverPc' \in {"stop", "off", "failed"}
      /\ serverPc' \in {"pop"} => \A t \in Thread : localDoneTime[t] >= currentBaseCycle
      /\ serverPc' = "failed" => scenario.again
  BY DEF PthreadCreated, StopClockServer, InitAgain, Barrier, ClockEnd, GlobalDone
<1>3. Line' = Line /\ Waiting' = Waiting /\ CycleInv' /\ LineInv'
  BY <1>2, RingUnmoved DEF IInv
<1>4. ReaderInv'
  BY <1>1, <1>3 DEF IInv, ReaderInv, ReaderAt, Walking
<1>5. LifeInv'
  BY <1>1, <1>2 DEF IInv, LifeInv
<1>6. CallInv'
  BY <1>1 DEF IInv, CallInv, Mark
<1> QED BY <1>3, <1>4, <1>5, <1>6 DEF IInv

\* A thread is created, told to exit or joined.
LEMMA ThreadsCome ==
    ASSUME TypeInv, IInv, NEW t \in Thread,
           CreatePthread(t) \/ DestroyPthread(t) \/ PthreadJoined
    PROVE  IInv'
<1>1. /\ UNCHANGED <<localDoneTime, index, snapshotHead>>
      /\ UNCHANGED <<localReadyTime, clocked, todo, mayChange, calls, scenario>>
      /\ UNCHANGED <<instBase, head, limit, currentBaseCycle, nCycle>>
      /\ UNCHANGED ringVars
  BY DEF CreatePthread, DestroyPthread, PthreadJoined, threadVars, workVars, cbVars,
         ringVars, registryVars, instVars, indexVars, insertVars
<1>2. /\ serverPc \notin {"find", "shift"} /\ serverPc' \notin {"find", "shift"} /\ serverPc' # "wait"
      /\ serverPc \in {"stop", "off", "failed"} => serverPc' \in {"stop", "off", "failed"}
      /\ serverPc' \notin {"pop", "failed"}
      /\ \A u \in Thread : /\ workerPc'[u] # workerPc[u] => workerPc[u] = "none" /\ workerPc'[u] = "boot"
                           /\ threadForceExit'[u] => threadForceExit[u] \/ serverPc' = "stop"
                           /\ workerPc[u] = "exited" /\ threadForceExit[u] => threadForceExit'[u]
  BY DEF CreatePthread, DestroyPthread, PthreadJoined, TypeInv, TypeOK, threadVars
<1>3. Line' = Line /\ Waiting' = Waiting /\ CycleInv' /\ LineInv'
  BY <1>1, <1>2, RingUnmoved DEF IInv
<1>4. ReaderInv'
  <2> SUFFICES ASSUME NEW u \in Thread PROVE ReaderAt(u)'
    BY DEF ReaderInv
  <2>1. ReaderAt(u)
    BY DEF IInv, ReaderInv
  <2> QED BY <2>1, <1>1, <1>2, <1>3 DEF ReaderAt, Walking
<1>5. LifeInv'
  BY <1>1, <1>2 DEF IInv, LifeInv
<1>6. CallInv'
  <2>1. \A c \in Callback : Mark(c)' = Mark(c)
    <3> TAKE c \in Callback
    <3>1. workerPc'[cbThread[c]] = "run" <=> workerPc[cbThread[c]] = "run"
      BY <1>2, LockFreeConstants
    <3> QED BY <3>1, <1>1 DEF Mark
  <2>2. \A c \in Callback : workerPc'[cbThread[c]] # "exited" => workerPc[cbThread[c]] # "exited"
    BY <1>2, LockFreeConstants
  <2>3. \A u \in Thread : workerPc'[u] = "run" => workerPc[u] = "run"
    BY <1>2
  <2> QED BY <2>1, <2>2, <2>3, <1>1 DEF IInv, CallInv
<1> QED BY <1>3, <1>4, <1>5, <1>6 DEF IInv

\* Every step of the server keeps the invariant.
LEMMA ServerKeeps ==
    ASSUME TypeInv, IInv, Server \/ ClockBegin \/ StopClockServer \/ InitAgain
    PROVE  IInv'
<1>1. CASE \E t \in Thread : CreatePthread(t) \/ DestroyPthread(t)
  BY <1>1, ThreadsCome
<1>2. CASE PthreadJoined
  <2>1. PICK t \in Thread : TRUE
    BY LockFreeConstants
  <2> QED BY <1>2, <2>1, ThreadsCome
<1>3. CASE PthreadCreated \/ Barrier \/ StopClockServer \/ InitAgain
  <2>1. UNCHANGED <<scenario, ringVars, workerVars, cbVars>>
    BY <1>3 DEF PthreadCreated, Barrier, StopClockServer, InitAgain
  <2> QED BY <1>3, <2>1, ServerMoves
<1>4. CASE AddEventsAgain
  <2>1. ReInsert /\ UNCHANGED <<scenario, target, workerVars, cbVars>>
    BY <1>4 DEF AddEventsAgain
  <2>2. CASE ClockEnd
    <3>1. UNCHANGED <<scenario, ringVars, workerVars, cbVars>>
      BY <2>1, <2>2 DEF ClockEnd
    <3> QED BY <2>2, <3>1, ServerMoves
  <2>3. CASE PopFront
    BY <2>1, <2>3, PopFrontKeeps
  <2>4. CASE InsertBegin
    BY <2>1, <2>4, InsertBeginKeeps
  <2>5. CASE InsertShift
    BY <2>1, <2>5, InsertShiftKeeps
  <2>6. CASE InsertEnd
    BY <2>1, <2>6, InsertEndKeeps
  <2> QED BY <2>1, <2>2, <2>3, <2>4, <2>5, <2>6 DEF ReInsert
<1>5. CASE ClockBegin
  BY <1>5, ClockBegins
<1> QED BY <1>1, <1>2, <1>3, <1>4, <1>5 DEF Server

-----------------------------------------------------------------------------
(* The worker threads *)

\* A step of one thread leaves the ring and the other threads alone.
LEMMA OthersStay ==
    ASSUME TypeInv, IInv, NEW t \in Thread, UNCHANGED <<ringVars, serverPc>>,
           \A u \in Thread : u # t =>
              /\ workerPc'[u] = workerPc[u] /\ localDoneTime'[u] = localDoneTime[u]
              /\ index'[u] = index[u] /\ snapshotHead'[u] = snapshotHead[u]
              /\ localReadyTime'[u] = localReadyTime[u] /\ clocked'[u] = clocked[u],
           ReaderAt(t)'
    PROVE  CycleInv' /\ LineInv' /\ ReaderInv'
<1>1. CycleInv' /\ LineInv' /\ Line' = Line /\ Waiting' = Waiting
  BY RingUnmoved DEF IInv
<1>2. UNCHANGED <<instBase, head, limit, currentBaseCycle>>
  BY DEF ringVars, instVars, indexVars
<1>3. ASSUME NEW u \in Thread, u # t PROVE ReaderAt(u)'
  <2>1. ReaderAt(u)
    BY DEF IInv, ReaderInv
  <2> QED BY <2>1, <1>1, <1>2, <1>3 DEF ReaderAt, Walking
<1>4. ReaderInv'
  BY <1>3 DEF ReaderInv
<1> QED BY <1>1, <1>4

\* What the ring variables have in common for a step of a thread.
LEMMA RingStays ==
    ASSUME TypeInv, IInv, UNCHANGED <<ringVars, serverPc>>
    PROVE  /\ UNCHANGED <<instBase, instCycle, nCycle, nBaseCycle, head, limit, currentBaseCycle, element>>
           /\ Line' = Line /\ Waiting' = Waiting /\ Members' = Members
           /\ Waiting \in Nat /\ Waiting <= Size /\ Size \in Nat /\ Size < RingSize /\ RingSize \in Nat
           /\ lookahead \in Nat /\ currentBaseCycle \in Nat /\ instBase \in [Instance -> Nat]
           /\ Off(limit, head) <= Waiting
           /\ Sorted(Line, instBase, Waiting)
           /\ \A n \in 0..Waiting - 1 : Line[n] \in Instance /\ instBase[Line[n]] \in Nat
<1>1. /\ UNCHANGED <<instBase, instCycle, nCycle, nBaseCycle, head, limit, currentBaseCycle, element>>
      /\ Line' = Line /\ Waiting' = Waiting /\ Members' = Members
  BY RingUnmoved DEF ringVars, registryVars, instVars, indexVars
<1>2. /\ Waiting \in Nat /\ Waiting <= Size /\ Size \in Nat /\ Size < RingSize /\ RingSize \in Nat
      /\ lookahead \in Nat /\ currentBaseCycle \in Nat /\ instBase \in [Instance -> Nat]
  BY WaitingFits, RingConstants DEF TypeInv, TypeOK, RingTypeOK
<1>3. Off(limit, head) <= Waiting /\ Sorted(Line, instBase, Waiting)
  BY DEF IInv, LineInv
<1>4. \A n \in 0..Waiting - 1 : Line[n] \in Instance /\ instBase[Line[n]] \in Nat
  BY LineHolds DEF IInv
<1> QED BY <1>1, <1>2, <1>3, <1>4

\* A thread starts at the head of the line.
LEMMA ThreadInitKeeps ==
    ASSUME TypeInv, IInv, NEW t \in Thread, ThreadInit(t)
    PROVE  IInv'
<1>1. /\ workerPc[t] = "init" /\ workerPc' = [workerPc EXCEPT ![t] = "head"]
      /\ localDoneTime' = [localDoneTime EXCEPT ![t] = -1]
      /\ index' = [index EXCEPT ![t] = head]
      /\ UNCHANGED <<scenario, ringVars, serverPc, threadForceExit, snapshotHead, localReadyTime,
                     clocked, todo, calls>>
  BY DEF ThreadInit, threadVars, workVars, cbVars
<1>2. UNCHANGED <<ringVars, serverPc>>
  BY <1>1
<1>3. /\ workerPc'[t] = "head" /\ localDoneTime'[t] = -1 /\ index'[t] = head /\ clocked[t] = {}
      /\ localDoneTime[t] < 0 /\ localDoneTime[t] \in Int
      /\ serverPc \notin {"pop", "find", "shift"}
      /\ \A u \in Thread : u # t => /\ workerPc'[u] = workerPc[u] /\ index'[u] = index[u]
                                    /\ localDoneTime'[u] = localDoneTime[u]
  <2>1. clocked[t] = {} /\ localDoneTime[t] < 0
    BY <1>1 DEF IInv, LifeInv
  <2>2. localDoneTime[t] \in Int /\ currentBaseCycle \in Nat
    BY DEF TypeInv, TypeOK, RingTypeOK
  <2>3. serverPc \notin {"pop", "find", "shift"}
    BY <2>1, <2>2 DEF IInv, LifeInv
  <2> QED BY <1>1, <2>1, <2>2, <2>3 DEF TypeInv, TypeOK
<1>4. ReaderAt(t)'
  <2>1. Reader(Line, instBase, Waiting, 0, -1, {}, localReadyTime[t])
    BY <1>2, RingStays, ReaderBegins
  <2>2. Off(head, head) = 0 /\ Off(limit, head) \in Nat
    <3>1. head \in Index /\ limit \in Index /\ 0 \in 0..RingSize - 1
      BY Distances, InstancesFit
    <3> QED BY <3>1, Round
  <2>3. -1 <= currentBaseCycle + lookahead /\ 0 <= Off(limit, head)
    BY <1>2, <2>2, RingStays
  <2>4. UNCHANGED <<instBase, head, limit, currentBaseCycle, Line, Waiting>>
    BY <1>2, RingStays
  <2> QED BY <2>1, <2>2, <2>3, <2>4, <1>1, <1>3 DEF ReaderAt
<1>5. CycleInv' /\ LineInv' /\ ReaderInv'
  BY <1>1, <1>2, <1>3, <1>4, OthersStay
<1>6. LifeInv'
  <2> SUFFICES ASSUME NEW u \in Thread
      PROVE  /\ workerPc'[u] \in {"none", "boot", "init"} => localDoneTime'[u] < 0 /\ clocked[u] = {}
             /\ workerPc'[u] = "exited" => threadForceExit[u]
    BY <1>1, <1>3 DEF IInv, LifeInv
  <2>1. CASE u = t
    BY <2>1, <1>3
  <2>2. CASE u # t
    BY <2>2, <1>3 DEF IInv, LifeInv
  <2> QED BY <2>1, <2>2
<1>7. CallInv'
  <2>1. ASSUME NEW c \in Callback
        PROVE  /\ nCycle'[cbReg[c]] <= calls'[c]
               /\ workerPc'[cbThread[c]] # "exited" =>
                     /\ Due(cbReg[c], calls'[c]) > Mark(c)'
                     /\ calls'[c] > 0 => Due(cbReg[c], calls'[c] - 1) <= Mark(c)'
    <3>1. nCycle'[cbReg[c]] <= calls'[c] /\ calls[c] \in Nat /\ cbReg[c] \in Registry /\ cbThread[c] \in Thread
      BY <1>1, <1>2, RingStays, LockFreeConstants DEF IInv, CallInv, TypeInv, TypeOK
    <3>2. CASE cbThread[c] # t
      <4>1. Mark(c)' = Mark(c)
        BY <3>1, <3>2, <1>1, <1>3 DEF Mark
      <4> QED BY <3>1, <3>2, <4>1, <1>1, <1>3 DEF IInv, CallInv
    <3>3. CASE cbThread[c] = t
      <4>1. Mark(c)' = -1 /\ Mark(c) = localDoneTime[t]
        BY <3>3, <1>1, <1>3 DEF Mark
      <4>2. Due(cbReg[c], calls[c]) \in Nat
        BY <3>1, DueInOrder
      <4>3. ASSUME calls[c] > 0 PROVE FALSE
        <5>1. calls[c] - 1 \in Nat
          BY <3>1, <4>3
        <5>2. Due(cbReg[c], calls[c] - 1) \in Nat
          BY <3>1, <5>1, DueInOrder
        <5>3. Due(cbReg[c], calls[c] - 1) <= localDoneTime[t]
          BY <3>3, <4>1, <4>3, <1>1 DEF IInv, CallInv
        <5> QED BY <5>2, <5>3, <1>3
      <4> QED BY <3>1, <4>1, <4>2, <4>3, <1>1
    <3> QED BY <3>2, <3>3
  <2>2. \A u \in Thread : workerPc'[u] = "run" => workerPc[u] = "run"
    BY <1>3
  <2> QED BY <2>1, <2>2, <1>1 DEF IInv, CallInv
<1> QED BY <1>5, <1>6, <1>7 DEF IInv

\* A step that only looks: no time is published, and no callback called.
LEMMA LookingKeeps ==
    ASSUME TypeInv, IInv, NEW t \in Thread,
           UNCHANGED <<scenario, ringVars, serverPc, threadForceExit, localDoneTime, calls>>,
           workerPc[t] \notin {"run", "exited"} /\ workerPc'[t] \notin {"run", "exited"},
           workerPc'[t] \in {"none", "boot", "init"} => workerPc[t] \in {"none", "boot", "init"},
           workerPc'[t] \in {"none", "boot", "init"} => clocked'[t] = clocked[t],
           UNCHANGED todo,
           \A u \in Thread : u # t =>
              /\ workerPc'[u] = workerPc[u]
              /\ index'[u] = index[u] /\ snapshotHead'[u] = snapshotHead[u]
              /\ localReadyTime'[u] = localReadyTime[u] /\ clocked'[u] = clocked[u],
           ReaderAt(t)'
    PROVE  IInv'
<1>1. UNCHANGED <<ringVars, serverPc>>
  OBVIOUS
<1>2. CycleInv' /\ LineInv' /\ ReaderInv'
  BY <1>1, OthersStay
<1>3. UNCHANGED <<nCycle, currentBaseCycle>>
  BY <1>1, RingStays
<1>4. LifeInv'
  <2> SUFFICES ASSUME NEW u \in Thread
      PROVE  /\ workerPc'[u] \in {"none", "boot", "init"} => localDoneTime[u] < 0 /\ clocked'[u] = {}
             /\ workerPc'[u] = "exited" => threadForceExit[u]
    BY <1>3 DEF IInv, LifeInv
  <2>1. CASE u = t
    BY <2>1 DEF IInv, LifeInv
  <2>2. CASE u # t
    BY <2>2 DEF IInv, LifeInv
  <2> QED BY <2>1, <2>2
<1>5. \A u \in Thread : /\ workerPc'[u] = "run" <=> workerPc[u] = "run"
                        /\ workerPc'[u] = "run" => clocked'[u] = clocked[u] /\ localReadyTime'[u] = localReadyTime[u]
                        /\ workerPc'[u] = "exited" <=> workerPc[u] = "exited"
  OBVIOUS
<1>6. \A c \in Callback : Mark(c)' = Mark(c)
  <2> SUFFICES ASSUME NEW c \in Callback PROVE Mark(c)' = Mark(c)
    OBVIOUS
  <2>1. cbThread[c] \in Thread
    BY LockFreeConstants
  <2> QED BY <2>1, <1>5 DEF Mark
<1>7. CallInv'
  <2>1. \A c \in Callback : cbThread[c] \in Thread
    BY LockFreeConstants
  <2> QED BY <2>1, <1>3, <1>5, <1>6 DEF IInv, CallInv
<1> QED BY <1>2, <1>4, <1>7 DEF IInv

\* A thread starts, reads the head, or finds that its event is ready or not.
LEMMA ThreadLooks ==
    ASSUME TypeInv, IInv, NEW t \in Thread,
           \/ ThreadStart(t) \/ SnapshotHead(t) \/ Ready(t) \/ (Wait(t) /\ workerPc'[t] = "head")
    PROVE  IInv'
<1>1. /\ UNCHANGED <<scenario, ringVars, serverPc, threadForceExit, localDoneTime, calls>>
      /\ UNCHANGED <<index, localReadyTime, clocked, todo>>
      /\ \A u \in Thread : u # t => workerPc'[u] = workerPc[u] /\ snapshotHead'[u] = snapshotHead[u]
      /\ workerPc[t] \notin {"run", "exited"} /\ workerPc'[t] \notin {"run", "exited"}
      /\ workerPc'[t] \in {"none", "boot", "init"} => workerPc[t] \in {"none", "boot", "init"}
  BY DEF ThreadStart, SnapshotHead, Ready, Wait, threadVars, workVars, cbVars, TypeInv, TypeOK
<1>2. UNCHANGED <<ringVars, serverPc>>
  BY <1>1
<1>3. ReaderAt(t)
  BY DEF IInv, ReaderInv
<1>4. UNCHANGED <<instBase, head, limit, currentBaseCycle, Line, Waiting>>
  BY <1>2, RingStays
<1>5. ReaderAt(t)'
  <2>1. CASE ThreadStart(t)
    <3>1. workerPc'[t] = "init"
      BY <2>1 DEF ThreadStart, TypeInv, TypeOK
    <3> QED BY <3>1 DEF ReaderAt, Walking
  <2>2. CASE SnapshotHead(t)
    <3>1. workerPc[t] = "head" /\ workerPc'[t] = "limit" /\ snapshotHead'[t] = head
      BY <2>2 DEF SnapshotHead, TypeInv, TypeOK
    <3>2. Off(head, head) = 0 /\ Off(index[t], head) \in Nat
      <4>1. head \in Index /\ 0 \in 0..RingSize - 1 /\ Off(index[t], head) \in 0..RingSize - 1
        BY Distances, InstancesFit
      <4> QED BY <4>1, Round
    <3>3. Off(index[t], head) <= Size
      <4>1. Off(index[t], head) <= Off(limit, head) /\ Off(limit, head) <= Waiting
        BY <1>3, <3>1 DEF ReaderAt, Walking, IInv, LineInv
      <4> QED BY <4>1, <3>2, <1>2, RingStays, Distances
    <3> QED BY <3>1, <3>2, <3>3, <1>1, <1>3, <1>4 DEF ReaderAt, Walking
  <2>3. CASE Ready(t)
    <3>1. workerPc[t] = "limit" /\ workerPc'[t] = "read" /\ Between(index[t], snapshotHead[t], limit)
      BY <2>3 DEF Ready, IsReady, TypeInv, TypeOK
    <3>2. Off(index[t], head) <= Off(limit, head)
      BY <1>3, <3>1 DEF ReaderAt, Walking
    <3>3. index[t] \in Index /\ limit \in Index /\ snapshotHead[t] \in Index /\ head \in Index
      BY Distances
    <3>4. Off(index[t], snapshotHead[t]) < Off(limit, snapshotHead[t])
      BY <3>1, <3>3, BetweenIsCloser
    <3>5. Off(limit, snapshotHead[t]) \in Int
      <4>1. 0 \in 0..RingSize - 1 /\ RingSize \in Nat
        BY InstancesFit
      <4>2. Off(limit, snapshotHead[t]) \in 0..RingSize - 1
        BY <3>3, <4>1, Round
      <4> QED BY <4>1, <4>2
    <3>6. index[t] # limit
      BY <3>4, <3>5
    <3>7. Off(index[t], head) # Off(limit, head)
      <4>1. Off(index[t], head) = Off(limit, head) => index[t] = limit
        BY <3>3, WaysAddUp
      <4> QED BY <3>6, <4>1
    <3>8. Off(index[t], head) < Off(limit, head)
      BY <3>2, <3>7, Distances
    <3> QED BY <3>1, <3>8, <1>1, <1>3, <1>4 DEF ReaderAt, Walking
  <2>4. CASE Wait(t) /\ workerPc'[t] = "head"
    <3>1. workerPc[t] = "limit"
      BY <2>4 DEF Wait
    <3> QED BY <2>4, <3>1, <1>1, <1>3, <1>4 DEF ReaderAt, Walking
  <2> QED BY <2>1, <2>2, <2>3, <2>4
<1> QED BY <1>1, <1>5, LookingKeeps

\* A thread that finds nothing more is told to exit.
LEMMA ThreadExits ==
    ASSUME TypeInv, IInv, NEW t \in Thread, Wait(t), workerPc'[t] # "head"
    PROVE  IInv'
<1>1. /\ UNCHANGED <<scenario, ringVars, serverPc, threadForceExit, calls>>
      /\ UNCHANGED <<index, snapshotHead, localReadyTime, clocked, todo>>
      /\ workerPc[t] = "limit" /\ threadForceExit[t]
      /\ workerPc' = [workerPc EXCEPT ![t] = "exited"]
      /\ localDoneTime' = [localDoneTime EXCEPT ![t] = TimeAt(head)]
  BY DEF Wait, threadVars, workVars, cbVars, TypeInv, TypeOK
<1>2. /\ workerPc'[t] = "exited"
      /\ \A u \in Thread : u # t => workerPc'[u] = workerPc[u] /\ localDoneTime'[u] = localDoneTime[u]
  BY <1>1 DEF TypeInv, TypeOK
<1>3. ReaderAt(t)'
  BY <1>2 DEF ReaderAt, Walking
<1>4. UNCHANGED <<ringVars, serverPc>>
  BY <1>1
<1>5. CycleInv' /\ LineInv' /\ ReaderInv'
  BY <1>1, <1>2, <1>3, <1>4, OthersStay
<1>6. serverPc \notin {"pop", "find", "shift"}
  BY <1>1 DEF IInv, LifeInv
<1>7. LifeInv'
  <2> SUFFICES ASSUME NEW u \in Thread
      PROVE  /\ workerPc'[u] \in {"none", "boot", "init"} => localDoneTime'[u] < 0 /\ clocked[u] = {}
             /\ workerPc'[u] = "exited" => threadForceExit[u]
    BY <1>1, <1>6 DEF IInv, LifeInv
  <2>1. CASE u = t
    BY <2>1, <1>1, <1>2
  <2>2. CASE u # t
    BY <2>2, <1>2 DEF IInv, LifeInv
  <2> QED BY <2>1, <2>2
<1>8. CallInv'
  <2>1. \A c \in Callback : cbThread[c] # t => Mark(c)' = Mark(c)
    <3> SUFFICES ASSUME NEW c \in Callback, cbThread[c] # t PROVE Mark(c)' = Mark(c)
      OBVIOUS
    <3>1. cbThread[c] \in Thread
      BY LockFreeConstants
    <3> QED BY <3>1, <1>1, <1>2 DEF Mark
  <2>2. \A c \in Callback : cbThread[c] \in Thread
    BY LockFreeConstants
  <2>3. UNCHANGED nCycle
    BY <1>4, RingStays
  <2> QED BY <2>1, <2>2, <2>3, <1>1, <1>2 DEF IInv, CallInv
<1> QED BY <1>5, <1>7, <1>8 DEF IInv

\* A thread takes the event at its index.
LEMMA ThreadCollects ==
    ASSUME TypeInv, IInv, NEW t \in Thread, Collect(t)
    PROVE  IInv'
<1> DEFINE d == Off(index[t], head)
           w == Off(limit, head)
<1>1. PICK e \in Instance : e = element[index[t]]
  BY Distances DEF TypeInv, TypeOK, RingTypeOK
<1>2. /\ UNCHANGED <<scenario, ringVars, serverPc, threadForceExit, localDoneTime, calls, todo>>
      /\ UNCHANGED snapshotHead
      /\ workerPc[t] = "read" /\ workerPc' = [workerPc EXCEPT ![t] = "head"]
      /\ instBase[e] = localReadyTime[t] /\ UNCHANGED localReadyTime
      /\ clocked' = [clocked EXCEPT ![t] = @ \cup {e}]
      /\ index' = [index EXCEPT ![t] = Succ(@)]
  BY <1>1 DEF Collect, TimeAt, threadVars, cbVars
<1>3. /\ workerPc'[t] = "head" /\ localReadyTime'[t] = instBase[e]
      /\ clocked'[t] = clocked[t] \cup {e} /\ index'[t] = Succ(index[t])
      /\ \A u \in Thread : u # t => /\ workerPc'[u] = workerPc[u] /\ index'[u] = index[u]
                                    /\ localReadyTime'[u] = localReadyTime[u]
                                    /\ clocked'[u] = clocked[u]
  BY <1>2 DEF TypeInv, TypeOK
<1>4. UNCHANGED <<ringVars, serverPc>>
  BY <1>2
<1>5. /\ UNCHANGED <<instBase, head, limit, currentBaseCycle, Line, Waiting>>
      /\ Waiting \in Nat /\ w <= Waiting /\ Waiting <= Size /\ Size < RingSize /\ Size \in Nat /\ RingSize \in Nat
      /\ Sorted(Line, instBase, Waiting)
      /\ lookahead \in Nat /\ currentBaseCycle \in Nat /\ instBase \in [Instance -> Nat]
      /\ \A n \in 0..Waiting - 1 : Line[n] \in Instance
  BY <1>4, RingStays
<1>6. d < w /\ d \in Nat /\ w \in Nat
  <2>1. d < w
    BY <1>2 DEF IInv, ReaderInv, ReaderAt
  <2> QED BY <2>1, <1>5, Distances
<1>7. d \in 0..Waiting - 1 /\ Line[d] = e
  BY <1>1, <1>6, ThreadSeesLine DEF IInv
<1>8. Off(Succ(index[t]), head) = d + 1 /\ d + 1 <= w
  <2>1. index[t] \in Index /\ head \in Index /\ 0 \in 0..RingSize - 2 /\ w \in 0..RingSize - 1
    BY <1>5, <1>6, Distances
  <2>2. Off(Succ(index[t]), head) = IF d = RingSize - 1 THEN 0 ELSE d + 1
    BY <2>1, StepOn
  <2> HIDE DEF d, w
  <2> QED BY <2>1, <2>2, <1>5, <1>6
<1>9. instBase[e] <= currentBaseCycle + lookahead
  <2>1. PICK edge \in {-1, currentBaseCycle + lookahead} : Edge(Line, instBase, Waiting, w, edge)
    BY DEF IInv, LineInv
  <2> HIDE DEF d, w
  <2>2. instBase[Line[d]] <= edge
    BY <2>1, <1>6, <1>7 DEF Edge
  <2> QED BY <2>1, <2>2, <1>5, <1>7
<1>10. ReaderAt(t)
  BY DEF IInv, ReaderInv
<1>11. ReaderAt(t)'
  <2>1. Reader(Line, instBase, Waiting, d, localDoneTime[t], clocked[t], localReadyTime[t])
    BY <1>2, <1>10 DEF ReaderAt, Walking
  <2>2. localDoneTime[t] \in Int /\ localReadyTime[t] \in Int /\ clocked[t] \in SUBSET Instance
    BY DEF TypeInv, TypeOK
  <2>3. localDoneTime[t] <= currentBaseCycle + lookahead
    BY <1>2, <1>10 DEF ReaderAt, Walking
  <2> HIDE DEF d, w
  <2>4. Reader(Line, instBase, Waiting, d + 1, localDoneTime[t], clocked[t] \cup {Line[d]}, instBase[Line[d]])
    BY <2>1, <2>2, <1>2, <1>5, <1>7, ReaderCollects
  <2>5. Reader(Line, instBase, Waiting, Off(index'[t], head), localDoneTime[t], clocked'[t], localReadyTime'[t])
    BY <2>4, <1>3, <1>7, <1>8
  <2>6. Off(index'[t], head) <= Off(limit, head)
    BY <1>3, <1>8 DEF w
  <2> QED BY <2>3, <2>5, <2>6, <1>2, <1>3, <1>5, <1>9 DEF ReaderAt
<1>12. /\ UNCHANGED <<scenario, ringVars, serverPc, threadForceExit, localDoneTime, calls>>
       /\ UNCHANGED todo
       /\ workerPc[t] \notin {"run", "exited"} /\ workerPc'[t] \notin {"run", "exited"}
       /\ workerPc'[t] \notin {"none", "boot", "init"}
  BY <1>2, <1>3
<1> QED BY <1>2, <1>3, <1>11, <1>12, LookingKeeps

\* A thread reads the time of the first event.
LEMMA ThreadOpens ==
    ASSUME TypeInv, IInv, NEW t \in Thread, FirstTime(t), clocked[t] = {}
    PROVE  IInv'
<1>1. /\ UNCHANGED <<scenario, ringVars, serverPc, threadForceExit, localDoneTime, calls, todo>>
      /\ UNCHANGED <<index, snapshotHead, clocked>>
      /\ workerPc[t] = "read" /\ workerPc'[t] = "head"
      /\ \A u \in Thread : u # t => workerPc'[u] = workerPc[u] /\ localReadyTime'[u] = localReadyTime[u]
  BY DEF FirstTime, threadVars, cbVars, TypeInv, TypeOK
<1>2. UNCHANGED <<ringVars, serverPc>>
  BY <1>1
<1>3. UNCHANGED <<instBase, head, limit, currentBaseCycle, Line, Waiting>>
  BY <1>2, RingStays
<1>4. Walking(t) /\ ReaderAt(t)
  BY <1>1 DEF IInv, ReaderInv, Walking
<1>5. Reader(Line, instBase, Waiting, Off(index[t], head), localDoneTime[t], {}, localReadyTime'[t])
  BY <1>4 DEF ReaderAt, Reader
<1>6. ReaderAt(t)'
  BY <1>1, <1>3, <1>4, <1>5 DEF ReaderAt
<1> QED BY <1>1, <1>6, LookingKeeps

\* A callback that is still to be called in a registry's next cycles is called
\* later than the time a thread is at, or for one of the events it has.
LEMMA DueOrCollected ==
    ASSUME TypeInv, IInv, NEW t \in Thread, Walking(t), clocked[t] # {},
           Past(Line, instBase, Waiting, Off(index[t], head), localReadyTime[t]),
           NEW r \in Registry, NEW m \in Nat, nCycle[r] <= m, m < nCycle[r] + Instances(r),
           Due(r, m) > localDoneTime[t]
    PROVE  Due(r, m) > localReadyTime[t] \/ \E e \in clocked[t] : Parent(e) = r /\ instCycle[e] = m
<1> DEFINE d == Off(index[t], head)
<1>1. /\ nCycle[r] \in Nat /\ localReadyTime[t] \in Int /\ currentBaseCycle \in Nat
      /\ clocked[t] \in SUBSET Instance /\ Instances(r) \in Nat
  BY InstancesSpan DEF TypeInv, TypeOK, RingTypeOK
<1>2. m \in nCycle[r]..nCycle[r] + Instances(r) - 1
  BY <1>1
<1>3. PICK k \in 1..Instances(r) : instCycle[<<r, k>>] = m
  BY <1>2 DEF IInv, CycleInv, Successive
<1>4. PICK e \in Instance : e = <<r, k>> /\ Parent(e) = r /\ instCycle[e] = m
  BY <1>3, PairIsInstance
<1>5. instBase[e] = Due(r, m) /\ instBase[e] \in Nat
  BY <1>4 DEF IInv, CycleInv, TypeInv, TypeOK, RingTypeOK
<1>6. ReaderAt(t)
  BY DEF IInv, ReaderInv
<1>7. CASE e \notin Members
  <2>1. instBase[e] > currentBaseCycle + lookahead
    BY <1>4, <1>7 DEF Members, IInv, LineInv
  <2>2. localReadyTime[t] <= currentBaseCycle + lookahead /\ lookahead \in Nat
    BY <1>6, RingConstants DEF ReaderAt
  <2> QED BY <2>1, <2>2, <1>1, <1>5
<1>8. CASE e \in Members
  <2>1. PICK n \in 0..Waiting - 1 : Line[n] = e
    BY <1>8 DEF IInv, LineInv, Complete
  <2>2. d \in Int /\ n \in Int
    BY Distances, WaitingFits
  <2>3. CASE n >= d
    BY <2>1, <2>3, <1>5 DEF Past
  <2>4. CASE n < d
    <3>1. Reader(Line, instBase, Waiting, d, localDoneTime[t], clocked[t], localReadyTime[t])
      BY <1>6 DEF ReaderAt
    <3> HIDE DEF d
    <3>2. instBase[e] <= localDoneTime[t] \/ e \in clocked[t]
      BY <2>1, <2>4, <3>1 DEF Reader
    <3>3. e \in clocked[t]
      BY <3>2, <1>5 DEF TypeInv, TypeOK
    <3> QED BY <3>3, <1>4
  <2> QED BY <2>2, <2>3, <2>4
<1> QED BY <1>7, <1>8

\* The next cycle of a callback is one that an instance stands for.
LEMMA CallInReach ==
    ASSUME TypeInv, IInv, NEW t \in Thread, Walking(t), NEW c \in Callback, cbThread[c] = t,
           Mark(c) = localDoneTime[t]
    PROVE  /\ calls[c] \in Nat /\ nCycle[cbReg[c]] <= calls[c]
           /\ calls[c] < nCycle[cbReg[c]] + Instances(cbReg[c])
           /\ Due(cbReg[c], calls[c]) > localDoneTime[t]
           /\ calls[c] > 0 => Due(cbReg[c], calls[c] - 1) <= localDoneTime[t]
<1>1. PICK r \in Registry : r = cbReg[c]
  BY LockFreeConstants
<1>2. /\ calls[c] \in Nat /\ nCycle[r] \in Nat /\ Instances(r) \in Nat \ {0}
      /\ currentBaseCycle \in Nat /\ lookahead \in Nat /\ localDoneTime[t] \in Int
      /\ InitStep[r] \in Nat \ {0}
  BY InstancesSpan DEF TypeInv, TypeOK, RingTypeOK
<1>3. /\ nCycle[r] <= calls[c] /\ Due(r, calls[c]) > localDoneTime[t]
      /\ calls[c] > 0 => Due(r, calls[c] - 1) <= localDoneTime[t]
  BY <1>1 DEF IInv, CallInv, Walking
<1>4. localDoneTime[t] <= currentBaseCycle + lookahead
  BY DEF IInv, ReaderInv, ReaderAt
<1>5. Due(r, nCycle[r]) \in Nat /\ Due(r, nCycle[r]) >= currentBaseCycle
  <2>1. nCycle[r] \in nCycle[r]..nCycle[r] + Instances(r) - 1
    BY <1>2
  <2>2. PICK k \in 1..Instances(r) : instCycle[<<r, k>>] = nCycle[r]
    BY <2>1 DEF IInv, CycleInv, Successive
  <2>3. <<r, k>> \in Instance /\ Parent(<<r, k>>) = r
    BY PairIsInstance
  <2>4. instBase[<<r, k>>] = Due(r, nCycle[r]) /\ instBase[<<r, k>>] >= currentBaseCycle
    BY <2>2, <2>3 DEF IInv, CycleInv, LineInv
  <2> QED BY <2>4, <1>2, DueInOrder
<1>6. ASSUME calls[c] >= nCycle[r] + Instances(r) PROVE FALSE
  <2> DEFINE m == nCycle[r] + Instances(r) - 1
  <2>1. m \in Nat /\ m <= calls[c] - 1 /\ calls[c] - 1 \in Nat /\ calls[c] > 0 /\ m + 1 = nCycle[r] + Instances(r)
    BY <1>2, <1>6
  <2>2. Due(r, m + 1) = Due(r, m) + InitStep[r] /\ Due(r, m) \in Nat /\ Due(r, calls[c] - 1) \in Nat
    BY <2>1, DueInOrder
  <2>3. Due(r, m + 1) > Due(r, nCycle[r]) + lookahead + InitStep[r]
    BY <2>1, <1>2, DueInOrder
  <2>4. Due(r, m) <= Due(r, calls[c] - 1)
    BY <2>1, DueTellsCycle
  <2>5. Due(r, m) > Due(r, nCycle[r]) + lookahead
    BY <2>2, <2>3, <1>2, <1>5
  <2> HIDE DEF m
  <2> QED BY <2>1, <2>2, <2>4, <2>5, <1>2, <1>3, <1>4, <1>5
<1> QED BY <1>1, <1>2, <1>3, <1>6

\* The callback of an event that a thread has collected is called for the
\* cycle that comes next.
LEMMA CallIsDue ==
    ASSUME TypeInv, IInv, NEW t \in Thread, workerPc[t] = "run", NEW c \in todo[t],
           NEW e \in clocked[t], Parent(e) = cbReg[c]
    PROVE  /\ cbThread[c] = t /\ instCycle[e] = calls[c]
           /\ Due(cbReg[c], calls[c]) = localReadyTime[t]
<1>1. c \in Callback /\ cbThread[c] = t /\ e \in Instance /\ clocked[t] # {}
  BY DEF TypeInv, TypeOK, IInv, CallInv
<1>2. PICK r \in Registry : r = cbReg[c]
  BY <1>1, LockFreeConstants
<1>3. Walking(t) /\ Mark(c) = localDoneTime[t]
  BY <1>1 DEF Walking, Mark
<1>4. /\ calls[c] \in Nat /\ nCycle[r] <= calls[c] /\ calls[c] < nCycle[r] + Instances(r)
      /\ Due(r, calls[c]) > localDoneTime[t]
      /\ calls[c] > 0 => Due(r, calls[c] - 1) <= localDoneTime[t]
  BY <1>1, <1>2, <1>3, CallInReach
<1>5. /\ Past(Line, instBase, Waiting, Off(index[t], head), localReadyTime[t])
      /\ Reader(Line, instBase, Waiting, Off(index[t], head), localDoneTime[t], clocked[t],
                localReadyTime[t])
  BY <1>3 DEF IInv, ReaderInv, ReaderAt
<1>6. PICK m \in Nat : m = instCycle[e]
  BY <1>1 DEF TypeInv, TypeOK, RingTypeOK
<1>7. Due(r, m) = instBase[e] /\ instBase[e] = localReadyTime[t] /\ localReadyTime[t] > localDoneTime[t]
  BY <1>1, <1>2, <1>5, <1>6 DEF Reader, IInv, CycleInv
<1>8. localReadyTime[t] \in Int /\ localDoneTime[t] \in Int
  BY DEF TypeInv, TypeOK
<1>9. calls[c] <= m
  <2>1. CASE calls[c] = 0
    BY <2>1, <1>6
  <2>2. CASE calls[c] > 0
    <3>1. calls[c] - 1 \in Nat /\ Due(r, calls[c] - 1) <= localDoneTime[t]
      BY <2>2, <1>4
    <3>2. Due(r, calls[c] - 1) \in Nat /\ Due(r, m) \in Nat
      BY <3>1, <1>6, DueInOrder
    <3>3. Due(r, calls[c] - 1) <= Due(r, m) /\ Due(r, calls[c] - 1) # Due(r, m)
      BY <3>1, <3>2, <1>7, <1>8
    <3>4. calls[c] - 1 <= m /\ calls[c] - 1 # m
      BY <3>1, <3>3, <1>6, DueTellsCycle
    <3> QED BY <3>1, <3>4, <1>4, <1>6
  <2> QED BY <2>1, <2>2, <1>4
<1>10. Due(r, calls[c]) >= localReadyTime[t]
  <2>1. \/ Due(r, calls[c]) > localReadyTime[t]
        \/ \E d \in clocked[t] : Parent(d) = r /\ instCycle[d] = calls[c]
    BY <1>1, <1>3, <1>4, <1>5, DueOrCollected
  <2>2. Due(r, calls[c]) \in Nat
    BY <1>4, DueInOrder
  <2>3. CASE \E d \in clocked[t] : Parent(d) = r /\ instCycle[d] = calls[c]
    <3>1. PICK d \in clocked[t] : Parent(d) = r /\ instCycle[d] = calls[c]
      BY <2>3
    <3>2. d \in Instance
      BY <3>1 DEF TypeInv, TypeOK
    <3>3. instBase[d] = localReadyTime[t] /\ instBase[d] = Due(r, calls[c])
      BY <3>1, <3>2, <1>5 DEF Reader, IInv, CycleInv
    <3> QED BY <3>3, <1>8
  <2> QED BY <2>1, <2>2, <2>3, <1>8
<1>11. m <= calls[c]
  <2>1. Due(r, m) <= Due(r, calls[c])
    BY <1>7, <1>10
  <2> QED BY <2>1, <1>4, <1>6, DueTellsCycle
<1>12. m = calls[c]
  BY <1>4, <1>6, <1>9, <1>11
<1> QED BY <1>1, <1>2, <1>6, <1>7, <1>12

\* is_ready gives the answer that an atomic comparison would have given, when
\* it read limit, although it has read head before.
LEMMA ComparedAtOnce ==
    ASSUME RoomToSpare, TypeInv, IInv, NEW t \in Thread, workerPc[t] = "limit"
    PROVE  IsReady(t) <=> Between(index[t], head, limit)
<1> DEFINE d == Off(index[t], head)
           w == Off(limit, head)
           a == Off(head, snapshotHead[t])
           b == Off(index[t], snapshotHead[t])
<1>1. /\ Waiting \in Nat /\ Waiting <= Size /\ Size \in Nat /\ RingSize \in Nat
      /\ w <= Waiting
  BY WaitingFits DEF IInv, LineInv
<1>2. /\ d \in 0..RingSize - 1 /\ w \in 0..RingSize - 1 /\ a \in 0..RingSize - 1 /\ b \in 0..RingSize - 1
      /\ head \in Index /\ limit \in Index /\ index[t] \in Index /\ snapshotHead[t] \in Index
  BY Distances
<1>3. a <= b /\ b <= Size
  BY DEF IInv, ReaderInv, ReaderAt
<1>4. b = a + d
  BY <1>2, <1>3, WaysAddUp
<1>5. a + w < RingSize
  <2> HIDE DEF a, b, d, w
  <2>1. a + w <= 2 * Size
    BY <1>1, <1>2, <1>3
  <2> QED BY <2>1, <1>1, <1>2 DEF RoomToSpare, Size
<1>6. Off(limit, snapshotHead[t]) = a + w
  BY <1>5, <1>2, WaysAddUp
<1>7. IsReady(t) <=> b < Off(limit, snapshotHead[t])
  BY <1>2, BetweenIsCloser DEF IsReady
<1>8. Between(index[t], head, limit) <=> d < w
  BY <1>2, BetweenIsCloser
<1> HIDE DEF a, b, d, w
<1> QED BY <1>2, <1>4, <1>6, <1>7, <1>8

\* A thread that asks again whether the first event is ready finds that it is,
\* and of the time it read: the loop does not end without it.
LEMMA FirstIsThere ==
    ASSUME RoomToSpare, TypeInv, IInv, CollectInv, NEW t \in Thread, Collected(t)
    PROVE  clocked[t] # {}
<1> SUFFICES ASSUME clocked[t] = {} PROVE FALSE
  OBVIOUS
<1>1. /\ Off(index[t], head) < Off(limit, head)
      /\ TimeAt(index[t]) = localReadyTime[t]
  BY DEF Collected, CollectInv, Opening
<1>2. workerPc[t] = "limit" /\ ~IsReady(t)
  BY <1>1 DEF Collected
<1>3. Between(index[t], head, limit)
  BY <1>1, Distances, BetweenIsCloser
<1> QED BY <1>2, <1>3, ComparedAtOnce

\* A thread that finds the next event past the window, or later, has all the
\* events of the time it collects.
LEMMA HasAll ==
    ASSUME RoomToSpare, TypeInv, IInv, CollectInv, NEW t \in Thread, Collected(t)
    PROVE  Past(Line, instBase, Waiting, Off(index[t], head), localReadyTime[t])
<1> DEFINE d == Off(index[t], head)
           w == Off(limit, head)
<1>1. /\ clocked[t] # {} /\ Walking(t)
      /\ \/ workerPc[t] = "limit" /\ ~Between(index[t], snapshotHead[t], limit)
         \/ workerPc[t] = "read" /\ TimeAt(index[t]) # localReadyTime[t]
  BY FirstIsThere DEF Collected, Walking, IsReady
<1>2. /\ Waiting \in Nat /\ Waiting <= Size /\ Size < RingSize /\ Size \in Nat /\ RingSize \in Nat
      /\ w <= Waiting /\ Sorted(Line, instBase, Waiting)
      /\ \A n \in 0..Waiting - 1 : Line[n] \in Instance /\ instBase[Line[n]] \in Nat
      /\ instBase \in [Instance -> Nat] /\ lookahead \in Nat /\ currentBaseCycle \in Nat
  BY WaitingFits, LineHolds, RingConstants DEF IInv, LineInv, TypeInv, TypeOK, RingTypeOK
<1>3. /\ d \in 0..RingSize - 1 /\ w \in 0..RingSize - 1
      /\ head \in Index /\ limit \in Index /\ index[t] \in Index
  BY Distances
<1>4. /\ Reader(Line, instBase, Waiting, d, localDoneTime[t], clocked[t], localReadyTime[t])
      /\ d <= w
      /\ workerPc[t] = "read" => d < w
  BY <1>1 DEF IInv, ReaderInv, ReaderAt
<1>5. localDoneTime[t] \in Int /\ localReadyTime[t] \in Int /\ clocked[t] \in SUBSET Instance
  BY DEF TypeInv, TypeOK
<1>6. d < Waiting => instBase[Line[d]] # localReadyTime[t]
  <2>1. CASE workerPc[t] = "read"
    <3>1. Line[d] = element[index[t]]
      BY <2>1, <1>4, ThreadSeesLine DEF IInv
    <3> QED BY <2>1, <3>1, <1>1 DEF TimeAt
  <2>2. CASE workerPc[t] = "limit"
    <3>1. ~Between(index[t], head, limit)
      BY <2>2, <1>1, ComparedAtOnce DEF IsReady
    <3>2. ~(d < w)
      BY <3>1, <1>3, BetweenIsCloser
    <3>3. d = w
      <4> HIDE DEF d, w
      <4> QED BY <3>2, <1>3, <1>4
    <3> SUFFICES ASSUME d < Waiting PROVE instBase[Line[d]] # localReadyTime[t]
      OBVIOUS
    <3>4. PICK edge \in {-1, currentBaseCycle + lookahead} : Edge(Line, instBase, Waiting, w, edge)
      BY DEF IInv, LineInv
    <3> HIDE DEF d, w
    <3>5. d \in 0..Waiting - 1
      BY <1>2, <1>3
    <3>6. instBase[Line[d]] > edge
      BY <3>3, <3>4, <3>5, <1>2, <1>3 DEF Edge
    <3>7. PICK n \in 0..Waiting - 1 : n < d /\ instBase[Line[n]] = localReadyTime[t]
      BY <1>1, <1>4 DEF Reader
    <3>8. instBase[Line[n]] <= edge
      BY <3>3, <3>4, <3>7 DEF Edge
    <3> QED BY <3>4, <3>5, <3>6, <3>7, <3>8, <1>2
  <2> QED BY <2>1, <2>2, <1>1
<1> HIDE DEF d, w
<1>7. d \in 0..Waiting
  BY <1>2, <1>3, <1>4
<1>8. \A n \in 0..Waiting - 1 : Line[n] \in Instance
  BY <1>2
<1>9. Past(Line, instBase, Waiting, d, localReadyTime[t])
  BY <1>1, <1>2, <1>4, <1>5, <1>6, <1>7, <1>8, ReaderHasAll
<1> QED BY <1>9 DEF d

\* It then calls the callbacks.
LEMMA CollectedKeeps ==
    ASSUME RoomToSpare, TypeInv, IInv, CollectInv, NEW t \in Thread, Collected(t)
    PROVE  IInv'
<1>1. /\ UNCHANGED <<scenario, ringVars, serverPc, threadForceExit, localDoneTime, index, snapshotHead>>
      /\ UNCHANGED <<localReadyTime, clocked, calls>>
      /\ workerPc[t] \in {"limit", "read"} /\ workerPc' = [workerPc EXCEPT ![t] = "run"]
      /\ clocked[t] # {}
      /\ todo' = [todo EXCEPT ![t] =
            {c \in Callback : cbThread[c] = t /\ \E e \in clocked[t] : Parent(e) = cbReg[c]}]
  BY FirstIsThere DEF Collected, threadVars, cbVars
<1>2. /\ workerPc'[t] = "run"
      /\ todo'[t] = {c \in Callback : cbThread[c] = t /\ \E e \in clocked[t] : Parent(e) = cbReg[c]}
      /\ \A u \in Thread : u # t => workerPc'[u] = workerPc[u] /\ todo'[u] = todo[u]
  BY <1>1 DEF TypeInv, TypeOK
<1>3. UNCHANGED <<ringVars, serverPc>>
  BY <1>1
<1>4. UNCHANGED <<instBase, head, limit, currentBaseCycle, Line, Waiting, nCycle>>
  BY <1>3, RingStays
<1>5. Past(Line, instBase, Waiting, Off(index[t], head), localReadyTime[t])
  BY HasAll
<1>6. Walking(t) /\ ReaderAt(t)
  BY <1>1 DEF IInv, ReaderInv, Walking
<1>7. ReaderAt(t)'
  BY <1>1, <1>2, <1>4, <1>5, <1>6 DEF ReaderAt, Walking
<1>8. CycleInv' /\ LineInv' /\ ReaderInv'
  BY <1>1, <1>2, <1>3, <1>7, OthersStay
<1>9. LifeInv'
  <2> SUFFICES ASSUME NEW u \in Thread
      PROVE  /\ workerPc'[u] \in {"none", "boot", "init"} => localDoneTime[u] < 0 /\ clocked[u] = {}
             /\ workerPc'[u] = "exited" => threadForceExit[u]
    BY <1>1, <1>4 DEF IInv, LifeInv
  <2>1. CASE u = t
    BY <2>1, <1>2
  <2>2. CASE u # t
    BY <2>2, <1>2 DEF IInv, LifeInv
  <2> QED BY <2>1, <2>2
<1>10. ASSUME NEW c \in Callback
       PROVE  /\ nCycle[cbReg[c]] <= calls[c]
              /\ workerPc'[cbThread[c]] # "exited" =>
                     /\ Due(cbReg[c], calls[c]) > Mark(c)'
                     /\ calls[c] > 0 => Due(cbReg[c], calls[c] - 1) <= Mark(c)'
  <2>1. cbReg[c] \in Registry /\ cbThread[c] \in Thread /\ nCycle[cbReg[c]] <= calls[c]
    BY LockFreeConstants DEF IInv, CallInv
  <2>2. CASE cbThread[c] # t
    <3>1. Mark(c)' = Mark(c)
      BY <2>1, <2>2, <1>1, <1>2 DEF Mark
    <3> QED BY <2>1, <2>2, <3>1, <1>2 DEF IInv, CallInv
  <2>3. CASE cbThread[c] = t
    <3>1. Mark(c) = localDoneTime[t]
      BY <2>3, <1>1 DEF Mark
    <3>2. /\ calls[c] \in Nat /\ nCycle[cbReg[c]] <= calls[c]
          /\ calls[c] < nCycle[cbReg[c]] + Instances(cbReg[c])
          /\ Due(cbReg[c], calls[c]) > localDoneTime[t]
          /\ calls[c] > 0 => Due(cbReg[c], calls[c] - 1) <= localDoneTime[t]
      BY <2>3, <3>1, <1>6, CallInReach
    <3>3. CASE c \in todo'[t]
      <4>1. Mark(c)' = localDoneTime[t]
        BY <2>3, <3>3, <1>1 DEF Mark
      <4> QED BY <2>1, <3>2, <4>1
    <3>4. CASE c \notin todo'[t]
      <4>1. Mark(c)' = localReadyTime[t]
        BY <2>3, <3>4, <1>1, <1>2 DEF Mark
      <4>2. ~\E e \in clocked[t] : Parent(e) = cbReg[c]
        BY <2>3, <3>4, <1>2
      <4>3. Due(cbReg[c], calls[c]) > localReadyTime[t]
        BY <2>1, <3>2, <4>2, <1>1, <1>5, <1>6, DueOrCollected
      <4>4. localReadyTime[t] > localDoneTime[t]
        BY <1>1, <1>6 DEF ReaderAt, Reader
      <4>5. calls[c] > 0 => Due(cbReg[c], calls[c] - 1) <= localReadyTime[t]
        <5> SUFFICES ASSUME calls[c] > 0 PROVE Due(cbReg[c], calls[c] - 1) <= localReadyTime[t]
          OBVIOUS
        <5>1. calls[c] - 1 \in Nat
          BY <3>2
        <5>2. Due(cbReg[c], calls[c] - 1) \in Nat /\ localReadyTime[t] \in Int /\ localDoneTime[t] \in Int
          BY <2>1, <5>1, DueInOrder DEF TypeInv, TypeOK
        <5> QED BY <3>2, <4>4, <5>2
      <4> QED BY <2>1, <4>1, <4>3, <4>5
    <3> QED BY <3>3, <3>4
  <2> QED BY <2>2, <2>3
<1>11. ASSUME NEW u \in Thread, workerPc'[u] = "run", NEW c \in todo'[u]
       PROVE  cbThread[c] = u /\ \E e \in clocked[u] : Parent(e) = cbReg[c]
  <2>1. CASE u = t
    BY <2>1, <1>2, <1>11
  <2>2. CASE u # t
    BY <2>2, <1>2, <1>11 DEF IInv, CallInv
  <2> QED BY <2>1, <2>2
<1>12. CallInv'
  BY <1>1, <1>4, <1>10, <1>11 DEF CallInv
<1> QED BY <1>8, <1>9, <1>12 DEF IInv

\* It calls one of them.
LEMMA CallKeeps ==
    ASSUME TypeInv, IInv, NEW t \in Thread, NEW c \in Callback, RunCallback(t, c)
    PROVE  IInv'
<1>1. /\ UNCHANGED <<scenario, ringVars, serverPc, threadForceExit, localDoneTime, index, snapshotHead>>
      /\ UNCHANGED <<localReadyTime, clocked, workerPc>>
      /\ workerPc[t] = "run" /\ c \in todo[t]
      /\ todo' = [todo EXCEPT ![t] = @ \ {c}]
      /\ calls' = [calls EXCEPT ![c] = @ + 1]
      /\ \E e \in clocked[t] : Parent(e) = cbReg[c]
  BY DEF RunCallback, threadVars
<1>2. /\ todo'[t] = todo[t] \ {c} /\ calls'[c] = calls[c] + 1
      /\ \A u \in Thread : u # t => todo'[u] = todo[u]
      /\ \A b \in Callback : b # c => calls'[b] = calls[b]
  BY <1>1 DEF TypeInv, TypeOK
<1>3. UNCHANGED <<ringVars, serverPc>>
  BY <1>1
<1>4. UNCHANGED <<instBase, head, limit, currentBaseCycle, Line, Waiting, nCycle>>
  BY <1>3, RingStays
<1>5. ReaderAt(t)'
  BY <1>1, <1>4 DEF IInv, ReaderInv, ReaderAt, Walking
<1>6. CycleInv' /\ LineInv' /\ ReaderInv'
  BY <1>1, <1>3, <1>5, OthersStay
<1>7. LifeInv'
  BY <1>1, <1>4 DEF IInv, LifeInv
<1>8. cbThread[c] = t /\ Due(cbReg[c], calls[c]) = localReadyTime[t]
  BY <1>1, CallIsDue
<1>9. ASSUME NEW b \in Callback
       PROVE  /\ nCycle[cbReg[b]] <= calls'[b]
              /\ workerPc[cbThread[b]] # "exited" =>
                     /\ Due(cbReg[b], calls'[b]) > Mark(b)'
                     /\ calls'[b] > 0 => Due(cbReg[b], calls'[b] - 1) <= Mark(b)'
  <2>1. /\ cbReg[b] \in Registry /\ cbThread[b] \in Thread /\ nCycle[cbReg[b]] <= calls[b]
        /\ calls[b] \in Nat /\ nCycle[cbReg[b]] \in Nat
    BY LockFreeConstants DEF IInv, CallInv, TypeInv, TypeOK, RingTypeOK
  <2>2. CASE b # c
    <3>1. b \in todo'[cbThread[b]] <=> b \in todo[cbThread[b]]
      BY <2>1, <2>2, <1>2
    <3>2. Mark(b)' = Mark(b)
      BY <3>1, <1>1 DEF Mark
    <3> QED BY <2>1, <2>2, <3>2, <1>2 DEF IInv, CallInv
  <2>3. CASE b = c
    <3>1. Mark(c)' = localReadyTime[t]
      BY <1>1, <1>2, <1>8 DEF Mark
    <3>2. /\ Due(cbReg[c], calls[c] + 1) = Due(cbReg[c], calls[c]) + InitStep[cbReg[c]]
          /\ Due(cbReg[c], calls[c]) \in Nat /\ InitStep[cbReg[c]] \in Nat \ {0}
      BY <2>1, <2>3, DueInOrder, InstancesSpan
    <3>3. (calls[c] + 1) - 1 = calls[c]
      BY <2>1, <2>3
    <3>4. Due(cbReg[c], calls'[c]) > localReadyTime[t]
      BY <3>2, <1>2, <1>8
    <3>5. Due(cbReg[c], calls'[c] - 1) <= localReadyTime[t]
      BY <3>2, <3>3, <1>2, <1>8
    <3>6. nCycle[cbReg[c]] <= calls'[c]
      BY <2>1, <2>3, <1>2
    <3> QED BY <2>3, <3>1, <3>4, <3>5, <3>6
  <2> QED BY <2>2, <2>3
<1>10. ASSUME NEW u \in Thread, workerPc[u] = "run", NEW b \in todo'[u]
       PROVE  cbThread[b] = u /\ \E e \in clocked[u] : Parent(e) = cbReg[b]
  <2>1. b \in todo[u]
    BY <1>2, <1>10
  <2> QED BY <2>1, <1>10 DEF IInv, CallInv
<1>11. CallInv'
  BY <1>1, <1>4, <1>9, <1>10 DEF CallInv
<1> QED BY <1>6, <1>7, <1>11 DEF IInv

\* It has called all of them, and publishes the time.
LEMMA FinishKeeps ==
    ASSUME TypeInv, IInv, NEW t \in Thread, FinishTime(t)
    PROVE  IInv'
<1>1. /\ UNCHANGED <<scenario, ringVars, serverPc, threadForceExit, index, snapshotHead>>
      /\ UNCHANGED <<localReadyTime, todo, calls>>
      /\ workerPc[t] = "run" /\ todo[t] = {}
      /\ workerPc' = [workerPc EXCEPT ![t] = "head"]
      /\ clocked' = [clocked EXCEPT ![t] = {}]
      /\ localDoneTime' = [localDoneTime EXCEPT ![t] = localReadyTime[t]]
  BY DEF FinishTime, DoneTime, threadVars, cbVars
<1>2. /\ workerPc'[t] = "head" /\ clocked'[t] = {} /\ localDoneTime'[t] = localReadyTime[t]
      /\ \A u \in Thread : u # t => /\ workerPc'[u] = workerPc[u] /\ clocked'[u] = clocked[u]
                                    /\ localDoneTime'[u] = localDoneTime[u]
  BY <1>1 DEF TypeInv, TypeOK
<1>3. UNCHANGED <<ringVars, serverPc>>
  BY <1>1
<1>4. UNCHANGED <<instBase, head, limit, currentBaseCycle, Line, Waiting, nCycle>>
  BY <1>3, RingStays
<1>5. /\ Walking(t) /\ clocked[t] # {}
      /\ Reader(Line, instBase, Waiting, Off(index[t], head), localDoneTime[t], clocked[t],
                localReadyTime[t])
      /\ Past(Line, instBase, Waiting, Off(index[t], head), localReadyTime[t])
      /\ Off(index[t], head) <= Off(limit, head)
      /\ localReadyTime[t] <= currentBaseCycle + lookahead
  BY <1>1 DEF IInv, ReaderInv, ReaderAt, Walking
<1>6. /\ Waiting \in Nat /\ instBase \in [Instance -> Nat] /\ \A n \in 0..Waiting - 1 : Line[n] \in Instance
  BY <1>3, RingStays
<1>7. /\ localDoneTime[t] \in Int /\ localReadyTime[t] \in Int /\ clocked[t] \in SUBSET Instance
      /\ currentBaseCycle \in Nat
  BY DEF TypeInv, TypeOK, RingTypeOK
<1>8. Reader(Line, instBase, Waiting, Off(index[t], head), localReadyTime[t], {}, localReadyTime[t])
  <2>1. Off(index[t], head) \in Nat
    BY Distances
  <2>2. \A n \in 0..Waiting - 1 : Line[n] \in Instance
    BY <1>6
  <2> QED BY <2>1, <2>2, <1>5, <1>6, <1>7, ReaderFinishes
<1>9. ReaderAt(t)'
  BY <1>1, <1>2, <1>4, <1>5, <1>8 DEF ReaderAt
<1>10. CycleInv' /\ LineInv' /\ ReaderInv'
  BY <1>1, <1>2, <1>3, <1>9, OthersStay
<1>11. localReadyTime[t] > localDoneTime[t]
  BY <1>5 DEF Reader
<1>12. LifeInv'
  <2> SUFFICES ASSUME NEW u \in Thread
      PROVE  /\ workerPc'[u] \in {"none", "boot", "init"} => localDoneTime'[u] < 0 /\ clocked'[u] = {}
             /\ workerPc'[u] = "exited" => threadForceExit[u]
             /\ serverPc \in {"pop", "find", "shift"} => localDoneTime'[u] >= currentBaseCycle
    BY <1>1, <1>4 DEF IInv, LifeInv
  <2>1. CASE u = t
    <3>1. serverPc \in {"pop", "find", "shift"} => localDoneTime[t] >= currentBaseCycle
      BY DEF IInv, LifeInv
    <3> QED BY <2>1, <3>1, <1>2, <1>7, <1>11
  <2>2. CASE u # t
    BY <2>2, <1>2 DEF IInv, LifeInv
  <2> QED BY <2>1, <2>2
<1>13. \A c \in Callback : Mark(c)' = Mark(c)
  <2> SUFFICES ASSUME NEW c \in Callback PROVE Mark(c)' = Mark(c)
    OBVIOUS
  <2>1. cbThread[c] \in Thread
    BY LockFreeConstants
  <2>2. CASE cbThread[c] = t
    BY <2>2, <1>1, <1>2 DEF Mark
  <2>3. CASE cbThread[c] # t
    BY <2>1, <2>3, <1>1, <1>2 DEF Mark
  <2> QED BY <2>2, <2>3
<1>14. CallInv'
  <2>1. \A c \in Callback : workerPc'[cbThread[c]] = "exited" <=> workerPc[cbThread[c]] = "exited"
    BY <1>1, <1>2, LockFreeConstants
  <2>2. \A u \in Thread : workerPc'[u] = "run" => workerPc[u] = "run" /\ clocked'[u] = clocked[u]
    BY <1>2
  <2> QED BY <2>1, <2>2, <1>1, <1>4, <1>13 DEF IInv, CallInv
<1> QED BY <1>10, <1>12, <1>14 DEF IInv

-----------------------------------------------------------------------------
(* The loop that collects asks twice whether the first event is ready *)

\* While it is in the window, the server leaves the event at a thread's index
\* there.
LEMMA EventStays ==
    ASSUME TypeInv, IInv, NEW t \in Thread, Walking(t), index' = index,
           Off(index[t], head) < Off(limit, head),
           \/ ClockBegin \/ PopFront \/ InsertBegin \/ InsertShift \/ InsertEnd
           \/ UNCHANGED ringVars
    PROVE  /\ Off(index[t], head') < Off(limit', head')
           /\ TimeAt(index[t])' = TimeAt(index[t])
<1> DEFINE i == index[t]
           d == Off(i, head)
           w == Off(limit, head)
<1>1. /\ i \in Index /\ head \in Index /\ limit \in Index /\ ins \in Index
      /\ d \in 0..RingSize - 1 /\ w \in 0..RingSize - 1 /\ RingSize \in Nat
      /\ element \in [Index -> Instance] /\ instBase \in [Instance -> Nat]
      /\ 0 \in 0..RingSize - 2
  <2>1. Size < RingSize /\ Size \in Nat \ {0} /\ RingSize \in Nat
    BY WaitingFits
  <2> QED BY <2>1, Distances DEF TypeInv, TypeOK, RingTypeOK
<1>2. d < w
  OBVIOUS
<1>3. CASE ClockBegin
  <2>1. UNCHANGED <<head, element, instBase>>
    BY <1>3 DEF ClockBegin, AdvanceTime, instVars
  <2>2. w \in Nat /\ w <= Off(limit', head) /\ Off(limit', head) \in 0..Size
    BY <1>3, WindowOpens
  <2> HIDE DEF d, w
  <2>3. d < Off(limit', head)
    BY <1>1, <1>2, <2>2, WaitingFits
  <2> QED BY <2>1, <2>3 DEF TimeAt, d
<1>4. CASE PopFront
  <2>1. /\ serverPc = "pop" /\ TimeAt(head) = currentBaseCycle
        /\ head' = Succ(head) /\ UNCHANGED <<element, limit>>
        /\ \A e \in Instance : e # element[head] => instBase'[e] = instBase[e]
    BY <1>4, <1>1 DEF PopFront, instVars
  <2>2. 0 \in 0..Waiting - 1 /\ Line[0] = element[head]
    BY <2>1, HeadIsFirst
  <2>3. i # head
    <3> SUFFICES ASSUME i = head PROVE FALSE
      OBVIOUS
    <3>1. d = 0
      BY <1>1, Round
    <3>2. Reader(Line, instBase, Waiting, d, localDoneTime[t], clocked[t], localReadyTime[t])
      BY DEF IInv, ReaderInv, ReaderAt
    <3> HIDE DEF d
    <3>3. instBase[Line[0]] > localDoneTime[t]
      BY <2>2, <3>1, <3>2 DEF Reader
    <3>4. localDoneTime[t] >= currentBaseCycle
      BY <2>1 DEF IInv, LifeInv
    <3> QED BY <2>1, <2>2, <3>3, <3>4 DEF TimeAt, TypeInv, TypeOK, RingTypeOK
  <2>4. limit # head
    <3>1. limit = head => w = 0
      BY <1>1, Round
    <3> QED BY <3>1, <1>1, <1>2
  <2>5. Off(i, head') = d - 1 /\ Off(limit', head') = w - 1
    BY <1>1, <2>1, <2>3, <2>4, StepOn
  <2>6. element[i] # element[head]
    <3>1. d \in 0..Waiting - 1 /\ Line[d] = element[i]
      BY ThreadSeesLine DEF IInv
    <3>2. d # 0
      BY <1>1, <2>3, Round
    <3> HIDE DEF d, i
    <3>3. Line[d] # Line[0]
      BY <2>2, <3>1, <3>2 DEF IInv, LineInv, Complete
    <3> QED BY <3>1, <3>3, <2>2
  <2> HIDE DEF d, w
  <2>7. Off(i, head') < Off(limit', head')
    BY <1>1, <1>2, <2>5
  <2>8. element[i] \in Instance
    BY <1>1
  <2> QED BY <2>1, <2>6, <2>7, <2>8 DEF TimeAt
<1>5. CASE InsertBegin
  <2>1. Between(i, head, limit)
    BY <1>1, BetweenIsCloser
  <2>2. UNCHANGED <<head, limit, instBase>>
    BY <1>5 DEF InsertBegin, instVars
  <2>3. element'[i] = element[i]
    BY <1>1, <1>5, <2>1 DEF InsertBegin
  <2> QED BY <2>2, <2>3 DEF TimeAt
<1>6. CASE InsertShift
  <2>1. /\ UNCHANGED <<head, limit, instBase>> /\ serverPc = "shift"
        /\ element' = [element EXCEPT ![Succ(ins)] = prev]
    BY <1>6 DEF InsertShift, instVars
  <2> DEFINE j == Off(ins, head)
  <2>2. w <= j /\ j <= Size - 1 /\ j \in 0..RingSize - 1 /\ Size < RingSize /\ Size \in Nat
    BY <2>1, Distances, WaitingFits DEF IInv, LineInv
  <2>3. Off(Succ(ins), head) = IF j = RingSize - 1 THEN 0 ELSE j + 1
    BY <1>1, StepOn
  <2> HIDE DEF d, w, j
  <2>4. Off(Succ(ins), head) # d
    BY <1>1, <1>2, <2>2, <2>3
  <2>5. element'[i] = element[i]
    BY <1>1, <2>1, <2>4 DEF d
  <2> QED BY <2>1, <2>5 DEF TimeAt
<1>7. CASE InsertEnd
  BY <1>7 DEF InsertEnd, instVars, TimeAt
<1>8. CASE UNCHANGED ringVars
  BY <1>8 DEF ringVars, instVars, indexVars, TimeAt
<1> QED BY <1>3, <1>4, <1>5, <1>6, <1>7, <1>8

\* No step of the server, and none that leaves the ring and the threads alone,
\* takes it away.
LEMMA ServerKeepsOpening ==
    ASSUME TypeInv, IInv, CollectInv,
           Server \/ ClockBegin \/ StopClockServer \/ InitAgain \/ UNCHANGED vars
    PROVE  CollectInv'
<1>1. /\ UNCHANGED <<index, localReadyTime, collecting, clocked>>
      /\ \A t \in Thread : workerPc'[t] # workerPc[t] => workerPc[t] = "none" /\ workerPc'[t] = "boot"
  BY DEF Server, CreatePthread, DestroyPthread, PthreadCreated, PthreadJoined, Barrier, AddEventsAgain,
         ClockBegin, StopClockServer, InitAgain, vars, workerVars, workVars, TypeInv, TypeOK
<1>2. \/ ClockBegin \/ PopFront \/ InsertBegin \/ InsertShift \/ InsertEnd
      \/ UNCHANGED ringVars
  BY DEF Server, CreatePthread, DestroyPthread, PthreadCreated, PthreadJoined, Barrier, AddEventsAgain,
         StopClockServer, InitAgain, vars, ReInsert, ClockEnd
<1> SUFFICES ASSUME NEW t \in Thread
             PROVE  /\ collecting'[t] => workerPc'[t] \in {"head", "limit", "read"}
                    /\ workerPc'[t] # "run" /\ ~collecting'[t] => clocked'[t] = {}
                    /\ Opening(t)' =>
                          /\ Off(index'[t], head') < Off(limit', head')
                          /\ TimeAt(index[t])' = localReadyTime'[t]
  BY DEF CollectInv
<1>3. /\ collecting[t] => workerPc[t] \in {"head", "limit", "read"}
      /\ workerPc[t] # "run" /\ ~collecting[t] => clocked[t] = {}
      /\ Opening(t) =>
             /\ Off(index[t], head) < Off(limit, head)
             /\ TimeAt(index[t]) = localReadyTime[t]
  BY DEF CollectInv
<1>4. ASSUME Opening(t)
      PROVE  Off(index[t], head') < Off(limit', head') /\ TimeAt(index[t])' = TimeAt(index[t])
  <2>1. Walking(t) /\ index' = index /\ Off(index[t], head) < Off(limit, head)
    BY <1>1, <1>3, <1>4 DEF Opening, Walking
  <2> QED BY <1>2, <2>1, EventStays
<1> QED BY <1>1, <1>3, <1>4 DEF Opening

\* Nor does a step of a thread.
LEMMA ThreadKeepsOpening ==
    ASSUME TypeInv, IInv, CollectInv, NEW t \in Thread, Worker(t)
    PROVE  CollectInv'
<1>1. UNCHANGED ringVars
  BY DEF Worker, ThreadStart, ThreadInit, SnapshotHead, Ready, Wait, FirstTime, Collect, Collected,
         RunCallback, FinishTime
<1>2. UNCHANGED <<head, limit, element, instBase>>
  BY <1>1 DEF ringVars, instVars, indexVars
<1> DEFINE Good(u, pc, coll, got, i, ready) ==
              /\ coll => pc \in {"head", "limit", "read"}
              /\ pc # "run" /\ ~coll => got = {}
              /\ coll /\ got = {} => Off(i, head) < Off(limit, head) /\ TimeAt(i) = ready
<1>3. ASSUME NEW u \in Thread
      PROVE  Good(u, workerPc[u], collecting[u], clocked[u], index[u], localReadyTime[u])
  BY DEF CollectInv, Opening
<1> SUFFICES ASSUME NEW u \in Thread
             PROVE  Good(u, workerPc'[u], collecting'[u], clocked'[u], index'[u], localReadyTime'[u])
  BY <1>2 DEF CollectInv, Opening, TimeAt
<1>4. CASE u # t
  <2>1. /\ workerPc'[u] = workerPc[u] /\ collecting'[u] = collecting[u] /\ clocked'[u] = clocked[u]
        /\ index'[u] = index[u] /\ localReadyTime'[u] = localReadyTime[u]
    BY <1>4 DEF Worker, ThreadStart, ThreadInit, SnapshotHead, Ready, Wait, FirstTime, Collect, Collected,
         RunCallback, FinishTime, workVars, TypeInv, TypeOK
  <2> QED BY <2>1, <1>3
<1>5. CASE u = t
  <2>1. CASE ThreadStart(t) \/ SnapshotHead(t) \/ Ready(t) \/ Wait(t)
    <3>1. /\ workerPc[t] # "run" /\ workerPc'[t] # "run"
          /\ collecting[t] => workerPc'[t] \in {"head", "limit", "read"}
          /\ UNCHANGED <<collecting, clocked, index, localReadyTime>>
      BY <2>1, <1>3 DEF ThreadStart, SnapshotHead, Ready, Wait, workVars, TypeInv, TypeOK
    <3> QED BY <3>1, <1>3, <1>5
  <2>2. CASE ThreadInit(t)
    <3>1. /\ workerPc[t] = "init" /\ workerPc'[t] = "head"
          /\ UNCHANGED <<collecting, clocked, localReadyTime>>
      BY <2>2 DEF ThreadInit, workVars, TypeInv, TypeOK
    <3> QED BY <3>1, <1>3, <1>5
  <2>3. CASE FirstTime(t)
    <3>1. /\ workerPc[t] = "read" /\ workerPc'[t] = "head" /\ collecting'[t]
          /\ localReadyTime'[t] = TimeAt(index[t]) /\ UNCHANGED <<clocked, index>>
      BY <2>3 DEF FirstTime, TypeInv, TypeOK
    <3>2. Off(index[t], head) < Off(limit, head)
      BY <3>1 DEF IInv, ReaderInv, ReaderAt
    <3> QED BY <3>1, <3>2, <1>5
  <2>4. CASE Collect(t)
    <3>1. /\ workerPc'[t] = "head" /\ collecting'[t] /\ clocked'[t] # {}
      BY <2>4 DEF Collect, TypeInv, TypeOK
    <3> QED BY <3>1, <1>5
  <2>5. CASE Collected(t)
    <3>1. workerPc'[t] = "run" /\ ~collecting'[t]
      BY <2>5 DEF Collected, TypeInv, TypeOK
    <3> QED BY <3>1, <1>5
  <2>6. CASE \E c \in Callback : RunCallback(t, c)
    <3>1. UNCHANGED <<workerPc, collecting, clocked, index, localReadyTime>>
      BY <2>6 DEF RunCallback
    <3> QED BY <3>1, <1>3, <1>5
  <2>7. CASE FinishTime(t)
    <3>1. /\ workerPc[t] = "run" /\ clocked'[t] = {} /\ UNCHANGED collecting
      BY <2>7 DEF FinishTime, TypeInv, TypeOK
    <3>2. ~collecting[t]
      BY <3>1, <1>3
    <3> QED BY <3>1, <3>2, <1>5
  <2> QED BY <2>1, <2>2, <2>3, <2>4, <2>5, <2>6, <2>7 DEF Worker
<1> QED BY <1>4, <1>5

\* No step of a thread disturbs the invariant, nor does any other step as long
\* as the frequencies do not change.
LEMMA StepKeeps ==
    ASSUME RoomToSpare, TypeInv, IFixed, [Next]_vars
    PROVE  IFixed'
<1> SUFFICES ASSUME FixedPeriods' PROVE IInv' /\ CollectInv'
  BY DEF IFixed
<1>1. scenario' = scenario
  BY DEF Next, Server, AddEventsAgain, CreatePthread, DestroyPthread, PthreadCreated, PthreadJoined, Barrier,
         ClockBegin, StopClockServer, InitAgain, Finished, Worker, ThreadStart, ThreadInit, SnapshotHead,
         Ready, Wait, FirstTime, Collect, Collected, RunCallback, FinishTime, SetDomainFrequency, vars
<1>2. FixedPeriods /\ IInv /\ CollectInv
  BY <1>1 DEF FixedPeriods, IFixed
<1>3. CASE Server \/ ClockBegin \/ StopClockServer \/ InitAgain
  BY <1>2, <1>3, ServerKeeps, ServerKeepsOpening
<1>4. ASSUME NEW t \in Thread, Worker(t) PROVE IInv'
  <2>1. CASE ThreadInit(t)
    BY <2>1, <1>2, ThreadInitKeeps
  <2>2. CASE ThreadStart(t) \/ SnapshotHead(t) \/ Ready(t)
    <3>1. ThreadStart(t) \/ SnapshotHead(t) \/ Ready(t) \/ (Wait(t) /\ workerPc'[t] = "head")
      BY <2>2
    <3> QED BY <3>1, <1>2, ThreadLooks
  <2>3. CASE Wait(t)
    BY <2>3, <1>2, ThreadLooks, ThreadExits
  <2>4. CASE Collect(t)
    BY <2>4, <1>2, ThreadCollects
  <2>5. CASE Collected(t)
    BY <2>5, <1>2, CollectedKeeps
  <2>6. CASE \E c \in Callback : RunCallback(t, c)
    BY <2>6, <1>2, CallKeeps
  <2>7. CASE FinishTime(t)
    BY <2>7, <1>2, FinishKeeps
  <2>8. CASE FirstTime(t)
    <3>1. clocked[t] = {}
      BY <2>8, <1>2 DEF FirstTime, CollectInv
    <3> QED BY <2>8, <3>1, <1>2, ThreadOpens
  <2> QED BY <2>1, <2>2, <2>3, <2>4, <2>5, <2>6, <2>7, <2>8, <1>4 DEF Worker
<1>5. ASSUME NEW t \in Thread, NEW r \in Registry, NEW s \in scenario.steps[r], SetDomainFrequency(t, r, s)
      PROVE  FALSE
  <2>1. s = InitStep[r]
    BY <1>2 DEF FixedPeriods
  <2>2. nStep[r] = InitStep[r]
    BY <1>2 DEF IInv, CycleInv
  <2> QED BY <2>1, <2>2, <1>5 DEF SetDomainFrequency
<1>6. ASSUME UNCHANGED vars PROVE IInv'
  <2>1. /\ UNCHANGED <<ringVars, serverPc, instBase, head, limit, currentBaseCycle, nCycle>>
        /\ UNCHANGED <<workerPc, threadForceExit, localDoneTime, index, snapshotHead>>
        /\ UNCHANGED <<localReadyTime, clocked, todo, calls, scenario>>
    BY <1>6 DEF vars, ringVars, registryVars, instVars, indexVars, workerVars, threadVars, workVars, cbVars
  <2>2. Line' = Line /\ Waiting' = Waiting /\ CycleInv' /\ LineInv'
    BY <2>1, <1>2, RingUnmoved DEF IInv
  <2>3. ReaderInv'
    BY <2>1, <2>2, <1>2 DEF IInv, ReaderInv, ReaderAt, Walking
  <2>4. LifeInv' /\ CallInv'
    BY <2>1, <1>2 DEF IInv, LifeInv, CallInv, Mark
  <2> QED BY <2>2, <2>3, <2>4 DEF IInv
<1>7. ASSUME NEW t \in Thread, Worker(t) PROVE CollectInv'
  BY <1>2, <1>7, ThreadKeepsOpening
<1>8. CASE UNCHANGED vars
  <2>1. CollectInv'
    BY <1>2, <1>8, ServerKeepsOpening
  <2> QED BY <1>6, <1>8, <2>1
<1> QED BY <1>3, <1>4, <1>5, <1>6, <1>7, <1>8 DEF Next, Finished

\* The invariant holds in every state, as long as the frequencies do not change.
LEMMA InvKept ==
    ASSUME RoomToSpare, UninitBlocks
    PROVE  Spec => [](TypeInv /\ IFixed)
<1>1. Init => TypeInv /\ IFixed
  BY InitTypes, InitInv DEF IFixed, CollectInv, Opening, Init
<1>2. TypeInv /\ IFixed /\ [Next]_vars => (TypeInv /\ IFixed)'
  BY StepTypes, StepKeeps
<1> QED BY <1>1, <1>2, PTL DEF Spec

-----------------------------------------------------------------------------
(* The theorems *)

\* What the workers wait for is never late.
LEMMA NextIsNotPast ==
    ASSUME TypeInv, IInv, NEW c \in Callback
    PROVE  Due(cbReg[c], calls[c]) \in Nat /\ Due(cbReg[c], calls[c]) >= currentBaseCycle
<1>1. PICK r \in Registry : r = cbReg[c]
  BY LockFreeConstants
<1>2. /\ calls[c] \in Nat /\ nCycle[r] \in Nat /\ Instances(r) \in Nat \ {0} /\ currentBaseCycle \in Nat
      /\ nCycle[r] <= calls[c]
  BY <1>1, InstancesSpan DEF TypeInv, TypeOK, RingTypeOK, IInv, CallInv
<1>3. nCycle[r] \in nCycle[r]..nCycle[r] + Instances(r) - 1
  BY <1>2
<1>4. PICK k \in 1..Instances(r) : instCycle[<<r, k>>] = nCycle[r]
  BY <1>3 DEF IInv, CycleInv, Successive
<1>5. <<r, k>> \in Instance /\ Parent(<<r, k>>) = r
  BY PairIsInstance
<1>6. Due(r, nCycle[r]) >= currentBaseCycle
  BY <1>4, <1>5 DEF IInv, CycleInv, LineInv
<1>7. Due(r, nCycle[r]) \in Nat /\ Due(r, calls[c]) \in Nat /\ Due(r, nCycle[r]) <= Due(r, calls[c])
  BY <1>2, DueTellsCycle
<1> QED BY <1>1, <1>2, <1>6, <1>7

\* Between two insertions, the line is what the ring holds.
LEMMA LineInOrder ==
    ASSUME TypeInv, IInv
    PROVE  RingInOrder
<1> SUFFICES ASSUME serverPc \in {"idle", "wait"}
    PROVE  LET at == [n \in 0..Cardinality(Instance) - 1 |-> (head + n) % RingSize]
           IN  /\ {element[at[n]] : n \in DOMAIN at} = Instance
               /\ tail = (head + Cardinality(Instance)) % RingSize
               /\ \A m, n \in DOMAIN at : m < n => TimeAt(at[m]) <= TimeAt(at[n])
  BY DEF RingInOrder
<1> DEFINE at == [n \in 0..Cardinality(Instance) - 1 |-> (head + n) % RingSize]
<1>1. /\ Size \in Nat \ {0} /\ Size < RingSize /\ RingSize \in Nat /\ Size = Cardinality(Instance)
      /\ head \in Index
  BY InstancesFit, Distances DEF Size
<1>2. Waiting = Size /\ Members = Instance
  BY DEF Waiting, Members
<1>3. \A n \in 0..Size - 1 : at[n] = Pos(head, n) /\ element[at[n]] = Line[n]
  <2> TAKE n \in 0..Size - 1
  <2>1. n \in 0..RingSize - 1 /\ n \in 0..Waiting - 1
    BY <1>1, <1>2
  <2>2. (head + n) % RingSize = Pos(head, n)
    BY <2>1, <1>1, Round
  <2>3. element[Pos(head, n)] = Line[n]
    BY <2>1, LineIsRing
  <2> QED BY <2>2, <2>3, <1>1
<1>4. DOMAIN at = 0..Size - 1
  BY <1>1
<1> HIDE DEF at
<1>5. Complete(Line, Instance, Size) /\ Sorted(Line, instBase, Size) /\ tail = Pos(head, Size)
  BY <1>2 DEF IInv, LineInv
<1>6. {element[at[n]] : n \in DOMAIN at} = Instance
  <2>1. ASSUME NEW n \in DOMAIN at PROVE element[at[n]] \in Instance
    BY <2>1, <1>3, <1>4, <1>5 DEF Complete
  <2>2. ASSUME NEW e \in Instance PROVE \E n \in DOMAIN at : e = element[at[n]]
    BY <2>2, <1>3, <1>4, <1>5 DEF Complete
  <2> QED BY <2>1, <2>2
<1>7. tail = (head + Cardinality(Instance)) % RingSize
  <2>1. Size \in 0..RingSize - 1
    BY <1>1
  <2> QED BY <2>1, <1>1, <1>5, Round
<1>8. ASSUME NEW m \in DOMAIN at, NEW n \in DOMAIN at, m < n PROVE TimeAt(at[m]) <= TimeAt(at[n])
  <2>1. m \in 0..Size - 1 /\ n \in 0..Size - 1 /\ m <= n
    BY <1>4, <1>8, <1>1
  <2>2. instBase[Line[m]] <= instBase[Line[n]]
    BY <2>1, <1>5 DEF Sorted
  <2> QED BY <2>1, <2>2, <1>3 DEF TimeAt
<1> QED BY <1>6, <1>7, <1>8 DEF at

\* As long as the frequencies do not change, what a worker reads is inside the
\* lookahead window and no element that the server is moving, and the ring is
\* in order of time whenever the server waits.
THEOREM ReadsInside ==
    ASSUME RoomToSpare, UninitBlocks
    PROVE  Spec => [](FixedPeriods => ReadsInsideWindow)
<1>1. ASSUME TypeInv, IInv PROVE ReadsInsideWindow
  <2>1. TypeOK /\ RingInOrder
    BY <1>1, LineInOrder DEF TypeInv
  <2>2. ASSUME NEW t \in Thread, workerPc[t] = "read"
        PROVE  /\ Between(index[t], head, limit)
               /\ serverPc = "shift" => index[t] # ins /\ index[t] # Succ(ins)
    <3> DEFINE d == Off(index[t], head)
               j == Off(ins, head)
    <3>1. index[t] \in Index /\ head \in Index /\ limit \in Index /\ ins \in Index
      BY <1>1, Distances
    <3>2. d < Off(limit, head)
      BY <1>1, <2>2 DEF IInv, ReaderInv, ReaderAt
    <3>3. Between(index[t], head, limit)
      BY <3>1, <3>2, BetweenIsCloser
    <3>4. ASSUME serverPc = "shift" PROVE index[t] # ins /\ index[t] # Succ(ins)
      <4>1. d < j /\ j <= Size - 1 /\ d \in 0..RingSize - 1 /\ j \in 0..RingSize - 1
        BY <1>1, <3>2, <3>4, ThreadSeesLine, Distances DEF IInv, LineInv
      <4>2. Size < RingSize /\ Size \in Nat /\ RingSize \in Nat /\ 0 \in 0..RingSize - 2
        <5>1. Size < RingSize /\ Size \in Nat \ {0} /\ RingSize \in Nat
          BY WaitingFits
        <5> QED BY <5>1
      <4>3. Off(Succ(ins), head) = IF j = RingSize - 1 THEN 0 ELSE j + 1
        BY <3>1, <4>2, StepOn
      <4>4. Off(Succ(ins), head) # d /\ j # d
        <5> HIDE DEF d, j
        <5> QED BY <4>1, <4>2, <4>3
      <4> QED BY <4>4
    <3> QED BY <3>3, <3>4
  <2> QED BY <2>1, <2>2 DEF ReadsInsideWindow
<1>2. TypeInv /\ IFixed => (FixedPeriods => ReadsInsideWindow)
  BY <1>1 DEF IFixed
<1> QED BY <1>2, InvKept, PTL

\* Each callback is called once for every cycle, with the number of that cycle,
\* and at most lookahead base cycles before the next call of any other.
THEOREM CalledInOrder ==
    ASSUME RoomToSpare, UninitBlocks
    PROVE  Spec => CallbacksInOrder
<1> DEFINE InOrder == \A c \in Callback : calls'[c] > calls[c] =>
                         /\ currentCycle'[c] = calls[c]
                         /\ \A b \in Callback : DueTime(c) <= DueTime(b) + lookahead
<1>1. ASSUME TypeInv, IFixed, [Next]_vars, FixedPeriods PROVE InOrder
  <2> SUFFICES ASSUME NEW c \in Callback, calls'[c] > calls[c]
               PROVE  /\ currentCycle'[c] = calls[c]
                      /\ \A b \in Callback : DueTime(c) <= DueTime(b) + lookahead
    OBVIOUS
  <2>1. IInv
    BY <1>1 DEF IFixed
  <2>2. calls[c] \in Nat
    BY <1>1 DEF TypeInv, TypeOK
  <2>3. calls' # calls
    BY <2>2
  <2>4. PICK t \in Thread, a \in Callback : RunCallback(t, a)
    BY <1>1, <2>3 DEF Next, Server, AddEventsAgain, CreatePthread, DestroyPthread, PthreadCreated,
         PthreadJoined, Barrier, ClockBegin, StopClockServer, InitAgain, Finished, Worker, ThreadStart,
         ThreadInit, SnapshotHead, Ready, Wait, FirstTime, Collect, Collected, FinishTime,
         SetDomainFrequency,
         vars, cbVars
  <2>5. a = c
    <3>1. calls' = [calls EXCEPT ![a] = @ + 1]
      BY <2>4 DEF RunCallback
    <3>2. a # c => calls'[c] = calls[c]
      BY <3>1, <1>1 DEF TypeInv, TypeOK
    <3> QED BY <3>2, <2>2
  <2>6. PICK e \in clocked[t] :
           Parent(e) = cbReg[c] /\ currentCycle' = [currentCycle EXCEPT ![c] = instCycle[e]]
    BY <2>4, <2>5 DEF RunCallback
  <2>7. workerPc[t] = "run" /\ c \in todo[t]
    BY <2>4, <2>5 DEF RunCallback
  <2>8. instCycle[e] = calls[c] /\ Due(cbReg[c], calls[c]) = localReadyTime[t]
    BY <1>1, <2>1, <2>6, <2>7, CallIsDue
  <2>9. currentCycle'[c] = calls[c]
    BY <1>1, <2>6, <2>8 DEF TypeInv, TypeOK
  <2>10. localReadyTime[t] <= currentBaseCycle + lookahead
    BY <2>1, <2>6, <2>7 DEF IInv, ReaderInv, ReaderAt, Walking
  <2>11. ASSUME NEW b \in Callback PROVE DueTime(c) <= DueTime(b) + lookahead
    <3>1. Due(cbReg[b], calls[b]) \in Nat /\ Due(cbReg[b], calls[b]) >= currentBaseCycle
      BY <1>1, <2>1, NextIsNotPast
    <3>2. DueTime(b) = Due(cbReg[b], calls[b]) /\ DueTime(c) = Due(cbReg[c], calls[c])
      BY DEF DueTime, Due
    <3>3. localReadyTime[t] \in Int /\ currentBaseCycle \in Nat /\ lookahead \in Nat
      BY <1>1, RingConstants DEF TypeInv, TypeOK, RingTypeOK
    <3> QED BY <3>1, <3>2, <3>3, <2>8, <2>10
  <2> QED BY <2>9, <2>11
<1>2. ASSUME TypeInv, IFixed, [Next]_vars PROVE [FixedPeriods => InOrder]_vars
  BY <1>1, <1>2
<1> HIDE DEF InOrder
<1>3. Spec => [][FixedPeriods => InOrder]_vars
  BY <1>2, InvKept, PTL DEF Spec
<1> QED BY <1>3 DEF CallbacksInOrder, InOrder

\* Without a change of frequency and a second initialisation, none of the
\* VERIFYXs and ASSERTs of the ring ends the program.
THEOREM AssertsHold ==
    ASSUME RoomToSpare, UninitBlocks
    PROVE  Spec => [](FixedPeriods /\ ~scenario.again => serverPc # "failed")
<1>1. TypeInv /\ IFixed => (FixedPeriods /\ ~scenario.again => serverPc # "failed")
  BY DEF IFixed, IInv, LifeInv
<1> QED BY <1>1, InvKept, PTL

\* "The snapshot is necessary to guarantee an atomic comparison": is_ready reads
\* head and limit one after the other, but its answer is the one for both.
THEOREM ComparisonIsAtomic ==
    ASSUME RoomToSpare, UninitBlocks
    PROVE  Spec => [](FixedPeriods => \A t \in Thread : workerPc[t] = "limit" =>
                        (IsReady(t) <=> Between(index[t], head, limit)))
<1> DEFINE Atomic == \A t \in Thread : workerPc[t] = "limit" =>
                        (IsReady(t) <=> Between(index[t], head, limit))
<1>1. TypeInv /\ IFixed => (FixedPeriods => Atomic)
  BY ComparedAtOnce DEF IFixed
<1> HIDE DEF Atomic
<1>2. Spec => [](FixedPeriods => Atomic)
  BY <1>1, InvKept, PTL
<1> QED BY <1>2 DEF Atomic

-----------------------------------------------------------------------------
(* The dynamic server on the same ring: its constants and variables that the *)
(* lock-free server has not got, and what it has of them.                    *)

CONSTANTS Pthread, Main, NTasks, cbTask, Variants, MaxTime

VARIABLES variant, stopping, workPc, task, thread, seed, taskq, exiting, nextime

D == INSTANCE DynamicClockServer

\* The server is not stopped under the AlwaysEarliest scheduler, which does not
\* survive it.
EarliestRunsOn == \A v \in Variants : v.algorithm = "AlwaysEarliest" => ~v.stops

In(q, k) == \E i \in DOMAIN q : q[i] = k

NoneTwice(q) == \A i, j \in DOMAIN q : q[i] = q[j] => i = j

\* A task has one thread at most.
Apart(tasks) == \A p, q \in D!Actor : p # q /\ tasks[p] = tasks[q] => tasks[p] = D!NoTask

\* The tasks that no thread has are in the queue, once.
Queued(tasks, q) ==
    /\ NoneTwice(q)
    /\ \A k \in D!Task : (\E p \in D!Actor : tasks[p] = k) <=> ~In(q, k)

DynamicInv ==
    /\ D!TypeOK
    /\ variant.algorithm = "AlwaysEarliest" =>
          exiting = D!NoTask /\ serverPc \notin {"kill", "join", "next", "off"}
    /\ D!QueuedOnce =>
          /\ Apart(task)
          /\ variant.algorithm = "AlwaysEarliest" => Queued(task, taskq)

\* The ring is the same one.
LEMMA SameRing ==
    /\ D!RingInit <=> RingInit
    /\ D!RingTypeOK <=> RingTypeOK
    /\ D!RingTypeOK' <=> RingTypeOK'
    /\ D!AdvanceTime <=> AdvanceTime
    /\ D!ReInsert <=> ReInsert
    /\ D!Instance = Instance /\ D!Index = Index
    /\ \A i : D!TimeAt(i) = TimeAt(i)
    /\ \A i, from, to : D!Between(i, from, to) <=> Between(i, from, to)
<1>1. D!Instance = Instance /\ D!Index = Index
  BY DEF D!Instance, Instance, D!Instances, Instances, D!Index, Index
<1>2. /\ \A i : D!TimeAt(i) = TimeAt(i)
      /\ \A i, from, to : D!Between(i, from, to) <=> Between(i, from, to)
  BY DEF D!TimeAt, TimeAt, D!Between, Between
<1>3. (D!RingTypeOK <=> RingTypeOK) /\ (D!RingTypeOK' <=> RingTypeOK')
  BY <1>1 DEF D!RingTypeOK, RingTypeOK
<1>4. \A t : D!FirstAfter(t) = FirstAfter(t)
  BY DEF D!FirstAfter, FirstAfter, D!TimeAt, TimeAt, D!Between, Between
<1>5. D!AdvanceTime <=> AdvanceTime
  BY <1>4 DEF D!AdvanceTime, AdvanceTime, D!TimeAt, TimeAt, D!WindowEnd, WindowEnd,
              D!registryVars, registryVars, D!instVars, instVars, D!insertVars, insertVars
<1>6. D!ReInsert <=> ReInsert
  <2>1. D!PopFront <=> PopFront
    BY DEF D!PopFront, PopFront, D!TimeAt, TimeAt, D!Succ, Succ, D!IsOldest, IsOldest, D!Parent,
           Parent, D!Stride, Stride, D!Instances, Instances, D!instVars, instVars
  <2>2. D!InsertBegin <=> InsertBegin
    BY <1>2, <1>4 DEF D!InsertBegin, InsertBegin, D!registryVars, registryVars, D!instVars, instVars
  <2>3. D!InsertShift <=> InsertShift
    BY <1>2 DEF D!InsertShift, InsertShift, D!Displaced, Displaced, D!Succ, Succ, D!registryVars,
                registryVars, D!instVars, instVars
  <2>4. D!InsertEnd <=> InsertEnd
    BY <1>2 DEF D!InsertEnd, InsertEnd, D!Succ, Succ, D!registryVars, registryVars, D!instVars,
                instVars, D!insertVars, insertVars
  <2>5. D!ClockEnd <=> ClockEnd
    BY <1>2 DEF D!ClockEnd, ClockEnd, D!ringVars, ringVars, D!registryVars, registryVars, D!instVars,
                instVars, D!insertVars, insertVars, D!indexVars, indexVars
  <2> QED BY <2>1, <2>2, <2>3, <2>4, <2>5 DEF D!ReInsert, ReInsert
<1>7. D!RingInit <=> RingInit
  <2>1. \A e : D!FirstBase(e) = FirstBase(e)
    BY DEF D!FirstBase, FirstBase, D!Parent, Parent
  <2>2. \A d, e : D!InsertedBefore(d, e) <=> InsertedBefore(d, e)
    BY <2>1 DEF D!InsertedBefore, InsertedBefore, D!PlaceOf, PlaceOf, D!Parent, Parent
  <2>0. \A S : D!Cardinality(S) = Cardinality(S)
    BY DEF D!Cardinality, Cardinality
  <2>3. ASSUME NEW e PROVE D!Rank(e) = Rank(e)
    <3>1. {d \in D!Instance : D!InsertedBefore(d, e)} = {d \in Instance : InsertedBefore(d, e)}
      BY <1>1, <2>2
    <3> QED BY <2>0, <3>1 DEF D!Rank, Rank
  <2>4. ASSUME NEW n PROVE D!InitialEvent(n) = InitialEvent(n)
    BY <1>1, <2>3 DEF D!InitialEvent, InitialEvent
  <2>5. [e \in D!Instance |-> D!FirstBase(e)] = [e \in Instance |-> FirstBase(e)]
    BY <1>1, <2>1
  <2>6. [i \in D!Index |-> D!InitialEvent(IF i < Cardinality(D!Instance) THEN i ELSE 0)] =
           [i \in Index |-> InitialEvent(IF i < Cardinality(Instance) THEN i ELSE 0)]
    BY <1>1, <2>0, <2>4
  <2>7. [e \in D!Instance |-> e[2] - 1] = [e \in Instance |-> e[2] - 1]
    BY <1>1
  <2> QED BY <1>1, <2>0, <2>5, <2>6, <2>7 DEF D!RingInit, RingInit
<1> QED BY <1>1, <1>2, <1>3, <1>5, <1>6, <1>7

\* A sequence after another.
LEMMA Joined ==
    ASSUME NEW S, NEW s \in Seq(S), NEW t \in Seq(S)
    PROVE  s \o t \in Seq(S) /\ Len(s \o t) = Len(s) + Len(t)
OBVIOUS

\* A task put into a queue.
LEMMA PutIn ==
    ASSUME NEW S, NEW q \in Seq(S), NEW k \in S, NEW i \in 1..Len(q) + 1
    PROVE  /\ InsertAt(q, i, k) \in Seq(S) /\ InsertAt(q, i, k) # <<>>
           /\ \A j : In(InsertAt(q, i, k), j) <=> j = k \/ In(q, j)
           /\ NoneTwice(q) /\ ~In(q, k) => NoneTwice(InsertAt(q, i, k))
<1> DEFINE new == InsertAt(q, i, k)
           from(m) == IF m < i THEN m ELSE m - 1
<1>1. /\ new \in Seq(S) /\ Len(new) = Len(q) + 1
      /\ \A m \in 1..Len(q) + 1 : new[m] = IF m = i THEN k ELSE q[from(m)]
  <2>1. SubSeq(q, 1, i - 1) \in Seq(S) /\ Len(SubSeq(q, 1, i - 1)) = i - 1
    OBVIOUS
  <2>2. SubSeq(q, i, Len(q)) \in Seq(S) /\ Len(SubSeq(q, i, Len(q))) = Len(q) - i + 1
    OBVIOUS
  <2>3. \A m \in 1..i - 1 : SubSeq(q, 1, i - 1)[m] = q[m]
    OBVIOUS
  <2>4. \A m \in 1..Len(q) - i + 1 : SubSeq(q, i, Len(q))[m] = q[m + i - 1]
    OBVIOUS
  <2>5. new = SubSeq(q, 1, i - 1) \o <<k>> \o SubSeq(q, i, Len(q))
    BY DEF InsertAt
  <2>6. PICK a, b : a = SubSeq(q, 1, i - 1) /\ b = SubSeq(q, i, Len(q))
    OBVIOUS
  <2> HIDE DEF new, from
  <2>7. /\ a \in Seq(S) /\ b \in Seq(S) /\ Len(a) = i - 1 /\ Len(b) = Len(q) - i + 1
        /\ new = a \o <<k>> \o b
    BY <2>1, <2>2, <2>5, <2>6
  <2>8. new \in Seq(S) /\ Len(new) = Len(q) + 1
    <3>1. <<k>> \in Seq(S) /\ Len(<<k>>) = 1
      OBVIOUS
    <3>2. PICK c : c = a \o <<k>>
      OBVIOUS
    <3>3. c \in Seq(S) /\ Len(c) = i
      BY <2>7, <3>1, <3>2
    <3>4. c \o b \in Seq(S) /\ Len(c \o b) = i + (Len(q) - i + 1)
      BY <2>7, <3>3, Joined
    <3>5. i + (Len(q) - i + 1) = Len(q) + 1
      OBVIOUS
    <3> QED BY <2>7, <3>2, <3>4, <3>5
  <2>9. ASSUME NEW m \in 1..Len(q) + 1 PROVE new[m] = IF m = i THEN k ELSE q[from(m)]
    <3>1. CASE m < i
      <4>1. new[m] = a[m] /\ m \in 1..i - 1
        BY <2>7, <3>1
      <4> QED BY <2>3, <2>6, <3>1, <4>1 DEF from
    <3>2. CASE m = i
      BY <2>7, <3>2
    <3>3. CASE m > i
      <4>1. m - i \in 1..Len(q) - i + 1 /\ (m - i) + i - 1 = m - 1
        BY <3>3
      <4>2. new[m] = b[m - i]
        BY <2>7, <3>3
      <4>3. b[m - i] = q[m - 1]
        BY <2>4, <2>6, <4>1
      <4> QED BY <3>3, <4>2, <4>3 DEF from
    <3> QED BY <3>1, <3>2, <3>3
  <2> QED BY <2>8, <2>9
<1>2. DOMAIN q = 1..Len(q) /\ DOMAIN new = 1..Len(q) + 1 /\ Len(q) \in Nat
  BY <1>1
<1>3. \A m \in 1..Len(q) + 1 : m # i => from(m) \in 1..Len(q)
  BY <1>2
<1> HIDE DEF new
<1>4. ASSUME NEW j PROVE In(new, j) <=> j = k \/ In(q, j)
  <2>1. ASSUME In(new, j), j # k PROVE In(q, j)
    BY <1>1, <1>2, <1>3, <2>1 DEF In
  <2>2. ASSUME In(q, j) PROVE In(new, j)
    <3>1. PICK m \in 1..Len(q) : q[m] = j
      BY <1>2, <2>2 DEF In
    <3>2. CASE m < i
      <4>1. m \in 1..Len(q) + 1 /\ m # i /\ from(m) = m
        BY <1>2, <3>2
      <4> QED BY <1>1, <1>2, <3>1, <4>1 DEF In
    <3>3. CASE m >= i
      <4>1. m + 1 \in 1..Len(q) + 1 /\ m + 1 # i /\ from(m + 1) = m
        BY <1>2, <3>3
      <4> QED BY <1>1, <1>2, <3>1, <4>1 DEF In
    <3> QED BY <1>2, <3>2, <3>3
  <2>3. In(new, k)
    BY <1>1, <1>2 DEF In
  <2> QED BY <2>1, <2>2, <2>3
<1>5. ASSUME NoneTwice(q), ~In(q, k), NEW m \in 1..Len(q) + 1, NEW n \in 1..Len(q) + 1, new[m] = new[n]
      PROVE  m = n
  <2>1. CASE m = i /\ n # i
    BY <1>1, <1>2, <1>3, <1>5, <2>1 DEF In
  <2>2. CASE m # i /\ n = i
    BY <1>1, <1>2, <1>3, <1>5, <2>2 DEF In
  <2>3. CASE m # i /\ n # i
    <3>1. from(m) = from(n)
      BY <1>1, <1>2, <1>3, <1>5, <2>3 DEF NoneTwice
    <3> QED BY <1>2, <2>3, <3>1
  <2> QED BY <2>1, <2>2, <2>3
<1>6. new # <<>>
  BY <1>1
<1> QED BY <1>1, <1>2, <1>4, <1>5, <1>6 DEF NoneTwice, new

\* The first task taken off.
LEMMA TakenOff ==
    ASSUME NEW S, NEW q \in Seq(S), q # <<>>
    PROVE  /\ Head(q) \in S /\ Tail(q) \in Seq(S) /\ In(q, Head(q))
           /\ NoneTwice(q) => /\ NoneTwice(Tail(q))
                              /\ \A j : In(Tail(q), j) <=> In(q, j) /\ j # Head(q)
<1>1. Len(q) \in Nat /\ Len(q) # 0 /\ DOMAIN q = 1..Len(q)
  OBVIOUS
<1>2. Head(q) = q[1] /\ q[1] \in S /\ 1 \in DOMAIN q
  BY <1>1
<1>3. /\ Tail(q) \in Seq(S) /\ Len(Tail(q)) = Len(q) - 1
      /\ \A m \in 1..Len(q) - 1 : Tail(q)[m] = q[m + 1]
  BY <1>1
<1>4. DOMAIN Tail(q) = 1..Len(q) - 1
  BY <1>1, <1>3
<1>5. ASSUME NoneTwice(q) PROVE NoneTwice(Tail(q))
  <2>1. ASSUME NEW m \in 1..Len(q) - 1, NEW n \in 1..Len(q) - 1, Tail(q)[m] = Tail(q)[n] PROVE m = n
    <3>1. m + 1 \in DOMAIN q /\ n + 1 \in DOMAIN q /\ q[m + 1] = q[n + 1]
      BY <1>1, <1>3, <2>1
    <3>2. m + 1 = n + 1
      BY <1>5, <3>1 DEF NoneTwice
    <3> QED BY <1>1, <3>2
  <2> QED BY <1>4, <2>1 DEF NoneTwice
<1>6. ASSUME NoneTwice(q), NEW j PROVE In(Tail(q), j) <=> In(q, j) /\ j # Head(q)
  <2>1. ASSUME In(Tail(q), j) PROVE In(q, j) /\ j # Head(q)
    <3>1. PICK m \in 1..Len(q) - 1 : Tail(q)[m] = j
      BY <1>4, <2>1 DEF In
    <3>2. m + 1 \in DOMAIN q /\ q[m + 1] = j /\ m + 1 # 1
      BY <1>1, <1>3, <3>1
    <3> QED BY <1>2, <1>6, <3>2 DEF In, NoneTwice
  <2>2. ASSUME In(q, j), j # Head(q) PROVE In(Tail(q), j)
    <3>1. PICK m \in DOMAIN q : q[m] = j
      BY <2>2 DEF In
    <3>2. m # 1
      BY <1>2, <2>2, <3>1
    <3>3. m - 1 \in 1..Len(q) - 1 /\ Tail(q)[m - 1] = q[(m - 1) + 1] /\ (m - 1) + 1 = m
      BY <1>1, <1>3, <3>2
    <3> QED BY <1>4, <3>1, <3>3 DEF In
  <2> QED BY <2>1, <2>2
<1> QED BY <1>2, <1>3, <1>5, <1>6 DEF In

\* The time of a task.
LEMMA TimeIsNumber ==
    ASSUME D!DynamicConstants, RingTypeOK, index \in [D!Task -> Index], NEW k \in D!Task
    PROVE  k # D!NoTask /\ D!Time(k) = TimeAt(index[k]) /\ TimeAt(index[k]) \in Nat
<1>1. k # D!NoTask
  BY DEF D!DynamicConstants, D!Task, D!NoTask
<1>2. TimeAt(index[k]) \in Nat
  BY DEF RingTypeOK, TimeAt
<1> QED BY <1>1, <1>2, SameRing DEF D!Time

\* A task goes into the queue somewhere.
LEMMA QinsPutsIn ==
    ASSUME D!DynamicConstants, RingTypeOK, index \in [D!Task -> Index],
           NEW q \in Seq(D!Task), NEW k \in D!Task \cup {D!NoTask}
    PROVE  /\ k = D!NoTask => D!Qins(q, k) = q
           /\ k # D!NoTask => \E i \in 1..Len(q) + 1 : D!Qins(q, k) = InsertAt(q, i, k)
<1> SUFFICES ASSUME k # D!NoTask
             PROVE  \E i \in 1..Len(q) + 1 : D!Qins(q, k) = InsertAt(q, i, k)
  BY DEF D!Qins
<1> DEFINE Place(i) == /\ i <= Len(q) => D!Time(q[i]) >= D!Time(k)
                       /\ \A j \in 1..i - 1 : D!Time(q[j]) < D!Time(k)
           S == {i \in 1..Len(q) + 1 : i <= Len(q) => D!Time(q[i]) >= D!Time(k)}
<1>1. \A i \in 1..Len(q) : D!Time(q[i]) \in Int
  BY TimeIsNumber
<1>2. D!Time(k) \in Int
  BY TimeIsNumber
<1>3. \E i \in 1..Len(q) + 1 : Place(i)
  <2>1. Len(q) + 1 \in S /\ S \in SUBSET Nat
    OBVIOUS
  <2>2. PICK i \in S : \A m \in S : i <= m
    <3> HIDE DEF S
    <3> QED BY <2>1, Least
  <2>3. ASSUME NEW j \in 1..i - 1 PROVE D!Time(q[j]) < D!Time(k)
    <3>1. j \in 1..Len(q) /\ j < i
      OBVIOUS
    <3>2. j \notin S
      BY <2>2, <3>1
    <3> QED BY <1>1, <1>2, <3>1, <3>2
  <2> QED BY <2>3
<1>4. D!Qins(q, k) = InsertAt(q, CHOOSE i \in 1..Len(q) + 1 : Place(i), k)
  BY DEF D!Qins, D!InsertAt, InsertAt
<1> HIDE DEF Place
<1> QED BY <1>3, <1>4

\* The queue with a task put back.
LEMMA QinsKeeps ==
    ASSUME D!DynamicConstants, RingTypeOK, index \in [D!Task -> Index],
           NEW q \in Seq(D!Task), NEW k \in D!Task \cup {D!NoTask}
    PROVE  /\ D!Qins(q, k) \in Seq(D!Task)
           /\ NoneTwice(q) /\ ~In(q, k) => NoneTwice(D!Qins(q, k))
           /\ \A j \in D!Task : In(D!Qins(q, k), j) <=> j = k \/ In(q, j)
<1>1. CASE k = D!NoTask
  <2>1. D!NoTask \notin D!Task
    BY DEF D!DynamicConstants, D!Task, D!NoTask
  <2> QED BY <1>1, <2>1, QinsPutsIn
<1>2. CASE k # D!NoTask
  <2>1. PICK i \in 1..Len(q) + 1 : D!Qins(q, k) = InsertAt(q, i, k)
    BY <1>2, QinsPutsIn
  <2>2. k \in D!Task
    BY <1>2
  <2> QED BY <2>1, <2>2, PutIn
<1> QED BY <1>1, <1>2

MayGet(tasks, p, k) == k = D!NoTask \/ k = tasks[p] \/ ~\E q \in D!Actor : tasks[q] = k

Given(tasks, p, k) == [tasks EXCEPT ![p] = k]

\* A thread gives up its task for another one that nobody has.
LEMMA Reassigned ==
    ASSUME NEW tasks \in [D!Actor -> D!Task \cup {D!NoTask}], Apart(tasks), NEW p \in D!Actor,
           NEW k \in D!Task \cup {D!NoTask}, D!NoTask \notin D!Task,
           MayGet(tasks, p, k)
    PROVE  /\ Given(tasks, p, k) \in [D!Actor -> D!Task \cup {D!NoTask}]
           /\ Apart(Given(tasks, p, k))
           /\ \A j \in D!Task : (\E q \in D!Actor : Given(tasks, p, k)[q] = j) <=>
                                     j = k \/ (j # tasks[p] /\ \E q \in D!Actor : tasks[q] = j)
<1>0. PICK new : new = Given(tasks, p, k)
  OBVIOUS
<1>1. new \in [D!Actor -> D!Task \cup {D!NoTask}] /\ new[p] = k /\ \A q \in D!Actor : q # p => new[q] = tasks[q]
  BY <1>0 DEF Given
<1>2. Apart(new)
  BY <1>1 DEF Apart, MayGet
<1>3. ASSUME NEW j \in D!Task
      PROVE  (\E q \in D!Actor : new[q] = j) <=>
                j = k \/ (j # tasks[p] /\ \E q \in D!Actor : tasks[q] = j)
  BY <1>1, <1>3 DEF Apart, MayGet
<1> QED BY <1>0, <1>1, <1>2, <1>3

\* The states the server's steps on the ring lead to.
LEMMA RingStates ==
    /\ AdvanceTime => serverPc' = "wait"
    /\ ReInsert => serverPc' \in {"idle", "pop", "find", "shift", "failed"}
BY DEF AdvanceTime, ReInsert, PopFront, InsertBegin, InsertShift, InsertEnd, ClockEnd

\* The first states.
LEMMA DynamicInit == ASSUME D!DynamicConstants, D!Init PROVE DynamicInv
<1>1. NTasks \in Nat \ {0} /\ D!Task = 1..NTasks /\ D!NoTask = 0 /\ D!NoTask \notin D!Task
  BY DEF D!DynamicConstants, D!Task, D!NoTask
<1>2. RingTypeOK /\ D!RingTypeOK
  BY RingInitTypes, SameRing DEF D!Init
<1> DEFINE q == [k \in D!Task |-> NTasks + 1 - k]
<1>3. /\ q \in Seq(D!Task) /\ NoneTwice(q) /\ \A k \in D!Task : In(q, k)
  <2>1. q \in [1..NTasks -> D!Task] /\ DOMAIN q = 1..NTasks
    BY <1>1
  <2>2. NoneTwice(q)
    BY <1>1 DEF NoneTwice
  <2>3. ASSUME NEW k \in D!Task PROVE In(q, k)
    <3>1. NTasks + 1 - k \in D!Task /\ q[NTasks + 1 - k] = k
      BY <1>1
    <3> QED BY <2>1, <3>1, <1>1 DEF In
  <2>4. q \in Seq(D!Task)
    <3> HIDE DEF q
    <3> QED BY <1>1, <2>1
  <2> QED BY <2>2, <2>3, <2>4
<1>4. taskq = IF variant.algorithm # "AlwaysEarliest" THEN <<>>
              ELSE IF variant.isWorker THEN q \o q ELSE q
  BY DEF D!Init, D!InitialQueue
<1> HIDE DEF q
<1>5. taskq \in Seq(D!Task)
  BY <1>3, <1>4
<1>6. task = [p \in D!Actor |-> D!NoTask]
  BY DEF D!Init
<1>7. /\ Apart(task)
      /\ D!QueuedOnce => (variant.algorithm = "AlwaysEarliest" => Queued(task, taskq))
  BY <1>1, <1>3, <1>4, <1>6 DEF Apart, Queued, D!QueuedOnce
<1>8. /\ index \in [D!Task -> D!Index] /\ localDoneTime \in [D!Task -> Int]
      /\ thread \in [D!Task -> D!Actor] /\ task \in [D!Actor -> D!Task \cup {D!NoTask}]
      /\ 0 \in 0..NTasks - 1 /\ 0 \in 0..NTasks /\ localReadyTime \in [D!Actor -> Int]
  <2>1. 0 \in D!Index
    BY SameRing, InstancesFit
  <2>2. Main \in D!Actor
    BY DEF D!Actor
  <2> QED BY <1>1, <1>6, <2>1, <2>2 DEF D!Init
<1>9. D!TypeOK
  BY <1>1, <1>2, <1>5, <1>8 DEF D!TypeOK, D!Init
<1> QED BY <1>7, <1>9 DEF DynamicInv, D!Init

\* The types of what the threads do with their tasks.
LEMMA WorkTypes ==
    ASSUME D!DynamicConstants, D!TypeOK, NEW p \in D!Actor,
           \/ D!BeginWork(p) \/ D!PublishDone(p) \/ D!SkipEvent(p) \/ D!ExitPthread(p) \/ D!Exited(p)
           \/ \E c \in Callback : D!RunCallback(p, c)
    PROVE  /\ D!TypeOK'
           /\ UNCHANGED <<variant, serverPc, task, taskq, exiting>>
<1>1. UNCHANGED <<ringVars, serverPc, variant, stopping, task, thread, seed, taskq, exiting>>
  BY DEF D!BeginWork, D!PublishDone, D!SkipEvent, D!ExitPthread, D!Exited, D!RunCallback, D!schedVars,
         D!ringVars, ringVars, D!registryVars, registryVars, D!instVars, instVars, D!insertVars,
         insertVars, D!indexVars, indexVars
<1>2. RingTypeOK /\ RingTypeOK' /\ D!RingTypeOK'
  BY <1>1, SameRing DEF D!TypeOK, RingTypeOK, ringVars, registryVars, instVars, insertVars, indexVars
<1>3. index \in [D!Task -> Index] /\ D!Index = Index /\ D!Instance = Instance
  BY SameRing DEF D!TypeOK
<1>4. task[p] = D!NoTask \/ task[p] \in D!Task
  BY DEF D!TypeOK
<1>5. /\ clocked' \in [D!Actor -> SUBSET D!Instance] /\ todo' \in [D!Actor -> SUBSET Callback]
      /\ workPc' \in [D!Actor -> {"loop", "run", "skip", "exiting", "exited"}]
      /\ index' \in [D!Task -> D!Index] /\ localDoneTime' \in [D!Task -> Int]
      /\ threadForceExit' \in [D!Task -> BOOLEAN] /\ localReadyTime' \in [D!Actor -> Int]
  <2>1. CASE D!BeginWork(p)
    <3> DEFINE k == task[p]
               found == D!ReadyEvents(k)
    <3>1. /\ clocked' = [clocked EXCEPT ![p] = found.events]
          /\ todo' = [todo EXCEPT ![p] = {c \in Callback : cbTask[c] = k
                                           /\ \E e \in found.events : D!Parent(e) = cbReg[c]}]
          /\ index' = [index EXCEPT ![k] = found.next]
          /\ localReadyTime' = [localReadyTime EXCEPT ![p] = D!Time(k)]
          /\ workPc' = [workPc EXCEPT ![p] = "run"]
          /\ UNCHANGED <<localDoneTime, threadForceExit>> /\ D!IsReady(k)
      BY <2>1 DEF D!BeginWork
    <3>2. k \in D!Task /\ Between(index[k], head, limit)
      BY <1>4, <3>1, SameRing DEF D!IsReady
    <3>3. found.events \in SUBSET Instance /\ found.next \in Index
      <4> DEFINE at(n) == (index[k] + n) % RingSize
                 ready(n) == D!Between(at(n), head, limit) /\ D!TimeAt(at(n)) = D!Time(k)
                 S == {n \in 0..RingSize : ~ready(n)}
                 count == CHOOSE n \in 0..RingSize : ~ready(n) /\ \A m \in 0..n - 1 : ready(m)
      <4>1. found = [events |-> {element[at(m)] : m \in 0..count - 1}, next |-> at(count)]
        BY DEF D!ReadyEvents
      <4>2. RingSize \in Nat \ {0}
        BY InstancesFit
      <4>3. \A n \in Nat : at(n) \in Index
        BY <1>3, <3>2, <4>2 DEF Index
      <4>4. \E n \in 0..RingSize : ~ready(n) /\ \A m \in 0..n - 1 : ready(m)
        <5>1. S # {}
          <6>1. index[k] \in Index /\ limit \in Index /\ head \in Index
            BY <1>2, <1>3, <3>2 DEF RingTypeOK
          <6>2. PICK n \in 0..RingSize - 1 : at(n) = limit
            <7>0. PICK i : i = index[k] /\ i \in Index
              BY <6>1
            <7>1. 0 \in 0..RingSize - 1
              BY <4>2
            <7>2. Off(limit, i) \in 0..RingSize - 1 /\ Pos(i, Off(limit, i)) = limit
              BY <6>1, <7>0, <7>1, Round
            <7>3. (i + Off(limit, i)) % RingSize = Pos(i, Off(limit, i))
              BY <7>0, <7>2, Round
            <7> QED BY <7>0, <7>2, <7>3
          <6>3. ~Between(limit, head, limit)
            BY <6>1, BetweenIsCloser, Round, InstancesFit
          <6>4. n \in 0..RingSize
            BY <4>2
          <6> QED BY <6>2, <6>3, <6>4, SameRing
        <5>2. PICK n \in S : \A m \in S : n <= m
          <6>1. S \in SUBSET Nat
            BY <4>2
          <6> HIDE DEF S
          <6> QED BY <5>1, <6>1, Least
        <5> HIDE DEF ready
        <5>3. ASSUME NEW m \in 0..n - 1 PROVE ready(m)
          <6>1. m \in 0..RingSize /\ m < n /\ m \in Nat /\ n \in Nat
            BY <4>2
          <6> QED BY <5>2, <6>1
        <5> QED BY <5>2, <5>3
      <4> HIDE DEF ready
      <4>5. count \in 0..RingSize
        BY <4>4
      <4> HIDE DEF count
      <4>6. \A m \in 0..count - 1 : element[at(m)] \in Instance
        <5>1. \A m \in 0..count - 1 : m \in Nat
          BY <4>2, <4>5
        <5> HIDE DEF at
        <5> QED BY <1>2, <4>3, <5>1 DEF RingTypeOK
      <4>7. at(count) \in Index
        BY <4>2, <4>3, <4>5
      <4> HIDE DEF at, found
      <4> QED BY <4>1, <4>6, <4>7
    <3>4. D!Time(k) \in Int
      BY <1>2, <1>3, <3>2, TimeIsNumber
    <3> HIDE DEF found
    <3> QED BY <1>3, <3>1, <3>2, <3>3, <3>4 DEF D!TypeOK
  <2>2. CASE D!PublishDone(p)
    <3>1. localReadyTime[p] \in Int
      BY DEF D!TypeOK
    <3> QED BY <2>2, <3>1, <1>3 DEF D!PublishDone, D!TypeOK
  <2>3. CASE D!SkipEvent(p)
    <3> DEFINE k == task[p]
    <3>1. /\ UNCHANGED <<clocked, todo, localReadyTime, threadForceExit>>
          /\ \/ /\ localDoneTime' = [localDoneTime EXCEPT ![k] = D!TimeAt(index[k])]
                /\ index' = [index EXCEPT ![k] = D!Succ(@)] /\ UNCHANGED workPc
             \/ workPc' = [workPc EXCEPT ![p] = "loop"] /\ UNCHANGED <<localDoneTime, index>>
      BY <2>3 DEF D!SkipEvent, D!doVars
    <3>2. k \in D!Task => D!TimeAt(index[k]) \in Int /\ D!Succ(index[k]) \in Index
      <4>1. SUFFICES ASSUME k \in D!Task PROVE D!TimeAt(index[k]) \in Int /\ D!Succ(index[k]) \in Index
        OBVIOUS
      <4>2. index[k] \in Index
        BY <1>3, <4>1
      <4>3. 0 \in 0..RingSize - 2
        BY InstancesFit
      <4> QED BY <1>2, <4>2, <4>3, SameRing, StepOn DEF RingTypeOK, TimeAt, D!Succ, Succ
    <3> HIDE DEF k
    <3>3. /\ index \in [D!Task -> Index] /\ localDoneTime \in [D!Task -> Int]
          /\ workPc \in [D!Actor -> {"loop", "run", "skip", "exiting", "exited"}]
      BY <1>3 DEF D!TypeOK
    <3>4. index' \in [D!Task -> Index] /\ localDoneTime' \in [D!Task -> Int]
      BY <3>1, <3>2, <3>3
    <3>5. workPc' \in [D!Actor -> {"loop", "run", "skip", "exiting", "exited"}]
      BY <3>1, <3>3
    <3>6. clocked' = clocked /\ todo' = todo /\ localReadyTime' = localReadyTime /\ threadForceExit' = threadForceExit
      BY <3>1
    <3> QED BY <1>3, <3>4, <3>5, <3>6 DEF D!TypeOK
  <2>4. CASE D!ExitPthread(p)
    BY <1>3, <2>4 DEF D!ExitPthread, D!TypeOK, D!doVars
  <2>5. CASE D!Exited(p)
    <3>1. D!TimeAt(head) \in Int
      BY <1>2, SameRing DEF RingTypeOK, TimeAt
    <3> QED BY <1>3, <2>5, <3>1 DEF D!Exited, D!TypeOK, D!doVars
  <2>6. CASE \E c \in Callback : D!RunCallback(p, c)
    BY <1>3, <2>6 DEF D!RunCallback, D!TypeOK
  <2> QED BY <2>1, <2>2, <2>3, <2>4, <2>5, <2>6
<1> QED BY <1>1, <1>2, <1>5 DEF D!TypeOK

\* What stays when the ring and the work of the threads do.
LEMMA RestTypes ==
    ASSUME D!TypeOK,
           UNCHANGED <<D!ringVars, variant, stopping, workPc, D!doVars, index, localDoneTime, threadForceExit>>,
           serverPc' \in {"idle", "wait", "pop", "find", "shift", "failed", "kill", "join", "next", "off"},
           task' \in [D!Actor -> D!Task \cup {D!NoTask}], thread' \in [D!Task -> D!Actor],
           seed' \in 0..NTasks - 1, taskq' \in Seq(D!Task), exiting' \in D!Task \cup {D!NoTask}
    PROVE  D!TypeOK'
<1>1. D!RingTypeOK'
  BY DEF D!TypeOK, D!RingTypeOK, D!ringVars, D!registryVars, D!instVars, D!insertVars, D!indexVars
<1> QED BY <1>1 DEF D!TypeOK, D!doVars

\* A thread that switches its task takes one that nobody has.
LEMMA SwitchKeeps ==
    ASSUME D!DynamicConstants, DynamicInv, NEW p \in D!Actor,
           D!SwitchBySearch(p) \/ D!SwitchEarliest(p) \/ (p = Main /\ D!SwitchEarliestMaster)
    PROVE  DynamicInv'
<1>1. /\ D!NoTask \notin D!Task /\ NTasks \in Nat \ {0} /\ Main \in D!Actor
      /\ task \in [D!Actor -> D!Task \cup {D!NoTask}] /\ thread \in [D!Task -> D!Actor]
      /\ taskq \in Seq(D!Task) /\ exiting \in D!Task \cup {D!NoTask} /\ seed \in 0..NTasks - 1
      /\ RingTypeOK /\ index \in [D!Task -> Index] /\ D!TypeOK
  BY SameRing DEF D!DynamicConstants, D!Task, D!NoTask, D!Actor, DynamicInv, D!TypeOK
<1>2. ASSUME NEW k \in D!Task \cup {D!NoTask}, D!Assign(p, k)
      PROVE  task' = Given(task, p, k) /\ thread' \in [D!Task -> D!Actor]
  BY <1>1, <1>2 DEF D!Assign, Given
<1>3. CASE D!SwitchBySearch(p)
  <2>1. /\ variant.algorithm # "AlwaysEarliest" /\ UNCHANGED <<variant, serverPc, taskq, exiting>>
        /\ UNCHANGED <<D!ringVars, stopping, workPc, D!doVars, index, localDoneTime, threadForceExit>>
        /\ seed' = (seed + 1) % NTasks
        /\ UNCHANGED <<task, thread>> \/ \E k \in D!Task : D!Available(p, k) /\ D!Assign(p, k)
    BY <1>3 DEF D!SwitchBySearch
  <2>2. seed' \in 0..NTasks - 1 /\ Apart(task)
    BY <1>1, <2>1 DEF DynamicInv, D!QueuedOnce
  <2>3. /\ task' \in [D!Actor -> D!Task \cup {D!NoTask}] /\ thread' \in [D!Task -> D!Actor]
        /\ Apart(task')
    <3>1. CASE UNCHANGED <<task, thread>>
      BY <1>1, <2>2, <3>1
    <3>2. ASSUME NEW k \in D!Task, D!Available(p, k), D!Assign(p, k)
          PROVE  /\ task' \in [D!Actor -> D!Task \cup {D!NoTask}] /\ thread' \in [D!Task -> D!Actor]
                 /\ Apart(task')
      <4>1. ~\E q \in D!Actor : task[q] = k
        BY <3>2 DEF D!Available, D!Owned
      <4>2. task' = Given(task, p, k) /\ thread' \in [D!Task -> D!Actor]
        BY <1>2, <3>2
      <4> QED BY <1>1, <2>2, <4>1, <4>2, Reassigned DEF MayGet
    <3> QED BY <2>1, <3>1, <3>2
  <2>4. D!TypeOK'
    BY <1>1, <2>1, <2>2, <2>3, RestTypes DEF D!TypeOK
  <2> QED BY <2>1, <2>3, <2>4 DEF DynamicInv, D!QueuedOnce
<1>4. CASE D!SwitchEarliest(p) \/ (p = Main /\ D!SwitchEarliestMaster)
  <2>1. /\ variant.algorithm = "AlwaysEarliest"
        /\ UNCHANGED <<variant, serverPc, D!ringVars, stopping, workPc, D!doVars, index, localDoneTime,
                       threadForceExit, seed>>
    BY <1>4 DEF D!SwitchEarliest, D!SwitchEarliestMaster
  <2>2. exiting = D!NoTask /\ serverPc \notin {"kill", "join", "next", "off"}
    BY <2>1 DEF DynamicInv
  <2>3. PICK q : q = D!Qins(taskq, task[p])
    OBVIOUS
  <2>4. /\ q \in Seq(D!Task)
        /\ NoneTwice(taskq) /\ ~In(taskq, task[p]) => NoneTwice(q)
        /\ \A j \in D!Task : In(q, j) <=> j = task[p] \/ In(taskq, j)
    BY <1>1, <2>3, QinsKeeps
  <2>5. PICK k \in D!Task \cup {D!NoTask} :
           /\ D!Assign(p, k) /\ exiting' = D!NoTask
           /\ \/ q # <<>> /\ k = Head(q) /\ taskq' = Tail(q)
              \/ k = D!NoTask /\ taskq' = q
    <3>1. CASE D!SwitchEarliest(p)
      <4>1. /\ D!Assign(p, IF q = <<>> THEN D!NoTask ELSE Head(q)) /\ exiting' = D!NoTask
            /\ taskq' = IF q = <<>> THEN q ELSE Tail(q)
        BY <2>2, <2>3, <3>1 DEF D!SwitchEarliest
      <4>2. q # <<>> => Head(q) \in D!Task
        BY <2>4
      <4> QED BY <4>1, <4>2
    <3>2. CASE p = Main /\ D!SwitchEarliestMaster
      <4>1. PICK takes : takes = (q # <<>> /\ D!IsReady(Head(q)) /\ D!Time(Head(q)) = D!TimeAt(head))
        OBVIOUS
      <4>2. /\ D!Assign(p, IF takes THEN Head(q) ELSE D!NoTask) /\ exiting' = exiting
            /\ taskq' = IF takes THEN Tail(q) ELSE q
        BY <2>3, <3>2, <4>1 DEF D!SwitchEarliestMaster
      <4>3. takes => q # <<>> /\ Head(q) \in D!Task
        BY <2>4, <4>1, TakenOff
      <4> QED BY <2>2, <4>2, <4>3
    <3> QED BY <1>4, <3>1, <3>2
  <2>6. task' = Given(task, p, k) /\ thread' \in [D!Task -> D!Actor]
    BY <1>2, <2>5
  <2>7. task' \in [D!Actor -> D!Task \cup {D!NoTask}] /\ taskq' \in Seq(D!Task)
    <3>1. q # <<>> => Tail(q) \in Seq(D!Task)
      BY <2>4, TakenOff
    <3> QED BY <1>1, <2>4, <2>5, <2>6, <3>1 DEF Given
  <2>8. D!TypeOK'
    BY <1>1, <2>1, <2>5, <2>6, <2>7, RestTypes DEF D!TypeOK
  <2>9. ASSUME D!QueuedOnce PROVE Apart(task') /\ Queued(task', taskq')
    <3>1. Apart(task) /\ Queued(task, taskq)
      BY <2>1, <2>9 DEF DynamicInv
    <3>2. ~In(taskq, task[p])
      <4>1. task[p] \in D!Task => ~In(taskq, task[p])
        BY <3>1 DEF Queued
      <4>2. task[p] = D!NoTask => ~In(taskq, task[p])
        BY <1>1 DEF In
      <4> QED BY <1>1, <4>1, <4>2
    <3>3. NoneTwice(q)
      BY <2>4, <3>1, <3>2 DEF Queued
    <3>4. k = D!NoTask \/ k = task[p] \/ ~\E a \in D!Actor : task[a] = k
      <4>1. ASSUME k # D!NoTask PROVE k \in D!Task /\ In(q, k)
        BY <2>4, <2>5, <3>3, <4>1, TakenOff
      <4> QED BY <2>4, <3>1, <4>1 DEF Queued
    <3>5. /\ Apart(task')
          /\ \A j \in D!Task : (\E a \in D!Actor : task'[a] = j) <=>
                                  j = k \/ (j # task[p] /\ \E a \in D!Actor : task[a] = j)
      <4>1. /\ Apart(Given(task, p, k))
            /\ \A j \in D!Task : (\E a \in D!Actor : Given(task, p, k)[a] = j) <=>
                                    j = k \/ (j # task[p] /\ \E a \in D!Actor : task[a] = j)
        <5>1. k \in D!Task \cup {D!NoTask}
          BY <2>5
        <5>2. MayGet(task, p, k)
          BY <3>4 DEF MayGet
        <5>3. task \in [D!Actor -> D!Task \cup {D!NoTask}] /\ Apart(task) /\ D!NoTask \notin D!Task
          BY <1>1, <3>1
        <5> QED BY <5>1, <5>2, <5>3, Reassigned
      <4> QED BY <2>6, <4>1
    <3>6. NoneTwice(taskq') /\ \A j \in D!Task : In(taskq', j) <=> In(q, j) /\ j # k
      <4>1. CASE q # <<>> /\ k = Head(q) /\ taskq' = Tail(q)
        <5>1. /\ Tail(q) \in Seq(D!Task) /\ NoneTwice(Tail(q))
              /\ \A j : In(Tail(q), j) <=> In(q, j) /\ j # Head(q)
          BY <2>4, <3>3, <4>1, TakenOff
        <5> QED BY <4>1, <5>1
      <4>2. CASE k = D!NoTask /\ taskq' = q
        <5>1. \A j \in D!Task : j # k
          BY <1>1, <4>2
        <5> QED BY <3>3, <4>2, <5>1
      <4> QED BY <2>5, <4>1, <4>2
    <3>7. \A j \in D!Task : (\E a \in D!Actor : task[a] = j) <=> ~In(taskq, j)
      BY <3>1 DEF Queued
    <3> QED BY <2>4, <3>5, <3>6, <3>7 DEF Queued
  <2> QED BY <2>1, <2>2, <2>5, <2>8, <2>9 DEF DynamicInv, D!QueuedOnce
<1> QED BY <1>3, <1>4

\* The main thread gives up its task at the barrier.
LEMMA BarrierKeeps ==
    ASSUME D!DynamicConstants, DynamicInv, D!Barrier
    PROVE  DynamicInv'
<1>1. /\ D!NoTask \notin D!Task /\ Main \in D!Actor
      /\ task \in [D!Actor -> D!Task \cup {D!NoTask}] /\ taskq \in Seq(D!Task)
      /\ RingTypeOK /\ index \in [D!Task -> Index] /\ D!TypeOK
  BY SameRing DEF D!DynamicConstants, D!Task, D!NoTask, D!Actor, DynamicInv, D!TypeOK
<1>2. /\ task' = Given(task, Main, D!NoTask) /\ serverPc' = "pop"
      /\ taskq' = IF variant.algorithm = "AlwaysEarliest" THEN D!Qins(taskq, task[Main]) ELSE taskq
      /\ UNCHANGED <<D!ringVars, variant, stopping, workPc, D!doVars, index, localDoneTime,
                     threadForceExit, thread, seed, exiting, nextime>>
  BY DEF D!Barrier, Given
<1>3. task[Main] \in D!Task \cup {D!NoTask}
  BY <1>1
<1>4. task' \in [D!Actor -> D!Task \cup {D!NoTask}]
  BY <1>1, <1>2 DEF Given
<1>5. ASSUME Apart(task)
      PROVE  /\ Apart(task')
             /\ \A j \in D!Task : (\E a \in D!Actor : task'[a] = j) <=>
                    j = D!NoTask \/ (j # task[Main] /\ \E a \in D!Actor : task[a] = j)
  <2>1. /\ Given(task, Main, D!NoTask) \in [D!Actor -> D!Task \cup {D!NoTask}]
        /\ Apart(Given(task, Main, D!NoTask))
        /\ \A j \in D!Task : (\E a \in D!Actor : Given(task, Main, D!NoTask)[a] = j) <=>
                      j = D!NoTask \/ (j # task[Main] /\ \E a \in D!Actor : task[a] = j)
    <3>1. D!NoTask \in D!Task \cup {D!NoTask}
      OBVIOUS
    <3> QED BY <1>1, <1>5, <3>1, Reassigned DEF MayGet
  <2> QED BY <1>2, <2>1
<1>6. taskq' \in Seq(D!Task)
  BY <1>1, <1>2, <1>3, QinsKeeps
<1>7. D!TypeOK'
  BY <1>1, <1>2, <1>4, <1>6, RestTypes DEF D!TypeOK
<1>8. ASSUME D!QueuedOnce, variant.algorithm = "AlwaysEarliest" PROVE Queued(task', taskq')
  <2>1. Queued(task, taskq) /\ Apart(task)
    BY <1>8 DEF DynamicInv
  <2>2. ~In(taskq, task[Main])
    <3>1. task[Main] \in D!Task => ~In(taskq, task[Main])
      BY <1>1, <2>1 DEF Queued
    <3>2. task[Main] = D!NoTask => ~In(taskq, task[Main])
      BY <1>1 DEF In
    <3> QED BY <1>3, <3>1, <3>2
  <2>3. NoneTwice(taskq') /\ \A j \in D!Task : In(taskq', j) <=> j = task[Main] \/ In(taskq, j)
    BY <1>1, <1>2, <1>3, <1>8, <2>1, <2>2, QinsKeeps DEF Queued
  <2>4. \A j \in D!Task : j # D!NoTask
    BY <1>1
  <2> QED BY <1>5, <2>1, <2>3, <2>4 DEF Queued
<1> QED BY <1>2, <1>5, <1>7, <1>8 DEF DynamicInv, D!QueuedOnce

\* The server's other steps leave the tasks alone.
LEMMA ServerLeavesTasks ==
    ASSUME D!DynamicConstants, EarliestRunsOn, DynamicInv,
           D!ClockBegin \/ D!AddEventsAgain \/ D!NotifyExiting \/ D!Joined \/ D!DestroyPthread
    PROVE  DynamicInv'
<1>1. /\ NTasks \in Nat \ {0} /\ Cardinality(Pthread) \in Nat /\ Cardinality(Pthread) <= NTasks
      /\ variant \in Variants /\ D!TypeOK
  <2>1. D!Cardinality(Pthread) = Cardinality(Pthread) /\ (D!IsFiniteSet(Pthread) <=> IsFiniteSet(Pthread))
    BY DEF D!Cardinality, Cardinality, D!IsFiniteSet, IsFiniteSet
  <2>2. IsFiniteSet(Pthread) /\ Cardinality(Pthread) <= NTasks /\ NTasks \in Nat \ {0}
    BY <2>1 DEF D!DynamicConstants
  <2> QED BY <2>2, FS_CardinalityType DEF DynamicInv, D!TypeOK
<1>2. CASE D!ClockBegin \/ D!AddEventsAgain
  <2>1. /\ AdvanceTime \/ ReInsert
        /\ UNCHANGED <<variant, stopping, workPc, task, D!doVars, index, localDoneTime,
                       threadForceExit, thread, D!schedVars, currentCycle, calls>>
    BY <1>2, SameRing DEF D!ClockBegin, D!AddEventsAgain
  <2>2. D!RingTypeOK'
    BY <1>1, <2>1, AdvanceTypes, ReInsertTypes, SameRing DEF D!TypeOK
  <2>3. serverPc' \in {"wait", "idle", "pop", "find", "shift", "failed"}
    BY <2>1, RingStates
  <2>4. D!TypeOK'
    BY <1>1, <2>1, <2>2, <2>3 DEF D!TypeOK, D!doVars, D!schedVars
  <2> QED BY <2>1, <2>3, <2>4 DEF DynamicInv, D!schedVars, D!QueuedOnce
<1>3. CASE D!NotifyExiting \/ D!Joined \/ D!DestroyPthread
  <2>1. variant.algorithm # "AlwaysEarliest"
    BY <1>1, <1>3 DEF DynamicInv, D!NotifyExiting, D!Joined, D!DestroyPthread, EarliestRunsOn
  <2>2. UNCHANGED <<variant, task>>
    BY <1>3 DEF D!NotifyExiting, D!Joined, D!DestroyPthread
  <2>3. CASE D!NotifyExiting \/ D!Joined
    <3>1. /\ UNCHANGED <<D!ringVars, variant, stopping, workPc, task, D!doVars, index, localDoneTime,
                         threadForceExit, thread, seed, taskq>>
          /\ serverPc' \in {"join", "next", "off"} /\ exiting' = exiting
      BY <2>1, <2>3 DEF D!NotifyExiting, D!Joined, D!schedVars
    <3>2. D!TypeOK'
      BY <1>1, <3>1, RestTypes DEF D!TypeOK
    <3> QED BY <2>1, <2>2, <3>2 DEF DynamicInv, D!QueuedOnce
  <2>4. CASE D!DestroyPthread
    <3>1. stopping' \in 0..NTasks
      <4>1. D!Cardinality(Pthread) = Cardinality(Pthread)
        BY DEF D!Cardinality, Cardinality
      <4> QED BY <1>1, <2>4, <4>1 DEF D!DestroyPthread, D!TypeOK
    <3>2. threadForceExit' \in [D!Task -> BOOLEAN]
      BY <1>1, <2>4 DEF D!DestroyPthread, D!TypeOK
    <3>3. /\ UNCHANGED <<D!ringVars, variant, workPc, task, D!doVars, index, localDoneTime, thread,
                         D!schedVars>>
          /\ serverPc' = "kill"
      BY <2>4 DEF D!DestroyPthread
    <3>4. D!RingTypeOK'
      BY <1>1, <3>3 DEF D!TypeOK, D!RingTypeOK, D!ringVars, D!registryVars, D!instVars, D!insertVars,
                        D!indexVars
    <3>5. D!TypeOK'
      BY <1>1, <3>1, <3>2, <3>3, <3>4 DEF D!TypeOK, D!doVars, D!schedVars
    <3> QED BY <2>1, <2>2, <3>5 DEF DynamicInv, D!QueuedOnce
  <2> QED BY <1>3, <2>3, <2>4
<1> QED BY <1>2, <1>3

\* Every step keeps the tasks apart.
LEMMA DynamicStep ==
    ASSUME D!DynamicConstants, EarliestRunsOn, DynamicInv, [D!Next]_(D!vars)
    PROVE  DynamicInv'
<1>1. CASE UNCHANGED D!vars
  <2>1. UNCHANGED <<D!ringVars, serverPc, variant, stopping, workPc, task, D!doVars, index, localDoneTime,
                    threadForceExit, thread, D!schedVars>>
    BY <1>1 DEF D!vars
  <2>2. UNCHANGED <<seed, taskq, exiting>>
    BY <2>1 DEF D!schedVars
  <2>3. D!TypeOK'
    BY <2>1, <2>2, RestTypes DEF DynamicInv, D!TypeOK
  <2> QED BY <2>1, <2>2, <2>3 DEF DynamicInv, D!QueuedOnce
<1>2. CASE D!ClockBegin \/ D!AddEventsAgain \/ D!NotifyExiting \/ D!Joined \/ D!DestroyPthread
  BY <1>2, ServerLeavesTasks
<1>3. CASE D!Barrier
  BY <1>3, BarrierKeeps
<1>4. ASSUME NEW p \in D!Actor, D!Worker(p) PROVE DynamicInv'
  <2>1. CASE D!SwitchBySearch(p) \/ D!SwitchEarliest(p) \/ (p = Main /\ D!SwitchEarliestMaster)
    BY <2>1, SwitchKeeps
  <2>2. CASE \/ D!BeginWork(p) \/ D!PublishDone(p) \/ D!SkipEvent(p) \/ D!ExitPthread(p) \/ D!Exited(p)
             \/ \E c \in Callback : D!RunCallback(p, c)
    <3>1. D!TypeOK' /\ UNCHANGED <<variant, serverPc, task, taskq, exiting>>
      BY <2>2, WorkTypes DEF DynamicInv
    <3> QED BY <3>1 DEF DynamicInv, D!QueuedOnce
  <2> QED BY <1>4, <2>1, <2>2 DEF D!Worker
<1> QED BY <1>1, <1>2, <1>3, <1>4 DEF D!Next, D!Server, D!Finished

\* In the dynamic server a task has one thread at most, and under AlwaysEarliest
\* the queue holds the others, each once: for any number of tasks and pthreads,
\* every scheduler that is stopped only if it survives it, and every build but
\* the one that queues each task twice (AlwaysEarliest with a working main
\* thread, of which only the types are shown).
THEOREM TasksAreApart ==
    ASSUME D!DynamicConstants, EarliestRunsOn
    PROVE  D!Spec => []D!OneThreadPerTask
<1>1. DynamicInv => D!OneThreadPerTask
  BY DEF DynamicInv, Apart, Queued, In, D!OneThreadPerTask, D!Owned, D!Shared
<1>2. D!Init => DynamicInv
  BY DynamicInit
<1>3. DynamicInv /\ [D!Next]_(D!vars) => DynamicInv'
  BY DynamicStep
<1> QED BY <1>1, <1>2, <1>3, PTL DEF D!Spec

=============================================================================
