-------------------------- MODULE RateMatcher_proofs -------------------------
(***************************************************************************)
(* Proofs about RateMatcher, for any two clocks, latency, bandwidth and    *)
(* lookahead: in the configurations that are Sound no ASSERT of the port   *)
(* fires and every item is delivered on time, and nothing is passed over   *)
(* as long as the port is only used under its lock.                        *)
(***************************************************************************)
EXTENDS RateMatcher, FiniteSetTheorems, TLAPS

-----------------------------------------------------------------------------
(* The inductive invariant *)

Item  == [item : 1..MaxItems, at : Nat]
Entry == [item : 1..MaxItems, at : Nat, row : Nat, first : BOOLEAN]

\* The first multiple of a period at or after a time, in periods.
Ceil(t, p) == (t + p - 1) \div p

DataInv ==
    /\ TypeOK /\ lastRow >= -1
    /\ internalBuffer \in Seq(Item) /\ queue \in Seq(Entry)

\* Does nobody use the port without its lock?
Locked == ~(cf.zeroLatencyBypass /\ cf.threaded)

\* Clock and Read exclude each other, and without threads a bypass is used
\* before the Read of the same base cycle.
ThreadInv ==
    /\ rTime <= wTime + cf.lookahead + 1 /\ wTime <= rTime + cf.lookahead + 1
    /\ rPc = "read" => wPc # "moving"
    /\ cf.zeroLatencyBypass /\ ~cf.threaded =>
          /\ wTime <= rTime
          /\ wPc = "module" => rTime = wTime /\ rPc = "idle"
          /\ wPc = "moving" => wTime < rTime
          /\ rPc = "read" => rTime = wTime

\* The writer's thread counts the reader's cycles.
CycleInv ==
    /\ nextReaderCycle = Ceil(wTime, cf.rPeriod)
    /\ wPc = "moving" => wTime % cf.rPeriod = 0
    /\ \A i \in DOMAIN internalBuffer : Ceil(internalBuffer[i].at, cf.rPeriod) = nextReaderCycle

\* The row being written, and the items written to it.
RowInv ==
    failed = "none" =>
        /\ lastRow <= nextReaderCycle
        /\ lastRow = nextReaderCycle =>
              IF cf.zeroLatencyBypass THEN wPc # "moving" => rowEnd <= Len(internalBuffer)
              ELSE wPc = "moving" /\ rowEnd + Len(internalBuffer) <= cf.Bandwidth

\* The rows of the queue are in order, and the first item of each is marked;
\* CycleRowRead tells whether a Read is in the middle of the first row.
OrderInv ==
    Locked /\ failed = "none" =>
        /\ \A i \in DOMAIN queue : queue[i].row <= lastRow
        /\ \A i, j \in DOMAIN queue : i <= j => queue[i].row <= queue[j].row
        /\ \A i \in 1..Len(queue) - 1 : queue[i + 1].first <=> queue[i].row < queue[i + 1].row
        /\ queue # <<>> => queue[Len(queue)].row = lastRow
        /\ queue = <<>> => CycleRowRead <= lastRow + cf.Latency
        /\ queue # <<>> => IF queue[1].first THEN CycleRowRead < queue[1].row + cf.Latency
                                             ELSE CycleRowRead = queue[1].row + cf.Latency
        /\ rPc = "read" /\ rowDone => queue = <<>> \/ queue[1].first
        /\ lastRow = nextReaderCycle /\ queue = <<>> =>
              cf.zeroLatencyBypass /\ wPc # "module" /\ wTime % cf.rPeriod = 0

\* The items in the queue follow the one read last, and those in the internal
\* buffer follow them.
ItemsInv ==
    Locked /\ failed = "none" =>
        /\ \A i \in DOMAIN queue : queue[i].item = lastRead + i
        /\ ~cf.zeroLatencyBypass =>
              /\ \A i \in DOMAIN internalBuffer : internalBuffer[i].item = lastRead + Len(queue) + i
              /\ sent = lastRead + Len(queue) + Len(internalBuffer)
        /\ cf.zeroLatencyBypass => sent = lastRead + Len(queue)

\* No item in the queue is overdue, and each is in the row its writing calls for.
DueInv ==
    Sound /\ failed = "none" =>
        \A i \in DOMAIN queue : /\ Ceil(rTime, cf.rPeriod) <= queue[i].row + cf.Latency
                                /\ queue[i].row = Ceil(queue[i].at, cf.rPeriod)

IInv ==
    /\ DataInv /\ ThreadInv /\ CycleInv /\ RowInv /\ OrderInv /\ ItemsInv /\ DueInv
    /\ SoundConfigsDoNotFail

-----------------------------------------------------------------------------
(* Periods and sequences *)

\* A quotient is what multiplication says.
LEMMA Quotient ==
    ASSUME NEW t \in Nat, NEW q \in Nat, NEW p \in Nat \ {0}, q * p <= t, t < q * p + p
    PROVE  q = t \div p
OBVIOUS

\* How the cycles a time belongs to go on with time.
LEMMA CeilFacts ==
    ASSUME NEW p \in Nat \ {0}
    PROVE  /\ \A t \in Nat : Ceil(t, p) \in Nat
           /\ \A s, t \in Nat : s <= t => Ceil(s, p) <= Ceil(t, p)
           /\ \A t \in Nat : t % p = 0 => t \div p = Ceil(t, p) /\ Ceil(t + 1, p) = Ceil(t, p) + 1
           /\ \A t \in Nat : t % p # 0 => Ceil(t + 1, p) = Ceil(t, p)
           /\ \A t, n \in Nat : Ceil(t + n * p, p) = Ceil(t, p) + n
<1>1. ASSUME NEW t \in Nat PROVE Ceil(t, p) \in Nat
  BY DEF Ceil
<1>2. ASSUME NEW s \in Nat, NEW t \in Nat, s <= t PROVE Ceil(s, p) <= Ceil(t, p)
  BY <1>2 DEF Ceil
<1>3. ASSUME NEW t \in Nat, t % p = 0
      PROVE  t \div p = Ceil(t, p) /\ Ceil(t + 1, p) = Ceil(t, p) + 1
  BY <1>3 DEF Ceil
<1>4. ASSUME NEW t \in Nat, NEW n \in Nat PROVE Ceil(t + n * p, p) = Ceil(t, p) + n
  BY DEF Ceil
<1>5. ASSUME NEW t \in Nat, t % p # 0 PROVE Ceil(t + 1, p) = Ceil(t, p)
  <2>1. PICK q \in Nat : q = t \div p
    OBVIOUS
  <2>2. (t \div p) * p < t /\ t < (t \div p) * p + p
    BY <1>5
  <2>3. ASSUME NEW u \in Nat, u \in {t + p - 1, t + 1 + p - 1} PROVE q + 1 = u \div p
    <3>1. (q + 1) * p <= u /\ u < (q + 1) * p + p /\ q + 1 \in Nat
      BY <2>1, <2>2, <2>3
    <3>2. u \in Nat
      BY <2>3
    <3> QED BY <3>1, <3>2, Quotient
  <2>4. t + p - 1 \in Nat /\ t + 1 + p - 1 \in Nat
    OBVIOUS
  <2>5. (t + p - 1) \div p = q + 1
    BY <2>3, <2>4
  <2>6. (t + 1 + p - 1) \div p = q + 1
    BY <2>3, <2>4
  <2> QED BY <2>5, <2>6 DEF Ceil
<1> QED BY <1>1, <1>2, <1>3, <1>4, <1>5

\* What Append does, element by element.
LEMMA Appended ==
    ASSUME NEW S, NEW s \in Seq(S), NEW e \in S
    PROVE  /\ Append(s, e) \in Seq(S) /\ Append(s, e) # <<>>
           /\ Len(Append(s, e)) = Len(s) + 1 /\ Len(s) \in Nat
           /\ DOMAIN Append(s, e) = 1..Len(s) + 1 /\ DOMAIN s = 1..Len(s)
           /\ \A i \in 1..Len(s) : Append(s, e)[i] = s[i]
           /\ Append(s, e)[Len(s) + 1] = e
OBVIOUS

\* What Tail does, element by element.
LEMMA Removed ==
    ASSUME NEW S, NEW s \in Seq(S), s # <<>>
    PROVE  /\ Tail(s) \in Seq(S) /\ Head(s) = s[1] /\ s[1] \in S
           /\ Len(s) \in Nat /\ Len(s) >= 1 /\ Len(Tail(s)) = Len(s) - 1
           /\ DOMAIN Tail(s) = 1..Len(s) - 1 /\ DOMAIN s = 1..Len(s)
           /\ \A i \in 1..Len(s) - 1 : Tail(s)[i] = s[i + 1]
           /\ Tail(s) = <<>> <=> Len(s) = 1
<1>1. Len(s) \in Nat /\ Len(s) >= 1 /\ DOMAIN s = 1..Len(s) /\ s[1] \in S /\ Head(s) = s[1]
  OBVIOUS
<1>2. Tail(s) \in Seq(S) /\ Len(Tail(s)) = Len(s) - 1 /\ DOMAIN Tail(s) = 1..Len(s) - 1
  BY <1>1
<1>3. \A i \in 1..Len(s) - 1 : Tail(s)[i] = s[i + 1]
  BY <1>1
<1>4. Tail(s) = <<>> <=> Len(s) = 1
  <2>1. ASSUME NEW t \in Seq(S) PROVE t = <<>> <=> Len(t) = 0
    OBVIOUS
  <2>2. Tail(s) = <<>> <=> Len(Tail(s)) = 0
    BY <1>2, <2>1, Zenon
  <2> QED BY <1>1, <1>2, <2>2
<1> QED BY <1>1, <1>2, <1>3, <1>4

\* A configuration has the fields it should have.
LEMMA ConfigTypes ==
    ASSUME cf \in Configs
    PROVE  /\ cf.Latency \in Nat /\ cf.Bandwidth \in Nat /\ cf.Bandwidth >= 1
           /\ cf.wPeriod \in Nat \ {0} /\ cf.rPeriod \in Nat \ {0} /\ cf.lookahead \in Nat
           /\ cf.threaded \in BOOLEAN /\ cf.zeroLatencyBypass \in BOOLEAN
           /\ cf.zeroLatencyBypass => cf.Latency = 0
           /\ cf.threaded \/ cf.lookahead = 0
BY RateMatcherConstants DEF Config

\* What the invariant says of the types.
LEMMA Types ==
    ASSUME DataInv
    PROVE  /\ cf \in Configs /\ wTime \in Nat /\ rTime \in Nat
           /\ wTime <= MaxTime + 1 /\ rTime <= MaxTime + 1 /\ MaxTime \in Nat
           /\ wPc \in {"module", "matcher", "moving"} /\ rPc \in {"idle", "read"}
           /\ rowDone \in BOOLEAN /\ nextReaderCycle \in Nat
           /\ lastRow \in Int /\ lastRow >= -1 /\ CycleRowRead \in Int /\ rowEnd \in Nat
           /\ sent \in 0..MaxItems /\ lastRead \in 0..MaxItems /\ MaxItems \in Nat
           /\ internalBuffer \in Seq(Item) /\ Len(internalBuffer) <= cf.Bandwidth
           /\ queue \in Seq(Entry)
           /\ \A i \in DOMAIN queue : /\ queue[i].row \in Nat /\ queue[i].at \in Nat
                                      /\ queue[i].first \in BOOLEAN
                                      /\ queue[i].item \in 1..MaxItems
           /\ \A i \in DOMAIN internalBuffer : internalBuffer[i].item \in 1..MaxItems
<1>1. /\ internalBuffer \in Seq(Item) /\ queue \in Seq(Entry)
  BY DEF DataInv
<1>2. \A i \in DOMAIN queue : queue[i] \in Entry
  BY <1>1
<1>3. \A i \in DOMAIN internalBuffer : internalBuffer[i] \in Item
  BY <1>1
<1>4. \A i \in DOMAIN queue : /\ queue[i].row \in Nat /\ queue[i].at \in Nat
                              /\ queue[i].first \in BOOLEAN /\ queue[i].item \in 1..MaxItems
  BY <1>2 DEF Entry
<1>5. \A i \in DOMAIN internalBuffer : internalBuffer[i].item \in 1..MaxItems
  BY <1>3 DEF Item
<1> QED BY <1>1, <1>4, <1>5, RateMatcherConstants DEF DataInv, TypeOK

\* What is checked without a lock is not a property of the sound configurations.
LEMMA SoundIsLocked ==
    ASSUME cf \in Configs, Sound
    PROVE  Locked
BY ConfigTypes DEF Sound, Locked

-----------------------------------------------------------------------------
(* The writer's thread without the port *)

\* The items are not concerned when the writer's thread goes on without the port.
LEMMA ItemsUnchanged ==
    ASSUME IInv, UNCHANGED <<cf, internalBuffer, portVars, readerVars, failed, sent, lastRead>>
    PROVE  ItemsInv' /\ DueInv' /\ (TypeOK' => SoundConfigsDoNotFail')
BY DEF IInv, ItemsInv, DueInv, SoundConfigsDoNotFail, Sound, Locked, portVars, readerVars

\* The writer has been clocked.
LEMMA StepModuleDone ==
    ASSUME IInv, ModuleDone
    PROVE  IInv'
<1> USE DEF IInv
<1>1. /\ wPc = "module" /\ wPc' = "matcher" /\ failed = "none"
      /\ UNCHANGED <<cf, wTime, internalBuffer, nextReaderCycle, portVars, readerVars, failed,
                     sent, lastRead>>
  BY DEF ModuleDone, WriterMayRun
<1>2. DataInv'
  BY <1>1 DEF DataInv, TypeOK, portVars, readerVars
<1>3. ThreadInv'
  BY <1>1, Types, ConfigTypes DEF ThreadInv, readerVars
<1>4. CycleInv'
  BY <1>1 DEF CycleInv, readerVars
<1>5. RowInv'
  BY <1>1 DEF RowInv, portVars
<1>6. OrderInv'
  BY <1>1 DEF OrderInv, Locked, portVars, readerVars
<1> QED BY <1>1, <1>2, <1>3, <1>4, <1>5, <1>6, ItemsUnchanged DEF DataInv

\* The matcher is not due, so the time that follows is still in the same cycle.
LEMMA StepMatcherNotDue ==
    ASSUME IInv, MatcherNotDue
    PROVE  IInv'
<1> USE DEF IInv
<1>1. /\ wPc = "matcher" /\ wPc' = "module" /\ failed = "none" /\ wTime' = wTime + 1
      /\ wTime <= MaxTime /\ wTime <= rTime + cf.lookahead /\ (cf.threaded \/ rTime > wTime)
      /\ wTime % cf.rPeriod # 0
      /\ UNCHANGED <<cf, internalBuffer, nextReaderCycle, portVars, readerVars, failed,
                     sent, lastRead>>
  BY DEF MatcherNotDue, MatcherMayRun, WriterMayRun, InWindow
<1>2. Ceil(wTime', cf.rPeriod) = nextReaderCycle
  BY <1>1, Types, ConfigTypes, CeilFacts DEF CycleInv
<1>3. DataInv'
  BY <1>1, Types DEF DataInv, TypeOK, portVars, readerVars
<1>4. ThreadInv'
  <2>1. UNCHANGED <<cf, rTime, rPc>> /\ cf \in Configs
    BY <1>1, Types DEF readerVars
  <2>2. rTime <= wTime' + cf.lookahead + 1 /\ wTime' <= rTime + cf.lookahead + 1
    <3>1. wTime \in Nat /\ rTime \in Nat /\ cf.lookahead \in Nat
      BY <2>1, Types, ConfigTypes
    <3>2. rTime <= wTime + cf.lookahead + 1
      BY DEF ThreadInv
    <3> QED BY <1>1, <3>1, <3>2
  <2>3. ASSUME cf.zeroLatencyBypass, ~cf.threaded
        PROVE  wTime' = rTime /\ rPc = "idle"
    <3>1. cf.lookahead = 0 /\ wTime < rTime
      BY <1>1, <2>1, <2>3, ConfigTypes DEF ThreadInv
    <3>2. rPc # "read"
      BY <2>3, <3>1, Types DEF ThreadInv
    <3> QED BY <1>1, <3>1, <3>2, Types DEF ThreadInv
  <2>4. wTime' = rTime => wTime' <= rTime
    BY <1>1, Types
  <2> QED BY <1>1, <2>1, <2>2, <2>3, <2>4 DEF ThreadInv
<1>5. CycleInv'
  BY <1>1, <1>2 DEF CycleInv
<1>6. RowInv'
  BY <1>1 DEF RowInv, portVars
<1>7. OrderInv'
  BY <1>1 DEF OrderInv, Locked, portVars, readerVars
<1> QED BY <1>1, <1>3, <1>4, <1>5, <1>6, <1>7, ItemsUnchanged DEF DataInv

\* Clock takes the lock, and no item has yet been moved to the row it fills.
LEMMA StepClockBegin ==
    ASSUME IInv, ClockBegin
    PROVE  IInv'
<1> USE DEF IInv
<1>1. /\ wPc = "matcher" /\ wPc' = "moving" /\ failed = "none" /\ rPc # "read"
      /\ (cf.threaded \/ rTime > wTime) /\ wTime % cf.rPeriod = 0
      /\ UNCHANGED <<cf, wTime, internalBuffer, nextReaderCycle, portVars, readerVars, failed,
                     sent, lastRead>>
  BY DEF ClockBegin, MatcherMayRun, WriterMayRun
<1>3. DataInv'
  BY <1>1 DEF DataInv, TypeOK, portVars, readerVars
<1>4. ThreadInv'
  BY <1>1, Types, ConfigTypes DEF ThreadInv, readerVars
<1>5. CycleInv'
  BY <1>1 DEF CycleInv
<1>6. RowInv'
  BY <1>1 DEF RowInv, portVars
<1>7. OrderInv'
  BY <1>1 DEF OrderInv, RowInv, Locked, portVars, readerVars
<1> QED BY <1>1, <1>3, <1>4, <1>5, <1>6, <1>7, ItemsUnchanged DEF DataInv

\* Clock has moved all items; the next ones are for the next cycle.
LEMMA StepClockEnd ==
    ASSUME IInv, ClockEnd
    PROVE  IInv'
<1> USE DEF IInv
<1>1. /\ wPc = "moving" /\ wPc' = "module" /\ failed = "none" /\ wTime' = wTime + 1
      /\ wTime <= MaxTime /\ wTime <= rTime + cf.lookahead
      /\ internalBuffer = <<>> /\ nextReaderCycle' = wTime \div cf.rPeriod + 1
      /\ UNCHANGED <<cf, internalBuffer, portVars, readerVars, failed, sent, lastRead>>
  BY DEF ClockEnd, WriterMayRun, InWindow, CycleAfter, MatcherCycle
<1>2. /\ nextReaderCycle' = nextReaderCycle + 1
      /\ nextReaderCycle' = Ceil(wTime', cf.rPeriod)
  BY <1>1, Types, ConfigTypes, CeilFacts DEF CycleInv
<1>3. DataInv'
  BY <1>1, <1>2, Types DEF DataInv, TypeOK, portVars, readerVars
<1>4. ThreadInv'
  <2>1. UNCHANGED <<cf, rTime, rPc>> /\ cf \in Configs
    BY <1>1, Types DEF readerVars
  <2>2. rTime <= wTime' + cf.lookahead + 1 /\ wTime' <= rTime + cf.lookahead + 1
    <3>1. wTime \in Nat /\ rTime \in Nat /\ cf.lookahead \in Nat
      BY <2>1, Types, ConfigTypes
    <3>2. rTime <= wTime + cf.lookahead + 1
      BY DEF ThreadInv
    <3> QED BY <1>1, <3>1, <3>2
  <2>3. ASSUME cf.zeroLatencyBypass, ~cf.threaded
        PROVE  wTime' = rTime /\ rPc = "idle"
    <3>1. cf.lookahead = 0 /\ wTime < rTime
      BY <1>1, <2>1, <2>3, ConfigTypes DEF ThreadInv
    <3>2. rPc # "read"
      BY <2>3, <3>1, Types DEF ThreadInv
    <3> QED BY <1>1, <3>1, <3>2, Types DEF ThreadInv
  <2>4. wTime' = rTime => wTime' <= rTime
    BY <1>1, Types
  <2> QED BY <1>1, <2>1, <2>2, <2>3, <2>4 DEF ThreadInv
<1>5. CycleInv'
  BY <1>1, <1>2 DEF CycleInv
<1>6. RowInv'
  BY <1>1, <1>2, Types DEF RowInv, portVars
<1>7. OrderInv'
  BY <1>1, <1>2, Types DEF OrderInv, RowInv, Locked, portVars, readerVars
<1> QED BY <1>1, <1>3, <1>4, <1>5, <1>6, <1>7, ItemsUnchanged DEF DataInv

\* A writer that is stopped leaves everything as it is.
LEMMA StepWriteWhenFull ==
    ASSUME IInv, WriteWhenFull
    PROVE  IInv'
<1> USE DEF IInv
<1>1. /\ failed' = "full"
      /\ UNCHANGED <<cf, writerVars, portVars, readerVars, sent, lastRead>>
  BY DEF WriteWhenFull
<1>2. DataInv' /\ CycleInv'
  BY <1>1 DEF DataInv, TypeOK, CycleInv, writerVars, portVars, readerVars
<1>3. ThreadInv'
  BY <1>1 DEF ThreadInv, writerVars, readerVars
<1>4. RowInv' /\ OrderInv' /\ ItemsInv' /\ DueInv'
  BY <1>1 DEF RowInv, OrderInv, ItemsInv, DueInv
<1> QED BY <1>1, <1>2, <1>3, <1>4 DEF DataInv, SoundConfigsDoNotFail

-----------------------------------------------------------------------------
(* Writing to the port *)

\* The writer's thread is about to write to the port.
AtPort ==
    /\ failed = "none" /\ wTime <= rTime + cf.lookahead
    /\ IF cf.zeroLatencyBypass THEN wPc = "module" /\ Len(internalBuffer) < cf.Bandwidth
       ELSE wPc = "moving" /\ internalBuffer # <<>>

\* The cycle the matcher is clocked with is the one the writer's thread counts.
LEMMA MovingCycle ==
    ASSUME IInv, wPc = "moving"
    PROVE  MatcherCycle = nextReaderCycle
BY Types, ConfigTypes, CeilFacts DEF IInv, CycleInv, MatcherCycle

\* The writer's thread is at most three cycles of the reader ahead.
LEMMA CyclesAhead ==
    ASSUME IInv, Sound, AtPort
    PROVE  nextReaderCycle <= Ceil(rTime, cf.rPeriod) + 3
<1>1. /\ cf \in Configs /\ wTime \in Nat /\ rTime \in Nat /\ cf.rPeriod \in Nat \ {0}
      /\ cf.lookahead \in Nat /\ nextReaderCycle = Ceil(wTime, cf.rPeriod)
  BY Types, ConfigTypes DEF IInv, CycleInv
<1>2. Ceil(rTime, cf.rPeriod) \in Nat /\ Ceil(wTime, cf.rPeriod) \in Nat
  BY <1>1, CeilFacts
<1>3. CASE cf.zeroLatencyBypass
  <2>1. ~cf.threaded /\ wPc = "module"
    BY <1>1, <1>3, SoundIsLocked DEF Locked, AtPort
  <2>2. rTime = wTime
    BY <1>3, <2>1 DEF IInv, ThreadInv
  <2> QED BY <1>1, <1>2, <2>2
<1>4. CASE ~cf.zeroLatencyBypass
  <2>1. wTime % cf.rPeriod = 0 /\ cf.lookahead < 4 * cf.rPeriod /\ wTime <= rTime + cf.lookahead
    BY <1>4 DEF IInv, CycleInv, AtPort, Sound
  <2>2. Ceil(wTime + 1, cf.rPeriod) = nextReaderCycle + 1
    BY <1>1, <2>1, CeilFacts
  <2>3. wTime + 1 <= rTime + 4 * cf.rPeriod /\ rTime + 4 * cf.rPeriod \in Nat /\ wTime + 1 \in Nat
    BY <1>1, <2>1
  <2>4. Ceil(wTime + 1, cf.rPeriod) <= Ceil(rTime + 4 * cf.rPeriod, cf.rPeriod)
    BY <1>1, <2>3, CeilFacts
  <2>5. Ceil(rTime + 4 * cf.rPeriod, cf.rPeriod) = Ceil(rTime, cf.rPeriod) + 4
    BY <1>1, CeilFacts
  <2> QED BY <1>1, <1>2, <2>2, <2>4, <2>5
<1> QED BY <1>3, <1>4

\* So the rows in use are of the last Latency + 3 cycles, and one is free.
LEMMA RowIsFree ==
    ASSUME IInv, Sound, AtPort, BeginsRow(nextReaderCycle)
    PROVE  RowsUsed # BufferRows
<1> DEFINE first == nextReaderCycle - cf.Latency - 3
           last  == nextReaderCycle - 1
           rows  == {queue[i].row : i \in DOMAIN queue}
<1>1. /\ cf \in Configs /\ cf.Latency \in Nat /\ nextReaderCycle \in Nat /\ lastRow \in Int
      /\ Ceil(rTime, cf.rPeriod) \in Nat /\ failed = "none"
      /\ \A i \in DOMAIN queue : queue[i].row \in Nat
  BY Types, ConfigTypes, CeilFacts DEF IInv, AtPort
<1>2. lastRow < nextReaderCycle
  BY <1>1 DEF IInv, RowInv, BeginsRow
<1>3. ASSUME NEW i \in DOMAIN queue PROVE queue[i].row \in first..last
  <2>1. queue[i].row <= lastRow
    BY <1>1, SoundIsLocked DEF IInv, OrderInv
  <2>2. Ceil(rTime, cf.rPeriod) <= queue[i].row + cf.Latency
    BY <1>1 DEF IInv, DueInv
  <2> QED BY <1>1, <1>2, <2>1, <2>2, CyclesAhead
<1>4. rows \subseteq first..last
  BY <1>3
<1>5. first \in Int /\ last \in Int /\ last - first + 1 = cf.Latency + 3 /\ first <= last
  BY <1>1
<1> HIDE DEF first, last
<1>6. IsFiniteSet(first..last) /\ Cardinality(first..last) = cf.Latency + 3
  BY <1>5, FS_Interval
<1>7. Cardinality(rows) <= cf.Latency + 3 /\ Cardinality(rows) \in Nat
  BY <1>1, <1>4, <1>6, FS_Subset, FS_CardinalityType
<1> QED BY <1>1, <1>7 DEF RowsUsed, BufferRows

\* In a sound configuration no ASSERT of Write fires.
LEMMA PortAccepts ==
    ASSUME IInv, Sound, AtPort
    PROVE  PortFails(nextReaderCycle) = "none"
<1>1. /\ cf.Bandwidth \in Nat /\ nextReaderCycle \in Nat /\ lastRow \in Int /\ rowEnd \in Nat
      /\ failed = "none" /\ Len(internalBuffer) \in Nat /\ lastRow <= nextReaderCycle
      /\ internalBuffer \in Seq(Item)
  BY Types, ConfigTypes DEF IInv, AtPort, RowInv
<1>2. ~BeginsRow(nextReaderCycle) => rowEnd < cf.Bandwidth
  <2>1. CASE cf.zeroLatencyBypass
    BY <1>1, <2>1 DEF IInv, RowInv, AtPort, BeginsRow
  <2>2. CASE ~cf.zeroLatencyBypass
    <3>1. Len(internalBuffer) >= 1
      BY <1>1, <2>2, Removed DEF AtPort
    <3> QED BY <1>1, <2>2, <3>1 DEF IInv, RowInv, BeginsRow
  <2> QED BY <2>1, <2>2
<1>3. BeginsRow(nextReaderCycle) => RowsUsed # BufferRows
  BY RowIsFree
<1>4. ~(BeginsRow(nextReaderCycle) /\ lastRow > nextReaderCycle)
  BY <1>1
<1>5. ~(~BeginsRow(nextReaderCycle) /\ rowEnd >= cf.Bandwidth)
  BY <1>1, <1>2
<1> QED BY <1>3, <1>4, <1>5 DEF PortFails

\* Under the lock a row is not passed while it is being written.
LEMMA NotPassed ==
    ASSUME IInv, AtPort, Locked
    PROVE  /\ ~Passed(nextReaderCycle) /\ rPc = "idle"
           /\ queue = <<>> => BeginsRow(nextReaderCycle)
<1>1. rPc \in {"idle", "read"} /\ failed = "none"
  BY Types DEF IInv, AtPort
<1>2. rPc = "idle"
  <2>1. CASE cf.zeroLatencyBypass
    BY <1>1, <2>1 DEF AtPort, Locked, IInv, ThreadInv
  <2>2. CASE ~cf.zeroLatencyBypass
    BY <1>1, <2>2 DEF AtPort, IInv, ThreadInv
  <2> QED BY <2>1, <2>2
<1>3. queue = <<>> => BeginsRow(nextReaderCycle)
  BY <1>1 DEF AtPort, IInv, OrderInv, BeginsRow
<1> QED BY <1>2, <1>3 DEF Passed

\* The item goes to the end of the queue.
LEMMA ItemAppended ==
    ASSUME IInv, AtPort, NEW d \in Item, PortWrite(d, nextReaderCycle)
    PROVE  /\ queue' \in Seq(Entry) /\ lastRow' = nextReaderCycle /\ rowEnd' \in Nat
           /\ rowEnd' = IF BeginsRow(nextReaderCycle) THEN 1 ELSE rowEnd + 1
           /\ CycleRowRead' = CycleRowRead
           /\ Locked =>
                 /\ Len(queue') = Len(queue) + 1 /\ DOMAIN queue' = 1..Len(queue) + 1
                 /\ DOMAIN queue = 1..Len(queue) /\ Len(queue) \in Nat /\ queue' # <<>>
                 /\ \A i \in 1..Len(queue) : queue'[i] = queue[i]
                 /\ queue'[Len(queue) + 1].item = d.item
                 /\ queue'[Len(queue) + 1].at = d.at
                 /\ queue'[Len(queue) + 1].row = nextReaderCycle
                 /\ queue'[Len(queue) + 1].first = BeginsRow(nextReaderCycle)
<1> DEFINE e == [item |-> d.item, at |-> d.at, row |-> nextReaderCycle,
                 first |-> BeginsRow(nextReaderCycle)]
<1>1. queue \in Seq(Entry) /\ nextReaderCycle \in Nat /\ rowEnd \in Nat
  BY Types DEF IInv
<1>2. BeginsRow(nextReaderCycle) \in BOOLEAN
  BY DEF BeginsRow
<1>3. e \in Entry
  BY <1>1, <1>2 DEF Item, Entry
<1>4. /\ e.item = d.item /\ e.at = d.at /\ e.row = nextReaderCycle
      /\ e.first = BeginsRow(nextReaderCycle)
  OBVIOUS
<1>5. /\ queue' = IF Passed(nextReaderCycle) THEN queue ELSE Append(queue, e)
      /\ lastRow' = nextReaderCycle
      /\ rowEnd' = IF BeginsRow(nextReaderCycle) THEN 1 ELSE rowEnd + 1
      /\ CycleRowRead' = CycleRowRead
  BY DEF PortWrite
<1> HIDE DEF e
<1>6. queue' \in Seq(Entry) /\ rowEnd' \in Nat
  BY <1>1, <1>3, <1>5, Appended
<1>7. ASSUME Locked PROVE queue' = Append(queue, e)
  BY <1>5, <1>7, NotPassed
<1> QED BY <1>1, <1>3, <1>4, <1>5, <1>6, <1>7, Appended

\* What was so of the order of the queue is so with the new item.
LEMMA OrderKept ==
    ASSUME IInv, AtPort, NEW d \in Item, PortWrite(d, nextReaderCycle),
           UNCHANGED <<cf, rPc, rowDone, nextReaderCycle>>
    PROVE  OrderInv'
<1> SUFFICES ASSUME Locked, failed' = "none"
             PROVE  OrderInv'
  BY DEF OrderInv, Locked
<1>1. /\ cf \in Configs /\ cf.Latency \in Nat /\ nextReaderCycle \in Nat /\ lastRow \in Int
      /\ CycleRowRead \in Int /\ failed = "none" /\ queue \in Seq(Entry)
      /\ \A i \in DOMAIN queue : queue[i].row \in Nat /\ queue[i].first \in BOOLEAN
  BY Types, ConfigTypes DEF IInv, AtPort
<1>2. lastRow <= nextReaderCycle
  BY <1>1 DEF IInv, RowInv
<1>3. /\ Len(queue') = Len(queue) + 1 /\ DOMAIN queue' = 1..Len(queue) + 1
      /\ DOMAIN queue = 1..Len(queue) /\ Len(queue) \in Nat /\ queue' # <<>>
      /\ \A i \in 1..Len(queue) : queue'[i] = queue[i]
      /\ queue'[Len(queue) + 1].row = nextReaderCycle
      /\ queue'[Len(queue) + 1].first = BeginsRow(nextReaderCycle)
      /\ lastRow' = nextReaderCycle /\ CycleRowRead' = CycleRowRead
  BY ItemAppended
<1>4. /\ \A i \in DOMAIN queue : queue[i].row <= lastRow
      /\ \A i, j \in DOMAIN queue : i <= j => queue[i].row <= queue[j].row
      /\ \A i \in 1..Len(queue) - 1 : queue[i + 1].first <=> queue[i].row < queue[i + 1].row
      /\ queue # <<>> => queue[Len(queue)].row = lastRow
      /\ queue = <<>> => CycleRowRead <= lastRow + cf.Latency
      /\ queue # <<>> => IF queue[1].first THEN CycleRowRead < queue[1].row + cf.Latency
                                           ELSE CycleRowRead = queue[1].row + cf.Latency
  BY <1>1 DEF IInv, OrderInv
<1>5. queue = <<>> <=> Len(queue) = 0
  BY <1>1
<1>6. \A i \in DOMAIN queue' : queue'[i].row <= lastRow'
  BY <1>1, <1>2, <1>3, <1>4
<1>7. ASSUME NEW i \in 1..Len(queue') - 1
      PROVE  queue'[i + 1].first <=> queue'[i].row < queue'[i + 1].row
  <2>1. CASE i = Len(queue)
    <3>1. queue'[i].row = lastRow /\ queue'[i + 1].row = nextReaderCycle
      BY <1>3, <1>4, <1>5, <1>7, <2>1
    <3>2. queue'[i + 1].first <=> lastRow # nextReaderCycle
      BY <1>3, <2>1 DEF BeginsRow
    <3> QED BY <1>1, <1>2, <3>1, <3>2
  <2>2. CASE i # Len(queue)
    <3>1. i \in 1..Len(queue) - 1 /\ i \in 1..Len(queue) /\ i + 1 \in 1..Len(queue)
      <4>1. /\ Len(queue') = Len(queue) + 1 /\ Len(queue) \in Nat
            /\ i \in Nat /\ 1 <= i /\ i <= Len(queue') - 1
        BY <1>3, <1>7
      <4> QED BY <2>2, <4>1
    <3>2. queue'[i] = queue[i] /\ queue'[i + 1] = queue[i + 1]
      BY <1>3, <3>1
    <3> QED BY <1>4, <3>1, <3>2
  <2> QED BY <2>1, <2>2
<1>8. queue'[Len(queue')].row = lastRow'
  BY <1>3
<1>9. IF queue'[1].first THEN CycleRowRead < queue'[1].row + cf.Latency
                         ELSE CycleRowRead = queue'[1].row + cf.Latency
  <2>1. CASE queue = <<>>
    <3>0. BeginsRow(nextReaderCycle) /\ Len(queue) = 0
      BY <1>5, <2>1, NotPassed
    <3>1. queue'[1].row = nextReaderCycle /\ queue'[1].first /\ lastRow # nextReaderCycle
      <4>1. queue'[1].row = nextReaderCycle /\ queue'[1].first = BeginsRow(nextReaderCycle)
        <5>1. Len(queue) + 1 = 1
          BY <3>0
        <5> QED BY <1>3, <5>1, Zenon
      <4> QED BY <3>0, <4>1 DEF BeginsRow
    <3> QED BY <1>1, <1>2, <1>4, <2>1, <3>1
  <2>2. CASE queue # <<>>
    <3>1. 1 \in 1..Len(queue)
      BY <1>3, <1>5, <2>2
    <3>2. queue'[1] = queue[1]
      BY <1>3, <3>1
    <3> QED BY <1>4, <2>2, <3>2
  <2> QED BY <2>1, <2>2
<1>10. rPc' # "read"
  BY NotPassed
<1>11. ASSUME NEW i \in DOMAIN queue', NEW j \in DOMAIN queue', i <= j
       PROVE  queue'[i].row <= queue'[j].row
  <2>1. CASE j \in DOMAIN queue
    BY <1>3, <1>4, <1>11, <2>1
  <2>2. CASE j \notin DOMAIN queue
    <3>1. j = Len(queue) + 1
      BY <1>3, <1>11, <2>2
    <3> QED BY <1>3, <1>6, <1>11, <3>1
  <2> QED BY <2>1, <2>2
<1> QED BY <1>3, <1>6, <1>7, <1>8, <1>9, <1>10, <1>11 DEF OrderInv

\* A new item is not overdue: the reader is less than the latency ahead.
LEMMA DueKept ==
    ASSUME IInv, AtPort, NEW d \in Item, PortWrite(d, nextReaderCycle),
           Ceil(d.at, cf.rPeriod) = nextReaderCycle, UNCHANGED <<cf, rTime>>
    PROVE  DueInv'
<1> SUFFICES ASSUME Sound, failed' = "none", NEW i \in DOMAIN queue'
             PROVE  /\ Ceil(rTime, cf.rPeriod) <= queue'[i].row + cf.Latency
                    /\ queue'[i].row = Ceil(queue'[i].at, cf.rPeriod)
  BY DEF DueInv, Sound
<1>1. /\ cf \in Configs /\ cf.Latency \in Nat /\ cf.rPeriod \in Nat \ {0} /\ cf.lookahead \in Nat
      /\ wTime \in Nat /\ rTime \in Nat /\ failed = "none" /\ nextReaderCycle = Ceil(wTime, cf.rPeriod)
  BY Types, ConfigTypes DEF IInv, AtPort, CycleInv
<1>2. Locked
  BY <1>1, SoundIsLocked
<1>3. CASE i \in DOMAIN queue
  <2>1. queue'[i] = queue[i]
    BY <1>2, <1>3, ItemAppended
  <2> QED BY <1>1, <1>3, <2>1 DEF IInv, DueInv
<1>4. CASE i \notin DOMAIN queue
  <2>1. queue'[i].row = nextReaderCycle /\ queue'[i].at = d.at
    <3>1. i = Len(queue) + 1
      BY <1>2, <1>4, ItemAppended
    <3> QED BY <1>2, <3>1, ItemAppended
  <2>2. Ceil(rTime, cf.rPeriod) <= nextReaderCycle + cf.Latency
    <3>1. CASE cf.zeroLatencyBypass
      <4>1. rTime = wTime
        BY <1>2, <3>1 DEF Locked, AtPort, IInv, ThreadInv
      <4>2. Ceil(rTime, cf.rPeriod) \in Nat
        BY <1>1, CeilFacts
      <4> QED BY <1>1, <4>1, <4>2
    <3>2. CASE ~cf.zeroLatencyBypass
      <4>1. cf.lookahead < cf.Latency * cf.rPeriod /\ rTime <= wTime + cf.lookahead + 1
        BY <3>2 DEF Sound, IInv, ThreadInv
      <4>2. PICK ahead \in Nat : ahead = cf.Latency * cf.rPeriod
        BY <1>1
      <4>3. rTime <= wTime + ahead /\ wTime + ahead \in Nat
        BY <1>1, <4>1, <4>2
      <4>4. Ceil(rTime, cf.rPeriod) <= Ceil(wTime + ahead, cf.rPeriod)
        BY <1>1, <4>3, CeilFacts
      <4>5. Ceil(wTime + ahead, cf.rPeriod) = Ceil(wTime, cf.rPeriod) + cf.Latency
        BY <1>1, <4>2, CeilFacts
      <4> QED BY <1>1, <4>4, <4>5
    <3> QED BY <3>1, <3>2
  <2> QED BY <2>1, <2>2
<1> QED BY <1>3, <1>4

\* An item that is to be written follows those that have been.
LEMMA NewItem ==
    ASSUME IInv, sent < MaxItems
    PROVE  /\ [item |-> sent + 1, at |-> wTime] \in Item
           /\ [item |-> sent + 1, at |-> wTime].item = sent + 1
           /\ [item |-> sent + 1, at |-> wTime].at = wTime
BY Types DEF IInv, Item

\* The writer's item goes to the internal buffer and, with the bypass, to the port.
LEMMA StepWrite ==
    ASSUME IInv, Write
    PROVE  IInv'
<1> DEFINE d == [item |-> sent + 1, at |-> wTime]
<1>1. /\ failed = "none" /\ wTime <= rTime + cf.lookahead /\ wPc = "module"
      /\ Len(internalBuffer) < cf.Bandwidth /\ sent < MaxItems
      /\ internalBuffer' = Append(internalBuffer, d) /\ sent' = sent + 1
      /\ \/ cf.zeroLatencyBypass /\ PortWrite(d, nextReaderCycle)
         \/ ~cf.zeroLatencyBypass /\ UNCHANGED <<portVars, failed>>
      /\ UNCHANGED <<cf, wTime, wPc, nextReaderCycle, readerVars, lastRead>>
  BY DEF Write, WriterMayRun, InWindow, WriterDue, CanWrite
<1>2. d \in Item /\ d.item = sent + 1 /\ d.at = wTime
  BY <1>1, NewItem
<1> HIDE DEF d
<1>3. /\ UNCHANGED <<rTime, rPc, rowDone>>
  BY <1>1 DEF readerVars
<1>4. /\ cf \in Configs /\ internalBuffer \in Seq(Item) /\ cf.Bandwidth \in Nat
      /\ sent \in Nat /\ lastRead \in Nat /\ rowEnd \in Nat /\ lastRow \in Int /\ queue \in Seq(Entry)
      /\ nextReaderCycle \in Nat /\ MaxItems \in Nat
  BY Types, ConfigTypes DEF IInv
<1>5. /\ internalBuffer' \in Seq(Item) /\ Len(internalBuffer') = Len(internalBuffer) + 1
      /\ DOMAIN internalBuffer' = 1..Len(internalBuffer) + 1
      /\ DOMAIN internalBuffer = 1..Len(internalBuffer) /\ Len(internalBuffer) \in Nat
      /\ \A i \in 1..Len(internalBuffer) : internalBuffer'[i] = internalBuffer[i]
      /\ internalBuffer'[Len(internalBuffer) + 1] = d
  BY <1>1, <1>2, <1>4, Appended
<1>6. nextReaderCycle = Ceil(wTime, cf.rPeriod) /\ Ceil(d.at, cf.rPeriod) = nextReaderCycle
  BY <1>2 DEF IInv, CycleInv
<1>7. cf.zeroLatencyBypass => AtPort /\ PortWrite(d, nextReaderCycle)
  BY <1>1 DEF AtPort
<1>8. ~cf.zeroLatencyBypass => UNCHANGED <<queue, lastRow, rowEnd, CycleRowRead, failed>>
  BY <1>1 DEF portVars
<1>9. CycleInv'
  <2>1. ASSUME NEW i \in DOMAIN internalBuffer'
        PROVE  Ceil(internalBuffer'[i].at, cf.rPeriod) = nextReaderCycle
    <3>1. CASE i \in DOMAIN internalBuffer
      BY <1>5, <3>1 DEF IInv, CycleInv
    <3>2. CASE i \notin DOMAIN internalBuffer
      <4>1. i = Len(internalBuffer) + 1
        BY <1>5, <2>1, <3>2
      <4> QED BY <1>5, <1>6, <4>1
    <3> QED BY <3>1, <3>2
  <2> QED BY <1>1, <1>6, <2>1 DEF CycleInv
<1>10. ThreadInv'
  BY <1>1, <1>3 DEF IInv, ThreadInv
<1>11. DataInv'
  <2>1. /\ queue' \in Seq(Entry) /\ lastRow' \in Int /\ lastRow' >= -1
        /\ CycleRowRead' \in Int /\ rowEnd' \in Nat
    <3>1. CASE cf.zeroLatencyBypass
      BY <1>2, <1>4, <1>7, <3>1, ItemAppended, Types DEF IInv
    <3>2. CASE ~cf.zeroLatencyBypass
      BY <1>8, <3>2, Types DEF IInv
    <3> QED BY <3>1, <3>2
  <2>2. sent' \in 0..MaxItems /\ Len(internalBuffer') <= cf.Bandwidth
    BY <1>1, <1>4, <1>5
  <2>3. TypeOK'
    BY <1>1, <1>3, <2>1, <2>2 DEF IInv, DataInv, TypeOK
  <2> QED BY <1>5, <2>1, <2>3 DEF DataInv
<1>12. RowInv'
  <2> SUFFICES ASSUME failed' = "none"
               PROVE  RowInv'
    BY DEF RowInv
  <2>1. CASE cf.zeroLatencyBypass
    <3>1. /\ lastRow' = nextReaderCycle
          /\ rowEnd' = IF BeginsRow(nextReaderCycle) THEN 1 ELSE rowEnd + 1
      BY <1>2, <1>7, <2>1, ItemAppended
    <3>2. ~BeginsRow(nextReaderCycle) => rowEnd <= Len(internalBuffer)
      BY <1>1, <2>1 DEF IInv, RowInv, BeginsRow
    <3>3. rowEnd' <= Len(internalBuffer')
      BY <1>4, <1>5, <3>1, <3>2
    <3> QED BY <1>1, <1>4, <2>1, <3>1, <3>3 DEF RowInv
  <2>2. CASE ~cf.zeroLatencyBypass
    BY <1>1, <1>8, <2>2 DEF IInv, RowInv
  <2> QED BY <2>1, <2>2
<1>13. OrderInv'
  <2>1. CASE cf.zeroLatencyBypass
    BY <1>1, <1>2, <1>3, <1>7, <2>1, OrderKept
  <2>2. CASE ~cf.zeroLatencyBypass
    BY <1>1, <1>3, <1>8, <2>2 DEF IInv, OrderInv, Locked
  <2> QED BY <2>1, <2>2
<1>14. DueInv'
  <2>1. CASE cf.zeroLatencyBypass
    BY <1>1, <1>2, <1>3, <1>6, <1>7, <2>1, DueKept
  <2>2. CASE ~cf.zeroLatencyBypass
    BY <1>1, <1>3, <1>8, <2>2 DEF IInv, DueInv, Sound
  <2> QED BY <2>1, <2>2
<1>15. ItemsInv'
  <2> SUFFICES ASSUME Locked, failed' = "none"
               PROVE  ItemsInv'
    BY <1>1 DEF ItemsInv, Locked
  <2>1. CASE cf.zeroLatencyBypass
    <3>1. /\ \A i \in DOMAIN queue : queue[i].item = lastRead + i
          /\ sent = lastRead + Len(queue)
      BY <1>1, <2>1 DEF IInv, ItemsInv
    <3>2. /\ Len(queue') = Len(queue) + 1 /\ DOMAIN queue' = 1..Len(queue) + 1
          /\ DOMAIN queue = 1..Len(queue) /\ Len(queue) \in Nat
          /\ \A i \in 1..Len(queue) : queue'[i] = queue[i]
          /\ queue'[Len(queue) + 1].item = sent + 1
      BY <1>2, <1>7, <2>1, ItemAppended
    <3>3. sent' = lastRead + Len(queue')
      BY <1>1, <1>4, <3>1, <3>2
    <3>4. ASSUME NEW i \in DOMAIN queue' PROVE queue'[i].item = lastRead + i
      <4>1. CASE i \in DOMAIN queue
        BY <3>1, <3>2, <4>1
      <4>2. CASE i \notin DOMAIN queue
        <5>1. i = Len(queue) + 1
          BY <3>2, <3>4, <4>2
        <5> QED BY <1>4, <3>1, <3>2, <5>1
      <4> QED BY <4>1, <4>2
    <3> QED BY <1>1, <2>1, <3>3, <3>4 DEF ItemsInv
  <2>2. CASE ~cf.zeroLatencyBypass
    <3>1. /\ \A i \in DOMAIN queue : queue[i].item = lastRead + i
          /\ \A i \in DOMAIN internalBuffer : internalBuffer[i].item = lastRead + Len(queue) + i
          /\ sent = lastRead + Len(queue) + Len(internalBuffer)
      BY <1>1, <2>2 DEF IInv, ItemsInv
    <3>2. queue' = queue /\ Len(queue) \in Nat
      BY <1>4, <1>8, <2>2
    <3>3. sent' = lastRead + Len(queue) + Len(internalBuffer')
      BY <1>1, <1>4, <1>5, <3>1, <3>2
    <3>4. ASSUME NEW i \in DOMAIN internalBuffer'
          PROVE  internalBuffer'[i].item = lastRead + Len(queue) + i
      <4>1. CASE i \in DOMAIN internalBuffer
        BY <1>5, <3>1, <4>1
      <4>2. CASE i \notin DOMAIN internalBuffer
        <5>1. i = Len(internalBuffer) + 1
          BY <1>5, <3>4, <4>2
        <5>2. internalBuffer'[i].item = sent + 1
          BY <1>2, <1>5, <5>1
        <5> QED BY <1>4, <1>5, <3>1, <3>2, <5>1, <5>2
      <4> QED BY <4>1, <4>2
    <3> QED BY <1>1, <2>2, <3>1, <3>2, <3>3, <3>4 DEF ItemsInv
  <2> QED BY <2>1, <2>2
<1>16. SoundConfigsDoNotFail'
  <2>1. ASSUME Sound PROVE failed' = "none"
    <3>1. CASE cf.zeroLatencyBypass
      BY <1>7, <2>1, <3>1, PortAccepts DEF PortWrite
    <3>2. CASE ~cf.zeroLatencyBypass
      BY <1>1, <1>8, <3>2
    <3> QED BY <3>1, <3>2
  <2> QED BY <1>1, <1>11, <2>1 DEF SoundConfigsDoNotFail, Sound, DataInv
<1> QED BY <1>9, <1>10, <1>11, <1>12, <1>13, <1>14, <1>15, <1>16 DEF IInv

\* Clock moves an item to the port, unless the bypass has put it there already.
LEMMA StepMove ==
    ASSUME IInv, Move
    PROVE  IInv'
<1> DEFINE d == Head(internalBuffer)
<1>1. /\ failed = "none" /\ wTime <= rTime + cf.lookahead /\ wPc = "moving" /\ internalBuffer # <<>>
      /\ internalBuffer' = Tail(internalBuffer)
      /\ \/ cf.zeroLatencyBypass /\ UNCHANGED <<portVars, failed>>
         \/ ~cf.zeroLatencyBypass /\ PortWrite(d, nextReaderCycle)
      /\ UNCHANGED <<cf, wTime, wPc, nextReaderCycle, readerVars, sent, lastRead>>
  BY MovingCycle DEF Move, WriterMayRun, InWindow
<1>2. UNCHANGED <<rTime, rPc, rowDone>>
  BY <1>1 DEF readerVars
<1>3. /\ cf \in Configs /\ internalBuffer \in Seq(Item) /\ cf.Bandwidth \in Nat
      /\ sent \in Nat /\ lastRead \in Nat /\ rowEnd \in Nat /\ lastRow \in Int /\ queue \in Seq(Entry)
      /\ nextReaderCycle \in Nat /\ cf.Bandwidth >= 1 /\ Len(internalBuffer) <= cf.Bandwidth
      /\ cf.zeroLatencyBypass \in BOOLEAN
  BY Types, ConfigTypes DEF IInv
<1>4. /\ internalBuffer' \in Seq(Item) /\ Len(internalBuffer') = Len(internalBuffer) - 1
      /\ DOMAIN internalBuffer' = 1..Len(internalBuffer) - 1
      /\ DOMAIN internalBuffer = 1..Len(internalBuffer) /\ Len(internalBuffer) \in Nat
      /\ Len(internalBuffer) >= 1
      /\ \A i \in 1..Len(internalBuffer) - 1 : internalBuffer'[i] = internalBuffer[i + 1]
      /\ d = internalBuffer[1] /\ d \in Item
  BY <1>1, <1>3, Removed
<1> HIDE DEF d
<1>5. Ceil(d.at, cf.rPeriod) = nextReaderCycle
  <2>1. 1 \in DOMAIN internalBuffer
    BY <1>4
  <2> QED BY <1>4, <2>1 DEF IInv, CycleInv
<1>6. ~cf.zeroLatencyBypass => AtPort /\ PortWrite(d, nextReaderCycle)
  BY <1>1 DEF AtPort
<1>7. cf.zeroLatencyBypass => UNCHANGED <<queue, lastRow, rowEnd, CycleRowRead, failed>>
  BY <1>1 DEF portVars
<1>8. CycleInv'
  <2>1. ASSUME NEW i \in DOMAIN internalBuffer'
        PROVE  Ceil(internalBuffer'[i].at, cf.rPeriod) = nextReaderCycle
    <3>1. i \in 1..Len(internalBuffer) - 1 /\ i + 1 \in DOMAIN internalBuffer
      BY <1>4, <2>1
    <3> QED BY <1>4, <3>1 DEF IInv, CycleInv
  <2> QED BY <1>1, <2>1 DEF IInv, CycleInv
<1>9. ThreadInv'
  BY <1>1, <1>2 DEF IInv, ThreadInv
<1>10. DataInv'
  <2>1. /\ queue' \in Seq(Entry) /\ lastRow' \in Int /\ lastRow' >= -1
        /\ CycleRowRead' \in Int /\ rowEnd' \in Nat
    <3>1. CASE ~cf.zeroLatencyBypass
      BY <1>3, <1>4, <1>6, <3>1, ItemAppended, Types DEF IInv
    <3>2. CASE cf.zeroLatencyBypass
      BY <1>7, <3>2, Types DEF IInv
    <3> QED BY <3>1, <3>2
  <2>2. Len(internalBuffer') <= cf.Bandwidth
    BY <1>3, <1>4
  <2>3. TypeOK'
    BY <1>1, <1>2, <2>1, <2>2 DEF IInv, DataInv, TypeOK
  <2> QED BY <1>4, <2>1, <2>3 DEF DataInv
<1>11. RowInv'
  <2> SUFFICES ASSUME failed' = "none"
               PROVE  RowInv'
    BY DEF RowInv
  <2>1. CASE ~cf.zeroLatencyBypass
    <3>1. /\ lastRow' = nextReaderCycle
          /\ rowEnd' = IF BeginsRow(nextReaderCycle) THEN 1 ELSE rowEnd + 1
      BY <1>4, <1>6, <2>1, ItemAppended
    <3>2. ~BeginsRow(nextReaderCycle) => rowEnd + Len(internalBuffer) <= cf.Bandwidth
      BY <1>1, <2>1 DEF IInv, RowInv, BeginsRow
    <3>3. rowEnd' + Len(internalBuffer') <= cf.Bandwidth
      BY <1>3, <1>4, <3>1, <3>2
    <3> QED BY <1>1, <1>3, <2>1, <3>1, <3>3 DEF RowInv
  <2>2. CASE cf.zeroLatencyBypass
    BY <1>1, <1>7, <2>2 DEF IInv, RowInv
  <2> QED BY <2>1, <2>2
<1>12. OrderInv'
  <2>1. CASE ~cf.zeroLatencyBypass
    BY <1>1, <1>2, <1>4, <1>6, <2>1, OrderKept
  <2>2. CASE cf.zeroLatencyBypass
    BY <1>1, <1>2, <1>7, <2>2 DEF IInv, OrderInv, Locked
  <2> QED BY <2>1, <2>2
<1>13. DueInv'
  <2>1. CASE ~cf.zeroLatencyBypass
    BY <1>1, <1>2, <1>4, <1>5, <1>6, <2>1, DueKept
  <2>2. CASE cf.zeroLatencyBypass
    BY <1>1, <1>2, <1>7, <2>2 DEF IInv, DueInv, Sound
  <2> QED BY <2>1, <2>2
<1>14. ItemsInv'
  <2> SUFFICES ASSUME Locked, failed' = "none"
               PROVE  ItemsInv'
    BY <1>1 DEF ItemsInv, Locked
  <2>1. CASE ~cf.zeroLatencyBypass
    <3>1. /\ \A i \in DOMAIN queue : queue[i].item = lastRead + i
          /\ \A i \in DOMAIN internalBuffer : internalBuffer[i].item = lastRead + Len(queue) + i
          /\ sent = lastRead + Len(queue) + Len(internalBuffer)
      BY <1>1, <2>1 DEF IInv, ItemsInv
    <3>2. /\ Len(queue') = Len(queue) + 1 /\ DOMAIN queue' = 1..Len(queue) + 1
          /\ DOMAIN queue = 1..Len(queue) /\ Len(queue) \in Nat
          /\ \A i \in 1..Len(queue) : queue'[i] = queue[i]
          /\ queue'[Len(queue) + 1].item = d.item
      BY <1>4, <1>6, <2>1, ItemAppended
    <3>3. sent = lastRead + Len(queue') + Len(internalBuffer')
      BY <1>3, <1>4, <3>1, <3>2
    <3>4. d.item = lastRead + Len(queue) + 1
      <4>1. 1 \in DOMAIN internalBuffer
        BY <1>4
      <4> QED BY <1>4, <3>1, <4>1
    <3>5. ASSUME NEW i \in DOMAIN queue' PROVE queue'[i].item = lastRead + i
      <4>1. CASE i \in DOMAIN queue
        BY <3>1, <3>2, <4>1
      <4>2. CASE i \notin DOMAIN queue
        <5>1. i = Len(queue) + 1
          BY <3>2, <3>5, <4>2
        <5> QED BY <1>3, <3>2, <3>4, <5>1
      <4> QED BY <4>1, <4>2
    <3>6. ASSUME NEW i \in DOMAIN internalBuffer'
          PROVE  internalBuffer'[i].item = lastRead + Len(queue') + i
      <4>1. i \in 1..Len(internalBuffer) - 1 /\ i + 1 \in DOMAIN internalBuffer
        BY <1>4, <3>6
      <4>2. internalBuffer'[i].item = lastRead + Len(queue) + (i + 1)
        BY <1>4, <3>1, <4>1
      <4> QED BY <1>3, <3>2, <4>1, <4>2
    <3> QED BY <1>1, <2>1, <3>3, <3>5, <3>6 DEF ItemsInv
  <2>2. CASE cf.zeroLatencyBypass
    BY <1>1, <1>7, <2>2 DEF IInv, ItemsInv
  <2> QED BY <2>1, <2>2
<1>15. SoundConfigsDoNotFail'
  <2>1. ASSUME Sound PROVE failed' = "none"
    <3>1. CASE ~cf.zeroLatencyBypass
      BY <1>6, <2>1, <3>1, PortAccepts DEF PortWrite
    <3>2. CASE cf.zeroLatencyBypass
      BY <1>1, <1>7, <3>2
    <3> QED BY <3>1, <3>2
  <2> QED BY <1>1, <1>10, <2>1 DEF SoundConfigsDoNotFail, Sound, DataInv
<1> QED BY <1>8, <1>9, <1>10, <1>11, <1>12, <1>13, <1>14, <1>15 DEF IInv

-----------------------------------------------------------------------------
(* The reader's thread *)

\* What the reader's steps leave to the writer's thread.
LEMMA WriterUnchanged ==
    ASSUME IInv, failed = "none", UNCHANGED <<cf, writerVars, lastRow, rowEnd>>
    PROVE  CycleInv' /\ RowInv'
BY DEF IInv, CycleInv, RowInv, writerVars

\* In a sound configuration a row is read in its cycle.
LEMMA RightCycle ==
    ASSUME IInv, Sound, failed = "none", ReaderDue, Readable
    PROVE  Head(queue).row + cf.Latency = ReaderCycle
<1>1. /\ cf \in Configs /\ cf.Latency \in Nat /\ cf.rPeriod \in Nat \ {0} /\ rTime \in Nat
      /\ queue \in Seq(Entry) /\ \A i \in DOMAIN queue : queue[i].row \in Nat
  BY Types, ConfigTypes DEF IInv
<1>2. queue # <<>> /\ Head(queue).row + cf.Latency <= ReaderCycle
  BY DEF Readable
<1>3. Head(queue) = queue[1] /\ 1 \in DOMAIN queue
  BY <1>1, <1>2, Removed
<1>4. ReaderCycle = Ceil(rTime, cf.rPeriod) /\ Ceil(rTime, cf.rPeriod) \in Nat
  BY <1>1, CeilFacts DEF ReaderDue, ReaderCycle
<1>5. Ceil(rTime, cf.rPeriod) <= queue[1].row + cf.Latency
  BY <1>3 DEF IInv, DueInv
<1> QED BY <1>1, <1>2, <1>3, <1>4, <1>5

\* An item is read.
LEMMA StepReadBegin ==
    ASSUME IInv, ReadBegin
    PROVE  IInv'
<1>1. /\ failed = "none" /\ rTime <= wTime + cf.lookahead /\ rTime <= MaxTime
      /\ cf.threaded \/ wPc = "matcher" \/ (wPc = "module" /\ ~cf.zeroLatencyBypass)
      /\ ReaderDue /\ rPc = "idle" /\ Readable /\ wPc # "moving" /\ queue # <<>>
      /\ UNCHANGED <<cf, writerVars, lastRow, rowEnd, rTime, sent>>
  BY DEF ReadBegin, ReaderMayRun, InWindow, ReadMayLock, Readable
<1>2. UNCHANGED <<wTime, wPc, internalBuffer, nextReaderCycle>>
  BY <1>1 DEF writerVars
<1>3. CASE Head(queue).row + cf.Latency # ReaderCycle
  <2>1. /\ failed' = "wrong cycle" /\ UNCHANGED <<rPc, rowDone, queue, CycleRowRead, lastRead>>
    BY <1>3 DEF ReadBegin
  <2>2. ~Sound
    BY <1>1, <1>3, RightCycle
  <2>3. DataInv'
    BY <1>1, <1>2, <2>1 DEF IInv, DataInv, TypeOK
  <2>4. ThreadInv'
    BY <1>1, <1>2, <2>1 DEF IInv, ThreadInv
  <2>5. OrderInv' /\ ItemsInv' /\ DueInv'
    BY <2>1 DEF OrderInv, ItemsInv, DueInv
  <2>6. SoundConfigsDoNotFail'
    BY <1>1, <2>2, <2>3 DEF SoundConfigsDoNotFail, Sound, DataInv
  <2> QED BY <1>1, <2>3, <2>4, <2>5, <2>6, WriterUnchanged DEF IInv
<1>4. CASE Head(queue).row + cf.Latency = ReaderCycle
  <2>1. /\ rPc' = "read" /\ rowDone' = (Len(queue) = 1 \/ queue[2].first)
        /\ queue' = Tail(queue) /\ lastRead' = Head(queue).item /\ failed' = failed
        /\ CycleRowRead' = IF Head(queue).first THEN ReaderCycle ELSE CycleRowRead
    BY <1>4 DEF ReadBegin
  <2>2. /\ cf \in Configs /\ cf.Latency \in Nat /\ cf.rPeriod \in Nat \ {0} /\ rTime \in Nat
        /\ wTime \in Nat /\ queue \in Seq(Entry) /\ CycleRowRead \in Int /\ lastRow \in Int
        /\ lastRead \in Nat /\ MaxItems \in Nat /\ sent \in Nat
        /\ \A i \in DOMAIN queue : /\ queue[i].row \in Nat /\ queue[i].item \in 1..MaxItems
                                   /\ queue[i].first \in BOOLEAN
    BY Types, ConfigTypes DEF IInv
  <2>3. /\ queue' \in Seq(Entry) /\ Head(queue) = queue[1] /\ Len(queue) \in Nat /\ Len(queue) >= 1
        /\ Len(queue') = Len(queue) - 1 /\ DOMAIN queue = 1..Len(queue)
        /\ DOMAIN queue' = 1..Len(queue) - 1
        /\ \A i \in 1..Len(queue) - 1 : queue'[i] = queue[i + 1]
        /\ queue' = <<>> <=> Len(queue) = 1
    BY <1>1, <2>1, <2>2, Removed
  <2>4. 1 \in DOMAIN queue /\ \A i \in DOMAIN queue' : i + 1 \in DOMAIN queue
    BY <2>3
  <2>5. ReaderCycle \in Int
    BY <2>2 DEF ReaderCycle
  <2>6. DataInv'
    <3>1. lastRead' \in 0..MaxItems /\ CycleRowRead' \in Int
      BY <2>1, <2>2, <2>3, <2>4, <2>5
    <3>2. rowDone' \in BOOLEAN
      BY <2>1
    <3> QED BY <1>1, <1>2, <2>1, <2>3, <3>1, <3>2 DEF IInv, DataInv, TypeOK
  <2>7. cf.zeroLatencyBypass /\ ~cf.threaded => wPc = "matcher" /\ rTime = wTime
    BY <1>1, <2>2, ConfigTypes DEF IInv, ThreadInv
  <2>8. ThreadInv'
    <3>1. UNCHANGED <<cf, wTime, wPc, rTime>> /\ wPc' # "moving"
      BY <1>1, <1>2
    <3>2. ASSUME cf.zeroLatencyBypass, ~cf.threaded
          PROVE  wPc # "module" /\ wPc # "moving" /\ rTime = wTime
      BY <2>7, <3>2
    <3> QED BY <2>1, <3>1, <3>2 DEF IInv, ThreadInv
  <2>9. OrderInv'
    <3> SUFFICES ASSUME Locked PROVE OrderInv'
      BY <1>1 DEF OrderInv, Locked
    <3>1. /\ \A i \in DOMAIN queue : queue[i].row <= lastRow
          /\ \A i, j \in DOMAIN queue : i <= j => queue[i].row <= queue[j].row
          /\ \A i \in 1..Len(queue) - 1 : queue[i + 1].first <=> queue[i].row < queue[i + 1].row
          /\ queue[Len(queue)].row = lastRow
          /\ IF queue[1].first THEN CycleRowRead < queue[1].row + cf.Latency
                              ELSE CycleRowRead = queue[1].row + cf.Latency
      BY <1>1 DEF IInv, OrderInv
    <3>2. CycleRowRead' = queue[1].row + cf.Latency
      BY <1>4, <2>1, <2>3, <3>1
    <3>3. \A i \in DOMAIN queue' : queue'[i].row <= lastRow
      BY <2>3, <2>4, <3>1
    <3>4. ASSUME NEW i \in DOMAIN queue', NEW j \in DOMAIN queue', i <= j
          PROVE  queue'[i].row <= queue'[j].row
      <4>1. i + 1 \in DOMAIN queue /\ j + 1 \in DOMAIN queue /\ i + 1 <= j + 1
        BY <2>3, <2>4, <3>4
      <4> QED BY <2>3, <3>1, <4>1
    <3>5. ASSUME NEW i \in 1..Len(queue') - 1
          PROVE  queue'[i + 1].first <=> queue'[i].row < queue'[i + 1].row
      <4>1. i \in 1..Len(queue) - 1 /\ i + 1 \in 1..Len(queue) - 1
        BY <2>3, <3>5
      <4>2. queue'[i] = queue[i + 1] /\ queue'[i + 1] = queue[(i + 1) + 1]
        BY <2>3, <4>1
      <4> QED BY <3>1, <4>1, <4>2
    <3>6. queue' # <<>> => queue'[Len(queue')].row = lastRow
      <4>1. ASSUME queue' # <<>> PROVE queue'[Len(queue) - 1] = queue[Len(queue)]
        <5>1. Len(queue) - 1 \in 1..Len(queue) - 1 /\ (Len(queue) - 1) + 1 = Len(queue)
          BY <2>3, <4>1
        <5> QED BY <2>3, <5>1
      <4> QED BY <2>3, <3>1, <4>1
    <3>7. queue' = <<>> => CycleRowRead' <= lastRow + cf.Latency
      BY <2>2, <2>4, <3>1, <3>2
    <3>8. ASSUME queue' # <<>>
          PROVE  /\ queue'[1] = queue[2]
                 /\ queue[2].first <=> queue[1].row < queue[2].row
                 /\ queue[1].row <= queue[2].row /\ queue[2].row \in Nat
      <4>1. 1 \in 1..Len(queue) - 1 /\ 2 \in DOMAIN queue
        BY <2>3, <3>8
      <4>2. queue[2].first <=> queue[1].row < queue[2].row
        <5>1. queue[1 + 1].first <=> queue[1].row < queue[1 + 1].row
          BY <3>1, <4>1
        <5>2. 1 + 1 = 2
          OBVIOUS
        <5> QED BY <5>1, <5>2
      <4>3. queue'[1] = queue[2]
        BY <2>3, <4>1
      <4>4. queue[1].row <= queue[2].row /\ queue[2].row \in Nat
        BY <2>2, <2>4, <3>1, <4>1
      <4> QED BY <4>2, <4>3, <4>4
    <3>9. queue' # <<>> => IF queue'[1].first THEN CycleRowRead' < queue'[1].row + cf.Latency
                                             ELSE CycleRowRead' = queue'[1].row + cf.Latency
      BY <2>2, <2>4, <3>2, <3>8
    <3>10. rowDone' => queue' = <<>> \/ queue'[1].first
      BY <2>1, <2>3, <3>8
    <3>11. lastRow = nextReaderCycle =>
              cf.zeroLatencyBypass /\ wPc # "module" /\ wTime % cf.rPeriod = 0
      <4>1. CASE cf.zeroLatencyBypass
        BY <1>1, <2>7, <4>1 DEF Locked, ReaderDue
      <4>2. CASE ~cf.zeroLatencyBypass
        BY <1>1, <4>2 DEF IInv, RowInv
      <4> QED BY <4>1, <4>2
    <3> QED BY <1>1, <1>2, <3>3, <3>4, <3>5, <3>6, <3>7, <3>9, <3>10, <3>11 DEF OrderInv
  <2>10. ItemsInv'
    <3> SUFFICES ASSUME Locked PROVE ItemsInv'
      BY <1>1 DEF ItemsInv, Locked
    <3>1. /\ \A i \in DOMAIN queue : queue[i].item = lastRead + i
          /\ ~cf.zeroLatencyBypass =>
                /\ \A i \in DOMAIN internalBuffer : internalBuffer[i].item = lastRead + Len(queue) + i
                /\ sent = lastRead + Len(queue) + Len(internalBuffer)
          /\ cf.zeroLatencyBypass => sent = lastRead + Len(queue)
      BY <1>1 DEF IInv, ItemsInv
    <3>2. lastRead' = lastRead + 1
      BY <2>1, <2>3, <2>4, <3>1
    <3>3. ASSUME NEW i \in DOMAIN queue' PROVE queue'[i].item = lastRead' + i
      <4>1. queue'[i] = queue[i + 1] /\ i + 1 \in DOMAIN queue /\ i \in Nat
        BY <2>3, <2>4
      <4> QED BY <2>2, <3>1, <3>2, <4>1
    <3>4. lastRead + Len(queue) = lastRead' + Len(queue')
      BY <2>2, <2>3, <3>2
    <3> QED BY <1>1, <1>2, <3>1, <3>3, <3>4 DEF ItemsInv
  <2>11. DueInv'
    <3> SUFFICES ASSUME Sound, NEW i \in DOMAIN queue'
                 PROVE  /\ Ceil(rTime, cf.rPeriod) <= queue'[i].row + cf.Latency
                        /\ queue'[i].row = Ceil(queue'[i].at, cf.rPeriod)
      BY <1>1 DEF DueInv, Sound
    <3>1. queue'[i] = queue[i + 1] /\ i + 1 \in DOMAIN queue
      BY <2>3, <2>4
    <3> QED BY <1>1, <3>1 DEF IInv, DueInv
  <2>12. SoundConfigsDoNotFail'
    BY <1>1, <2>1, <2>6 DEF SoundConfigsDoNotFail, DataInv
  <2> QED BY <1>1, <2>6, <2>8, <2>9, <2>10, <2>11, <2>12, WriterUnchanged DEF IInv
<1> QED BY <1>3, <1>4

\* Under the lock nothing has come to a row since Read found it empty.
LEMMA NothingDropped ==
    ASSUME IInv, ReadEnd, Locked
    PROVE  queue' = queue
<1>1. /\ failed = "none" /\ rPc = "read"
      /\ \E k \in 0..Len(queue) :
            /\ rowDone => /\ \A i \in 1..k : queue[i].row = CycleRowRead - cf.Latency
                          /\ k < Len(queue) => queue[k + 1].row # CycleRowRead - cf.Latency
            /\ ~rowDone => k = 0
            /\ queue' = SubSeq(queue, k + 1, Len(queue))
  BY DEF ReadEnd
<1>2. PICK k \in 0..Len(queue) :
            /\ rowDone => \A i \in 1..k : queue[i].row = CycleRowRead - cf.Latency
            /\ ~rowDone => k = 0
            /\ queue' = SubSeq(queue, k + 1, Len(queue))
  BY <1>1
<1>3. /\ queue \in Seq(Entry) /\ Len(queue) \in Nat /\ CycleRowRead \in Int /\ cf.Latency \in Nat
      /\ \A i \in DOMAIN queue : queue[i].row \in Nat
  BY Types, ConfigTypes DEF IInv
<1>4. k = 0
  <2> SUFFICES ASSUME k >= 1, rowDone
               PROVE  FALSE
    BY <1>2
  <2>1. 1 \in DOMAIN queue /\ 1 \in 1..k /\ queue # <<>>
    BY <1>3
  <2>2. queue[1].row = CycleRowRead - cf.Latency
    BY <1>2, <2>1, Zenon
  <2>3. CycleRowRead < queue[1].row + cf.Latency
    BY <1>1, <2>1 DEF IInv, OrderInv
  <2> QED BY <1>3, <2>1, <2>2, <2>3
<1>5. queue' = SubSeq(queue, 1, Len(queue))
  <2>1. k + 1 = 1
    BY <1>4
  <2> QED BY <1>2, <2>1, Zenon
<1> QED BY <1>3, <1>5

\* Read is left.
LEMMA StepReadEnd ==
    ASSUME IInv, ReadEnd
    PROVE  IInv'
<1>1. /\ failed = "none" /\ rPc = "read" /\ rPc' = "idle" /\ rowDone' = FALSE
      /\ UNCHANGED <<cf, writerVars, lastRow, rowEnd, CycleRowRead, rTime, failed, sent, lastRead>>
  BY DEF ReadEnd
<1>2. UNCHANGED <<wTime, wPc, internalBuffer, nextReaderCycle>>
  BY <1>1 DEF writerVars
<1>3. queue' \in Seq(Entry)
  <2>1. queue \in Seq(Entry)
    BY Types DEF IInv
  <2>2. PICK k \in 0..Len(queue) : queue' = SubSeq(queue, k + 1, Len(queue))
    BY DEF ReadEnd
  <2> QED BY <2>1, <2>2
<1>4. DataInv'
  BY <1>1, <1>2, <1>3 DEF IInv, DataInv, TypeOK
<1>5. ThreadInv'
  BY <1>1, <1>2 DEF IInv, ThreadInv
<1>6. OrderInv'
  <2> SUFFICES ASSUME Locked PROVE OrderInv'
    BY <1>1 DEF OrderInv, Locked
  <2> QED BY <1>1, <1>2, NothingDropped DEF IInv, OrderInv
<1>7. ItemsInv'
  <2> SUFFICES ASSUME Locked PROVE ItemsInv'
    BY <1>1 DEF ItemsInv, Locked
  <2> QED BY <1>1, <1>2, NothingDropped DEF IInv, ItemsInv
<1>8. DueInv'
  <2> SUFFICES ASSUME Sound PROVE DueInv'
    BY <1>1 DEF DueInv, Sound
  <2>1. queue' = queue
    BY Types, SoundIsLocked, NothingDropped DEF IInv
  <2> QED BY <1>1, <2>1 DEF IInv, DueInv
<1>9. SoundConfigsDoNotFail'
  BY <1>1, <1>4 DEF SoundConfigsDoNotFail, DataInv
<1> QED BY <1>1, <1>4, <1>5, <1>6, <1>7, <1>8, <1>9, WriterUnchanged DEF IInv

\* The reader goes on when there is nothing more to read in this cycle: what is
\* left is due later.
LEMMA StepReaderDone ==
    ASSUME IInv, ReaderDone
    PROVE  IInv'
<1>1. /\ failed = "none" /\ rTime <= wTime + cf.lookahead /\ rTime <= MaxTime
      /\ cf.threaded \/ wPc = "matcher" \/ (wPc = "module" /\ ~cf.zeroLatencyBypass)
      /\ ReaderDue => ~Readable
      /\ rPc = "idle" /\ rTime' = rTime + 1
      /\ UNCHANGED <<cf, writerVars, portVars, rPc, rowDone, failed, sent, lastRead>>
  BY DEF ReaderDone, ReaderMayRun, InWindow
<1>2. UNCHANGED <<wTime, wPc, internalBuffer, nextReaderCycle, queue, lastRow, rowEnd, CycleRowRead>>
  BY <1>1 DEF writerVars, portVars
<1>3. /\ cf \in Configs /\ cf.Latency \in Nat /\ cf.rPeriod \in Nat \ {0} /\ cf.lookahead \in Nat
      /\ wTime \in Nat /\ rTime \in Nat /\ MaxTime \in Nat /\ CycleRowRead \in Int
      /\ queue \in Seq(Entry) /\ (cf.threaded \/ cf.lookahead = 0)
      /\ \A i \in DOMAIN queue : queue[i].row \in Nat
  BY Types, ConfigTypes DEF IInv
<1>4. DataInv'
  <2>1. rTime' \in 0..MaxTime + 1
    BY <1>1, <1>3
  <2> QED BY <1>1, <1>2, <2>1 DEF IInv, DataInv, TypeOK
<1>5. ThreadInv'
  <2>1. rTime' <= wTime + cf.lookahead + 1 /\ wTime <= rTime' + cf.lookahead + 1
    <3>1. wTime <= rTime + cf.lookahead + 1
      BY DEF IInv, ThreadInv
    <3> QED BY <1>1, <1>3, <3>1
  <2>2. ASSUME cf.zeroLatencyBypass, ~cf.threaded
        PROVE  wPc = "matcher" /\ wTime <= rTime'
    <3>1. wPc = "matcher" /\ wTime <= rTime
      BY <1>1, <2>2 DEF IInv, ThreadInv
    <3> QED BY <1>1, <1>3, <3>1
  <2> QED BY <1>1, <1>2, <2>1, <2>2 DEF IInv, ThreadInv
<1>6. OrderInv' /\ ItemsInv'
  BY <1>1, <1>2 DEF IInv, OrderInv, ItemsInv, Locked
<1>7. DueInv'
  <2> SUFFICES ASSUME Sound, NEW i \in DOMAIN queue
               PROVE  Ceil(rTime + 1, cf.rPeriod) <= queue[i].row + cf.Latency
    BY <1>1, <1>2 DEF IInv, DueInv, Sound
  <2>1. Ceil(rTime, cf.rPeriod) <= queue[i].row + cf.Latency
    BY <1>1 DEF IInv, DueInv
  <2>2. CASE rTime % cf.rPeriod # 0
    <3>1. Ceil(rTime + 1, cf.rPeriod) = Ceil(rTime, cf.rPeriod)
      BY <1>3, <2>2, CeilFacts
    <3> QED BY <2>1, <3>1
  <2>3. CASE rTime % cf.rPeriod = 0
    <3>1. /\ Ceil(rTime + 1, cf.rPeriod) = Ceil(rTime, cf.rPeriod) + 1
          /\ ReaderCycle = Ceil(rTime, cf.rPeriod) /\ Ceil(rTime, cf.rPeriod) \in Nat
      BY <1>3, <2>3, CeilFacts DEF ReaderCycle
    <3>2. queue # <<>> /\ 1 \in DOMAIN queue /\ Head(queue) = queue[1] /\ 1 <= i
      <4>1. i \in 1..Len(queue) /\ Len(queue) \in Nat
        BY <1>3
      <4>2. queue # <<>> /\ 1 <= i /\ 1 \in DOMAIN queue
        BY <1>3, <4>1
      <4> QED BY <1>3, <4>2, Removed
    <3>3. \/ queue[1].first /\ CycleRowRead = ReaderCycle
          \/ ~(queue[1].row + cf.Latency <= ReaderCycle)
      BY <1>1, <2>3, <3>2 DEF ReaderDue, Readable
    <3>4. /\ queue[1].first => CycleRowRead < queue[1].row + cf.Latency
          /\ queue[1].row <= queue[i].row
      BY <1>1, <1>3, <3>2, SoundIsLocked DEF IInv, OrderInv
    <3>5. ReaderCycle < queue[1].row + cf.Latency
      BY <1>3, <3>1, <3>2, <3>3, <3>4
    <3> QED BY <1>3, <3>1, <3>2, <3>4, <3>5
  <2> QED BY <2>2, <2>3
<1>8. SoundConfigsDoNotFail'
  BY <1>1, <1>4 DEF IInv, SoundConfigsDoNotFail, Sound, DataInv
<1> QED BY <1>1, <1>2, <1>4, <1>5, <1>6, <1>7, <1>8, WriterUnchanged DEF IInv

-----------------------------------------------------------------------------
(* The theorems *)

\* The invariant holds at first.
LEMMA InitInv ==
    ASSUME Init
    PROVE  IInv
<1>1. /\ cf \in Configs /\ wTime = 0 /\ wPc = "module" /\ internalBuffer = <<>>
      /\ nextReaderCycle = 0 /\ queue = <<>> /\ lastRow = -1 /\ rowEnd = 0 /\ CycleRowRead = -1
      /\ rTime = 0 /\ rPc = "idle" /\ rowDone = FALSE /\ failed = "none" /\ sent = 0 /\ lastRead = 0
  BY DEF Init
<1>2. /\ cf.Latency \in Nat /\ cf.Bandwidth \in Nat /\ cf.rPeriod \in Nat \ {0} /\ cf.lookahead \in Nat
      /\ MaxTime \in Nat /\ MaxItems \in Nat
  BY <1>1, ConfigTypes, RateMatcherConstants
<1>3. <<>> \in Seq(Item) /\ <<>> \in Seq(Entry) /\ Len(<<>>) = 0 /\ DOMAIN <<>> = {}
  OBVIOUS
<1>4. DataInv
  <2>1. {wTime, rTime} \subseteq 0..MaxTime + 1 /\ {sent, lastRead} \subseteq 0..MaxItems
    BY <1>1, <1>2
  <2>2. {lastRow, CycleRowRead} \subseteq Int /\ lastRow >= -1
    BY <1>1
  <2>3. Len(internalBuffer) <= cf.Bandwidth /\ internalBuffer \in Seq(Item) /\ queue \in Seq(Entry)
    BY <1>1, <1>2, <1>3
  <2> QED BY <1>1, <2>1, <2>2, <2>3 DEF DataInv, TypeOK
<1>5. ThreadInv
  BY <1>1, <1>2 DEF ThreadInv
<1>6. Ceil(0, cf.rPeriod) = 0
  <2>1. (0 + cf.rPeriod - 1) \div cf.rPeriod = 0
    BY <1>2, Quotient
  <2> QED BY <2>1 DEF Ceil
<1>7. CycleInv /\ RowInv
  BY <1>1, <1>3, <1>6 DEF CycleInv, RowInv
<1>8. OrderInv
  BY <1>1, <1>2, <1>3 DEF OrderInv
<1>9. ItemsInv /\ DueInv
  BY <1>1, <1>3 DEF ItemsInv, DueInv
<1>10. SoundConfigsDoNotFail
  BY <1>1, <1>4 DEF SoundConfigsDoNotFail, DataInv
<1> QED BY <1>4, <1>5, <1>7, <1>8, <1>9, <1>10 DEF IInv

\* Every step keeps the invariant.
LEMMA StepInv ==
    ASSUME IInv, [Next]_vars
    PROVE  IInv'
<1>1. ASSUME UNCHANGED vars PROVE IInv'
  BY <1>1 DEF IInv, DataInv, TypeOK, ThreadInv, CycleInv, RowInv, OrderInv, ItemsInv, DueInv,
              SoundConfigsDoNotFail, Sound, Locked, vars, writerVars, portVars, readerVars
<1>2. CASE Done
  BY <1>1, <1>2 DEF Done
<1> QED BY <1>1, <1>2, StepWrite, StepWriteWhenFull, StepModuleDone, StepMatcherNotDue, StepClockBegin,
           StepMove, StepClockEnd, StepReadBegin, StepReadEnd, StepReaderDone DEF Next

\* What the threads know of time, the rows of the port and the items in it stay
\* consistent, for any two clocks and however the threads drift.
THEOREM Inductive == Spec => []IInv
<1>1. Init => IInv
  BY InitInv
<1>2. IInv /\ [Next]_vars => IInv'
  BY StepInv
<1> QED BY <1>1, <1>2, PTL DEF Spec

\* If the lookahead fits the latency and the rows, no ASSERT of the port fires.
THEOREM NoFailure == Spec => []SoundConfigsDoNotFail
<1>1. IInv => SoundConfigsDoNotFail
  BY DEF IInv
<1> QED BY <1>1, Inductive, PTL

\* An item is only read by ReadBegin.
LEMMA OnlyReadBeginReads ==
    ASSUME IInv, [Next]_vars, lastRead' # lastRead
    PROVE  /\ ReadBegin /\ failed = "none" /\ ReaderDue /\ Readable
           /\ lastRead' = queue[1].item /\ 1 \in DOMAIN queue /\ Head(queue) = queue[1]
<1>1. ReadBegin
  BY DEF Next, vars, Write, WriteWhenFull, ModuleDone, MatcherNotDue, ClockBegin, Move, ClockEnd,
         ReadEnd, ReaderDone, Done
<1>2. failed = "none" /\ ReaderDue /\ Readable /\ lastRead' = Head(queue).item
  BY <1>1 DEF ReadBegin, ReaderMayRun
<1>3. 1 \in DOMAIN queue /\ Head(queue) = queue[1]
  BY <1>2, Types, Removed DEF IInv, Readable
<1> QED BY <1>1, <1>2, <1>3

\* With the lock, no item is passed over or read twice, even if it is late.
THEOREM NoneIsPassedOver == Spec => NothingPassedOver
<1>1. ASSUME IInv, [Next]_vars, Locked, lastRead' # lastRead
      PROVE  lastRead' = lastRead + 1
  BY <1>1, OnlyReadBeginReads DEF IInv, ItemsInv
<1>2. IInv /\ [Next]_vars => [Locked /\ lastRead' # lastRead => lastRead' = lastRead + 1]_vars
  BY <1>1
<1> QED BY <1>2, Inductive, PTL DEF Spec, NothingPassedOver, Locked

\* In a sound configuration threads that drift deliver every item in the cycle a
\* sequential simulation does.
THEOREM AlwaysOnTime == Spec => DeliveredOnTime
<1> DEFINE OnTime == /\ lastRead' = lastRead + 1
                     /\ ReaderCycle = CycleFor(Head(queue).at) + cf.Latency
<1>1. ASSUME IInv, [Next]_vars, Sound, lastRead' # lastRead
      PROVE  OnTime
  <2>1. /\ failed = "none" /\ ReaderDue /\ Readable /\ lastRead' = queue[1].item
        /\ 1 \in DOMAIN queue /\ Head(queue) = queue[1]
    BY <1>1, OnlyReadBeginReads
  <2>2. Locked
    BY <1>1, SoundIsLocked, Types DEF IInv
  <2>3. lastRead' = lastRead + 1
    BY <1>1, <2>1, <2>2 DEF IInv, ItemsInv
  <2>4. queue[1].row = Ceil(queue[1].at, cf.rPeriod)
    BY <1>1, <2>1 DEF IInv, DueInv
  <2>5. queue[1].row + cf.Latency = ReaderCycle
    BY <1>1, <2>1, RightCycle
  <2> QED BY <2>1, <2>3, <2>4, <2>5 DEF Ceil, CycleFor
<1>2. IInv /\ [Next]_vars => [Sound /\ lastRead' # lastRead => OnTime]_vars
  BY <1>1
<1> QED BY <1>2, Inductive, PTL DEF Spec, DeliveredOnTime
=============================================================================
