-------------------------- MODULE PortBuffer_proofs --------------------------
(***************************************************************************)
(* Proofs about PortBuffer, for every latency of at least one cycle, every *)
(* bandwidth and every kind of port.  With latency 0 the writer may come   *)
(* back to a row that the reader has left, and only the types are kept.    *)
(***************************************************************************)
EXTENDS PortBuffer, WellFoundedInduction, TLAPS

-----------------------------------------------------------------------------
(* The inductive invariant *)

Row == [CycleWritten : Int, Start : 0..Bandwidth, End : 0..Bandwidth, Data : [Slot -> 0..MaxItems]]

StoreInv ==
    /\ TypeOK /\ Store \in [Index -> Row]
    /\ \A i \in Index : Store[i].Start <= Store[i].End

\* The place of a row in ring order: the row that will be written next is the
\* first and the row being written the last.
Age(i) == IF i <= WriteIndex THEN i - WriteIndex - 1 + BufferSize ELSE i - WriteIndex - 1

\* Everything has been read, and the row being written is not of this cycle,
\* or it has been delayed to this cycle by a stall.
AllRead ==
    /\ \A i \in Index : IsEmpty(i)
    /\ ReadIndex = NextIndex(WriteIndex)
    /\ \/ Store[WriteIndex].CycleWritten < cycle
       \/ Store[WriteIndex].CycleWritten = cycle /\ stalledIn = cycle

\* The rows from ReadIndex up to the row being written hold the unread items, each
\* of a later cycle than the row before it.
SomeUnread ==
    /\ \A i \in Index : IsEmpty(i) <=> Age(i) < Age(ReadIndex)
    /\ \A i, j \in Index : Age(ReadIndex) <= Age(i) /\ Age(i) <= Age(j) =>
                              Store[i].CycleWritten + Age(j) - Age(i) <= Store[j].CycleWritten

RowsInv == active => AllRead \/ SomeUnread

\* The reader that has stalled the port in this cycle keeps it stalled.
StallInv == stalledIn <= cycle /\ (stalledIn = cycle => stalled)

Unread(i) == Store[i].Start..Store[i].End - 1

\* The unread items are in the order in which they were written.
ItemsInv ==
    active => \A i, j \in Index : \A k \in Unread(i), l \in Unread(j) :
                 /\ Store[i].Data[k] <= sent
                 /\ Age(i) < Age(j) \/ (i = j /\ k < l) => Store[i].Data[k] < Store[j].Data[l]

\* A diligent reader has left nothing behind, and the row after one it has begun
\* in this cycle is not due yet.
DiligentInv ==
    /\ CycleRowRead <= cycle
    /\ Diligent => failed \notin {"wrong cycle", "row has data"}
    /\ Diligent /\ active =>
          /\ \A i \in Index : ~IsEmpty(i) => ReadCycle(i) >= cycle
          /\ CycleRowRead = cycle /\ ~IsEmpty(ReadIndex) /\ Store[ReadIndex].Start = 0 =>
                ReadCycle(ReadIndex) > cycle

IInv == StoreInv /\ RowsInv /\ StallInv /\ ItemsInv /\ DiligentInv /\ OverrunMeansLateReader

-----------------------------------------------------------------------------
(* The ring *)

\* The ring has at least four rows: the latency and the lookahead.
LEMMA RingSize ==
    /\ BufferSize \in Nat /\ BufferSize = Latency + 4 /\ BufferSize >= 4
    /\ Index = 0..BufferSize - 1 /\ Latency \in Nat /\ Bandwidth \in Nat /\ Bandwidth >= 1
    /\ Slot = 0..Bandwidth - 1
BY PortConstants DEF BufferSize, BUFFER_STORAGE_LOOKAHEAD, Index, Slot

\* What the invariant says of the types, with the rows as records.
LEMMA Types ==
    ASSUME StoreInv
    PROVE  /\ ReadIndex \in Index /\ WriteIndex \in Index /\ cycle \in Nat /\ stalledIn \in Int
           /\ sent \in Nat /\ sent <= MaxItems /\ CycleRowRead \in Int /\ active \in BOOLEAN
           /\ \A i \in Index : /\ Store[i] \in Row
                               /\ Store[i].CycleWritten \in Int
                               /\ Store[i].Start \in 0..Bandwidth /\ Store[i].End \in 0..Bandwidth
                               /\ Store[i].Start <= Store[i].End
                               /\ Unread(i) \subseteq Slot
                               /\ \A k \in Slot : Store[i].Data[k] \in 0..MaxItems
<1> USE PortConstants, RingSize
<1>0. /\ ReadIndex \in Index /\ WriteIndex \in Index /\ cycle \in 0..MaxCycle /\ stalledIn \in -1..MaxCycle
      /\ sent \in 0..MaxItems /\ CycleRowRead \in -1..MaxCycle /\ active \in BOOLEAN
  BY DEF StoreInv, TypeOK
<1>1. /\ cycle \in Nat /\ stalledIn \in Int /\ sent \in Nat /\ sent <= MaxItems /\ CycleRowRead \in Int
  BY <1>0
<1>2. ASSUME NEW i \in Index
      PROVE  /\ Store[i] \in Row
             /\ Store[i].CycleWritten \in Int
             /\ Store[i].Start \in 0..Bandwidth /\ Store[i].End \in 0..Bandwidth
             /\ Store[i].Start <= Store[i].End
             /\ \A k \in Slot : Store[i].Data[k] \in 0..MaxItems
  <2>1. Store[i] \in Row /\ Store[i].Start <= Store[i].End
    BY <1>2 DEF StoreInv
  <2>2. Store[i].CycleWritten \in Int /\ Store[i].Start \in 0..Bandwidth /\ Store[i].End \in 0..Bandwidth
    BY <2>1 DEF Row
  <2>3. Store[i].Data \in [Slot -> 0..MaxItems]
    BY <2>1 DEF Row
  <2> QED BY <2>1, <2>2, <2>3
<1>3. \A i \in Index : Unread(i) \subseteq Slot
  BY <1>2 DEF Unread
<1> QED BY <1>0, <1>1, <1>2, <1>3

\* Ages are 0 to BufferSize - 1, one for each row, and follow ring order.
LEMMA Ages ==
    ASSUME WriteIndex \in Index
    PROVE  /\ \A i \in Index : Age(i) \in 0..BufferSize - 1
           /\ \A i, j \in Index : Age(i) = Age(j) => i = j
           /\ Age(WriteIndex) = BufferSize - 1
           /\ Age(NextIndex(WriteIndex)) = 0
           /\ \A i \in Index : /\ NextIndex(i) \in Index
                               /\ i # WriteIndex => Age(NextIndex(i)) = Age(i) + 1
BY RingSize DEF Age, NextIndex

\* When the writer moves to the next row, that row becomes the last one and all
\* the others come a place nearer to the front.
LEMMA AgesShift ==
    ASSUME WriteIndex \in Index, WriteIndex' = NextIndex(WriteIndex)
    PROVE  \A i \in Index : Age(i)' = IF i = NextIndex(WriteIndex) THEN BufferSize - 1 ELSE Age(i) - 1
BY RingSize DEF Age, NextIndex

\* The rows stay as they are as long as the ring does and time does not go back.
LEMMA RingUnchanged ==
    ASSUME IInv, UNCHANGED <<kind, ringVars, sent>>, active' => active,
           \/ cycle' = cycle /\ stalledIn' = stalledIn
           \/ cycle' = cycle + 1
    PROVE  RowsInv' /\ ItemsInv'
<1>1. /\ \A i : Age(i)' = Age(i) /\ Unread(i)' = Unread(i)
      /\ \A i : IsEmpty(i)' <=> IsEmpty(i)
      /\ NextIndex(WriteIndex)' = NextIndex(WriteIndex)
  BY DEF ringVars, Age, Unread, IsEmpty, NextIndex
<1>2. UNCHANGED <<Store, ReadIndex, WriteIndex, sent>>
  BY DEF ringVars
<1>3. cycle \in Nat /\ Store[WriteIndex].CycleWritten \in Int /\ ReadIndex \in Index /\ WriteIndex \in Index
  BY Types DEF IInv
<1>4. AllRead => AllRead'
  <2> SUFFICES ASSUME AllRead PROVE AllRead'
    OBVIOUS
  <2>1. \A i \in Index : IsEmpty(i)'
    BY <1>1 DEF AllRead
  <2>2. (ReadIndex = NextIndex(WriteIndex))'
    BY <1>1, <1>2 DEF AllRead
  <2>3. (\/ Store[WriteIndex].CycleWritten < cycle
         \/ Store[WriteIndex].CycleWritten = cycle /\ stalledIn = cycle)'
    BY <1>2, <1>3 DEF AllRead
  <2> QED BY <2>1, <2>2, <2>3 DEF AllRead
<1>5. SomeUnread => SomeUnread'
  BY <1>1, <1>2 DEF SomeUnread
<1>6. RowsInv'
  BY <1>4, <1>5 DEF IInv, RowsInv
<1>7. ItemsInv'
  BY <1>1, <1>2 DEF IInv, ItemsInv
<1> QED BY <1>6, <1>7

\* If there is an unread item the row at ReadIndex holds the oldest.
LEMMA OldestRow ==
    ASSUME IInv, active, NEW i \in Index, ~IsEmpty(i)
    PROVE  /\ SomeUnread /\ ~IsEmpty(ReadIndex)
           /\ Age(ReadIndex) <= Age(i)
           /\ i = ReadIndex \/ Store[ReadIndex].CycleWritten < Store[i].CycleWritten
<1>1. ReadIndex \in Index /\ WriteIndex \in Index /\ \A j \in Index : Store[j].CycleWritten \in Int
  BY Types DEF IInv
<1>2. /\ Age(i) \in Int /\ Age(ReadIndex) \in Int
      /\ Age(i) = Age(ReadIndex) => i = ReadIndex
  <2>1. Age(i) \in 0..BufferSize - 1 /\ Age(ReadIndex) \in 0..BufferSize - 1
    BY <1>1, Ages
  <2>2. Age(i) = Age(ReadIndex) => i = ReadIndex
    BY <1>1, Ages
  <2> QED BY <2>1, <2>2
<1>3. SomeUnread
  BY DEF IInv, RowsInv, AllRead
<1>4. ~IsEmpty(ReadIndex) /\ Age(ReadIndex) <= Age(i)
  BY <1>1, <1>2, <1>3 DEF SomeUnread
<1>5. Store[ReadIndex].CycleWritten + Age(i) - Age(ReadIndex) <= Store[i].CycleWritten
  BY <1>1, <1>2, <1>3, <1>4 DEF SomeUnread
<1> QED BY <1>1, <1>2, <1>3, <1>4, <1>5

-----------------------------------------------------------------------------
(* The steps *)

\* Steps that leave the rows and the reader alone and fail no ASSERT.
LEMMA StepFlags ==
    ASSUME IInv, (\E s \in BOOLEAN : SetStalled(s)) \/ Deactivate \/ PeekReset \/ PeekNext
    PROVE  IInv'
<1> USE RingSize
<1>1. /\ UNCHANGED <<kind, ringVars, statVars, cycle, sent, lastRead>> /\ stalledIn' = stalledIn
      /\ failed = "none" /\ failed' \in {"none", "peek"}
  BY DEF SetStalled, Deactivate, PeekReset, PeekNext, flagVars, historyVars
<1>2. active' => active
  BY DEF SetStalled, Deactivate, PeekReset, PeekNext, flagVars
<1>3. StoreInv'
  <2>1. PeekReadIndex' \in Index /\ PeekStart' \in Nat
    <3>1. CASE (\E s \in BOOLEAN : SetStalled(s)) \/ Deactivate
      BY <3>1 DEF IInv, StoreInv, TypeOK, SetStalled, Deactivate, peekVars
    <3>2. CASE PeekReset
      BY <3>2 DEF IInv, StoreInv, TypeOK, PeekReset
    <3>3. CASE PeekNext
      <4>1. PICK d \in 0..Distance(PeekReadIndex, WriteIndex) :
               /\ PeekReadIndex' = After(PeekReadIndex, d)
               /\ PeekStart' \in {0, PeekStart, PeekStart + 1, 1}
        BY <3>3 DEF PeekNext, IInv, StoreInv, TypeOK
      <4>2. d \in Int
        OBVIOUS
      <4>3. PeekReadIndex \in Int /\ PeekStart \in Nat
        <5>1. PeekReadIndex \in Index /\ PeekStart \in Nat
          BY DEF IInv, StoreInv, TypeOK
        <5> QED BY <5>1
      <4> QED BY <4>1, <4>2, <4>3 DEF After
    <3> QED BY <3>1, <3>2, <3>3
  <2>2. active' \in BOOLEAN /\ stalled' \in BOOLEAN
    BY DEF IInv, StoreInv, TypeOK, SetStalled, Deactivate, PeekReset, PeekNext, flagVars
  <2> QED BY <1>1, <2>1, <2>2 DEF IInv, StoreInv, TypeOK, ringVars, statVars
<1>4. StallInv'
  BY <1>1 DEF IInv, StallInv, SetStalled, Deactivate, PeekReset, PeekNext, flagVars
<1>5. DiligentInv'
  BY <1>1, <1>2 DEF IInv, DiligentInv, Diligent, IsEmpty, ReadCycle, ringVars, statVars
<1>6. OverrunMeansLateReader'
  BY <1>1 DEF OverrunMeansLateReader
<1> QED BY <1>1, <1>2, <1>3, <1>4, <1>5, <1>6, RingUnchanged DEF IInv

\* What an ASSERT that has failed leaves: everything as it was.
LEMMA StepFails ==
    ASSUME IInv, NEW what \in {"wrong cycle", "illegal use", "time", "row has data", "bandwidth", "stalled"},
           Fails(what),
           Diligent => what \notin {"wrong cycle", "row has data"},
           what = "row has data" =>
               \E i \in Index : ~IsEmpty(i) /\ ReadCycle(i) + BUFFER_STORAGE_LOOKAHEAD < cycle
    PROVE  IInv'
<1>1. failed' = what /\ UNCHANGED <<kind, ringVars, statVars, flagVars, peekVars, cycle, historyVars>>
  BY DEF Fails
<1>2. UNCHANGED <<kind, Store, ReadIndex, WriteIndex, CycleRowRead, LastWritten, SequentialWrites, active,
                  stalled, stalledIn, PeekReadIndex, PeekStart, cycle, sent, lastRead>>
  BY <1>1 DEF ringVars, statVars, flagVars, peekVars, historyVars
<1>3. StoreInv'
  BY <1>1, <1>2 DEF IInv, StoreInv, TypeOK
<1>4. StallInv'
  BY <1>2 DEF IInv, StallInv
<1>5. DiligentInv'
  BY <1>1, <1>2 DEF IInv, DiligentInv, Diligent, IsEmpty, ReadCycle
<1>6. OverrunMeansLateReader'
  BY <1>1, <1>2 DEF OverrunMeansLateReader, IsEmpty, ReadCycle
<1> QED BY <1>1, <1>2, <1>3, <1>4, <1>5, <1>6, RingUnchanged DEF IInv

\* With a diligent reader the row it may read is due in this cycle.
LEMMA DiligentReads ==
    ASSUME IInv, active, Diligent, Readable
    PROVE  ReadCycle(ReadIndex) = cycle
<1>1. ~IsEmpty(ReadIndex) /\ ReadCycle(ReadIndex) <= cycle
  BY DEF Readable
<1>2. ReadCycle(ReadIndex) >= cycle /\ ReadIndex \in Index
  BY <1>1, Types DEF IInv, DiligentInv
<1>3. ReadCycle(ReadIndex) \in Int /\ cycle \in Int
  BY <1>2, Types, RingSize DEF IInv, ReadCycle
<1> QED BY <1>1, <1>2, <1>3

\* An ASSERT of Read that fails leaves the ring alone.
LEMMA StepReadAsserts ==
    ASSUME IInv, active, ReadAsserts
    PROVE  IInv'
<1>1. CASE ReadInWrongCycle /\ Fails("wrong cycle")
  BY <1>1, DiligentReads, StepFails DEF ReadAsserts, ReadInWrongCycle
<1>2. CASE IllegalUse /\ Fails("illegal use")
  BY <1>2, StepFails
<1> QED BY <1>1, <1>2 DEF ReadAsserts

\* A writer that comes to a row with data has gone once round the ring since that
\* row was written.
LEMMA FullRing ==
    ASSUME IInv, active, RowHasData, ~TimeGoesBack
    PROVE  \E i \in Index : ~IsEmpty(i) /\ ReadCycle(i) + BUFFER_STORAGE_LOOKAHEAD < cycle
<1> DEFINE next == NextIndex(WriteIndex)
<1>1. /\ WriteIndex \in Index /\ ReadIndex \in Index /\ cycle \in Int
      /\ \A j \in Index : Store[j].CycleWritten \in Int
  BY Types DEF IInv
<1>2. next \in Index /\ ~IsEmpty(next) /\ Store[WriteIndex].CycleWritten < cycle
  BY <1>1, Ages DEF RowHasData, TimeGoesBack, RowToWrite
<1>3. SomeUnread /\ Age(ReadIndex) <= Age(next) /\ Age(next) = 0 /\ Age(WriteIndex) = BufferSize - 1
  BY <1>1, <1>2, OldestRow, Ages
<1> HIDE DEF next
<1>4. Store[next].CycleWritten + BufferSize - 1 <= Store[WriteIndex].CycleWritten
  BY <1>1, <1>2, <1>3, RingSize DEF SomeUnread
<1>5. ReadCycle(next) + BUFFER_STORAGE_LOOKAHEAD < cycle
  BY <1>1, <1>2, <1>4, RingSize DEF ReadCycle, BUFFER_STORAGE_LOOKAHEAD
<1> QED BY <1>2, <1>5

\* An ASSERT of Write that fails leaves the ring alone, and the reader is late if
\* it is the one about a row that still has data.
LEMMA StepWriteAsserts ==
    ASSUME IInv, WriteAsserts
    PROVE  IInv'
<1>1. CASE ~TimeGoesBack /\ RowHasData /\ Fails("row has data")
  <2>1. \E i \in Index : ~IsEmpty(i) /\ ReadCycle(i) + BUFFER_STORAGE_LOOKAHEAD < cycle
    BY <1>1, FullRing DEF RowHasData
  <2>2. ~Diligent
    <3> SUFFICES ASSUME Diligent PROVE FALSE
      OBVIOUS
    <3>1. PICK i \in Index : ~IsEmpty(i) /\ ReadCycle(i) + BUFFER_STORAGE_LOOKAHEAD < cycle
      BY <2>1
    <3>2. ReadCycle(i) >= cycle
      BY <1>1, <3>1 DEF IInv, DiligentInv, RowHasData
    <3>3. ReadCycle(i) \in Int /\ cycle \in Int
      BY Types, RingSize DEF IInv, ReadCycle
    <3> QED BY <3>1, <3>2, <3>3 DEF BUFFER_STORAGE_LOOKAHEAD
  <2> QED BY <1>1, <2>1, <2>2, StepFails
<1>2. CASE \E what \in {"time", "bandwidth", "stalled"} : Fails(what)
  BY <1>2, StepFails
<1> QED BY <1>1, <1>2 DEF WriteAsserts

\* A cycle ends: what a diligent reader could read it has read.
LEMMA StepTick ==
    ASSUME IInv, Tick
    PROVE  IInv'
<1> USE RingSize
<1>1. /\ cycle' = cycle + 1 /\ cycle < MaxCycle /\ failed = "none"
      /\ UNCHANGED <<kind, ringVars, Store, ReadIndex, WriteIndex, CycleRowRead, LastWritten, SequentialWrites,
                     active, stalled, stalledIn, PeekReadIndex, PeekStart, failed, sent, lastRead>>
      /\ Diligent => ~Readable
  BY DEF Tick, ringVars, statVars, flagVars, peekVars, historyVars
<1>2. cycle \in Nat /\ stalledIn \in Int /\ CycleRowRead \in Int /\ ReadIndex \in Index
      /\ \A i \in Index : Store[i].CycleWritten \in Int
  BY Types DEF IInv
<1>3. StoreInv'
  BY <1>1, <1>2, PortConstants, SMTT(30) DEF IInv, StoreInv, TypeOK
<1>4. StallInv'
  BY <1>1, <1>2 DEF IInv, StallInv
<1>5. DiligentInv'
  <2>1. (CycleRowRead <= cycle)' /\ (CycleRowRead # cycle)'
    BY <1>1, <1>2 DEF IInv, DiligentInv
  <2>2. ASSUME Diligent, active, NEW i \in Index, ~IsEmpty(i)
        PROVE  ReadCycle(i) >= cycle + 1
    <3>1. ~IsEmpty(ReadIndex) /\ Store[ReadIndex].CycleWritten <= Store[i].CycleWritten
      BY <1>2, <2>2, OldestRow
    <3>2. ReadCycle(ReadIndex) \in Int /\ ReadCycle(ReadIndex) <= ReadCycle(i) /\ ReadCycle(i) \in Int
      BY <1>2, <3>1 DEF ReadCycle
    <3>3. /\ ReadCycle(ReadIndex) >= cycle
          /\ CycleRowRead = cycle /\ Store[ReadIndex].Start = 0 => ReadCycle(ReadIndex) > cycle
      BY <1>2, <2>2, <3>1 DEF IInv, DiligentInv
    <3>4. ReadCycle(ReadIndex) <= cycle => CycleRowRead = cycle /\ Store[ReadIndex].Start = 0
      BY <1>1, <2>2, <3>1 DEF Readable
    <3> QED BY <1>2, <3>2, <3>3, <3>4
  <2>3. \A i \in Index : IsEmpty(i)' = IsEmpty(i) /\ ReadCycle(i)' = ReadCycle(i)
    BY <1>1 DEF IsEmpty, ReadCycle
  <2> QED BY <1>1, <2>1, <2>2, <2>3 DEF DiligentInv, Diligent
<1>6. OverrunMeansLateReader'
  BY <1>1 DEF OverrunMeansLateReader
<1>7. RowsInv' /\ ItemsInv'
  BY <1>1, RingUnchanged
<1> QED BY <1>3, <1>4, <1>5, <1>6, <1>7 DEF IInv

\* Clear leaves an empty ring.
LEMMA StepClear ==
    ASSUME Latency >= 1, IInv, Clear
    PROVE  IInv'
<1> USE RingSize
<1>1. /\ failed = "none"
      /\ Store' = [i \in Index |-> EmptyRow]
      /\ ReadIndex' = 0 /\ WriteIndex' = BufferSize - 1
      /\ PeekReadIndex' = 0 /\ SequentialWrites' = 0
      /\ UNCHANGED <<kind, CycleRowRead, LastWritten, active, stalled, stalledIn, PeekStart, failed, cycle, sent, lastRead>>
  BY DEF Clear, flagVars, historyVars
<1>2. EmptyRow \in Row /\ EmptyRow.Start = 0 /\ EmptyRow.End = 0 /\ EmptyRow.CycleWritten = -1
  BY PortConstants DEF EmptyRow, Row, Dummy
<1>3. \A i \in Index : Store'[i] = EmptyRow
  BY <1>1
<1>4. \A i \in Index : IsEmpty(i)'
  BY <1>2, <1>3 DEF IsEmpty
<1>5. StoreInv'
  <2>1. Store' \in [Index -> Row]
    BY <1>1, <1>2
  <2>2. \A i \in Index : Store'[i].Start <= Store'[i].End
    BY <1>2, <1>3
  <2>3. \A i \in Index : /\ Store'[i].CycleWritten \in Int
                         /\ Store'[i].Start \in 0..Bandwidth /\ Store'[i].End \in 0..Bandwidth
                         /\ Store'[i].Data \in [Slot -> 0..MaxItems]
    BY <1>2, <1>3 DEF Row
  <2>4. 0 \in Index /\ BufferSize - 1 \in Index
    OBVIOUS
  <2> QED BY <1>1, <2>1, <2>2, <2>3, <2>4 DEF IInv, StoreInv, TypeOK
<1>6. RowsInv'
  <2>1. (ReadIndex = NextIndex(WriteIndex))'
    BY <1>1 DEF NextIndex
  <2>2. (Store[WriteIndex].CycleWritten < cycle)'
    BY <1>1, <1>2, <1>3, Types DEF IInv
  <2> QED BY <1>4, <2>1, <2>2 DEF RowsInv, AllRead
<1>7. StallInv'
  BY <1>1 DEF IInv, StallInv
<1>8. ItemsInv'
  <2>1. \A i \in Index : Unread(i)' = {}
    BY <1>2, <1>3 DEF Unread
  <2> QED BY <2>1 DEF ItemsInv
<1>9. DiligentInv'
  BY <1>1, <1>4 DEF IInv, DiligentInv, Diligent
<1>10. OverrunMeansLateReader'
  BY <1>1 DEF OverrunMeansLateReader
<1> QED BY <1>5, <1>6, <1>7, <1>8, <1>9, <1>10 DEF IInv

\* A row whose cycle a stall moves on is still a row.
LEMMA DelayedRow ==
    ASSUME NEW row \in Row
    PROVE  [row EXCEPT !.CycleWritten = @ + 1] \in Row
<1>1. row.CycleWritten \in Int
  BY DEF Row
<1> QED BY <1>1 DEF Row

\* A stall moves all unread rows on by one cycle, so they keep their order.
LEMMA StepStall ==
    ASSUME IInv, Stall
    PROVE  IInv'
<1> USE RingSize
<1>1. /\ failed = "none" /\ stalledIn # cycle /\ stalled' = TRUE /\ stalledIn' = cycle
      /\ Store' = [i \in Index |-> [Store[i] EXCEPT !.CycleWritten = @ + 1]]
      /\ UNCHANGED <<kind, ReadIndex, WriteIndex, CycleRowRead, LastWritten, SequentialWrites, active,
                     PeekReadIndex, PeekStart, failed, cycle, sent, lastRead>>
  BY DEF Stall, statVars, peekVars, historyVars
<1>2. ASSUME NEW i \in Index
      PROVE  /\ Store'[i] \in Row
             /\ Store'[i].CycleWritten = Store[i].CycleWritten + 1
             /\ Store'[i].Start = Store[i].Start /\ Store'[i].End = Store[i].End
             /\ Store'[i].Data = Store[i].Data
  <2>1. Store[i] \in Row
    BY Types DEF IInv
  <2>2. Store'[i] = [Store[i] EXCEPT !.CycleWritten = @ + 1]
    BY <1>1
  <2>3. Store[i].CycleWritten \in Int
    BY <2>1 DEF Row
  <2>4. /\ Store'[i].CycleWritten = Store[i].CycleWritten + 1
        /\ Store'[i].Start = Store[i].Start /\ Store'[i].End = Store[i].End
        /\ Store'[i].Data = Store[i].Data
    BY <2>1, <2>2 DEF Row
  <2>5. Store'[i] \in Row
    BY <2>1, <2>2, DelayedRow
  <2> QED BY <2>4, <2>5
<1>3. cycle \in Nat /\ ReadIndex \in Index /\ WriteIndex \in Index
      /\ \A i \in Index : Store[i].CycleWritten \in Int
  BY Types DEF IInv
<1>4. \A i \in Index : /\ IsEmpty(i)' = IsEmpty(i) /\ Age(i)' = Age(i) /\ Unread(i)' = Unread(i)
                       /\ ReadCycle(i)' = ReadCycle(i) + 1
  <2> SUFFICES ASSUME NEW i \in Index
               PROVE  /\ IsEmpty(i)' = IsEmpty(i) /\ Age(i)' = Age(i) /\ Unread(i)' = Unread(i)
                      /\ ReadCycle(i)' = ReadCycle(i) + 1
    OBVIOUS
  <2>1. IsEmpty(i)' = IsEmpty(i) /\ Unread(i)' = Unread(i)
    BY <1>2 DEF IsEmpty, Unread
  <2>2. Age(i)' = Age(i)
    BY <1>1 DEF Age
  <2>3. ReadCycle(i)' = ReadCycle(i) + 1
    BY <1>2, <1>3 DEF ReadCycle
  <2> QED BY <2>1, <2>2, <2>3
<1>5. StoreInv'
  <2>1. Store' \in [Index -> Row]
    BY <1>1, <1>2
  <2>2. \A i \in Index : Store'[i].Start <= Store'[i].End
    BY <1>2, Types DEF IInv
  <2>3. \A i \in Index : /\ Store'[i].CycleWritten \in Int
                         /\ Store'[i].Start \in 0..Bandwidth /\ Store'[i].End \in 0..Bandwidth
                         /\ Store'[i].Data \in [Slot -> 0..MaxItems]
    BY <1>2 DEF Row
  <2>4. cycle \in 0..MaxCycle
    BY DEF IInv, StoreInv, TypeOK
  <2>5. stalledIn' \in -1..MaxCycle /\ stalled' \in BOOLEAN
    BY <1>1, <2>4
  <2> QED BY <1>1, <2>1, <2>2, <2>3, <2>5 DEF IInv, StoreInv, TypeOK
<1>6. RowsInv'
  <2>1. AllRead => AllRead'
    <3> SUFFICES ASSUME AllRead PROVE AllRead'
      OBVIOUS
    <3>1. \A i \in Index : IsEmpty(i)'
      BY <1>4 DEF AllRead
    <3>2. (ReadIndex = NextIndex(WriteIndex))'
      BY <1>1 DEF AllRead, NextIndex
    <3>3. (\/ Store[WriteIndex].CycleWritten < cycle
           \/ Store[WriteIndex].CycleWritten = cycle /\ stalledIn = cycle)'
      BY <1>1, <1>2, <1>3 DEF AllRead
    <3> QED BY <3>1, <3>2, <3>3 DEF AllRead
  <2>2. SomeUnread => SomeUnread'
    <3> SUFFICES ASSUME SomeUnread PROVE SomeUnread'
      OBVIOUS
    <3>1. \A i \in Index : (IsEmpty(i) <=> Age(i) < Age(ReadIndex))'
      BY <1>1, <1>3, <1>4 DEF SomeUnread
    <3>2. ASSUME NEW i \in Index, NEW j \in Index, Age(ReadIndex)' <= Age(i)', Age(i)' <= Age(j)'
          PROVE  Store'[i].CycleWritten + Age(j)' - Age(i)' <= Store'[j].CycleWritten
      <4>1. Age(ReadIndex) <= Age(i) /\ Age(i) <= Age(j)
        BY <1>1, <1>3, <1>4, <3>2
      <4>2. Store[i].CycleWritten + Age(j) - Age(i) <= Store[j].CycleWritten
        BY <4>1 DEF SomeUnread
      <4>3. Age(i) \in Int /\ Age(j) \in Int
        BY <1>3, Ages
      <4> QED BY <1>2, <1>3, <1>4, <4>2, <4>3, SMTT(30)
    <3> QED BY <3>1, <3>2 DEF SomeUnread
  <2> QED BY <1>1, <2>1, <2>2 DEF IInv, RowsInv
<1>7. StallInv'
  BY <1>1, <1>3 DEF StallInv
<1>8. ItemsInv'
  <2> SUFFICES ASSUME active, NEW i \in Index, NEW j \in Index, NEW k \in Unread(i), NEW l \in Unread(j)
               PROVE  /\ Store'[i].Data[k] <= sent
                      /\ Age(i)' < Age(j)' \/ (i = j /\ k < l) => Store'[i].Data[k] < Store'[j].Data[l]
    BY <1>1, <1>4 DEF ItemsInv
  <2>1. Age(i)' = Age(i) /\ Age(j)' = Age(j) /\ Store'[i].Data = Store[i].Data /\ Store'[j].Data = Store[j].Data
    BY <1>2, <1>4
  <2>2. /\ Store[i].Data[k] <= sent
        /\ Age(i) < Age(j) \/ (i = j /\ k < l) => Store[i].Data[k] < Store[j].Data[l]
    BY DEF IInv, ItemsInv
  <2> QED BY <2>1, <2>2
<1>9. DiligentInv'
  <2>1. \A i \in Index : ReadCycle(i) \in Int
    BY <1>3 DEF ReadCycle
  <2> QED BY <1>1, <1>2, <1>3, <1>4, <2>1 DEF IInv, DiligentInv, Diligent
<1>10. OverrunMeansLateReader'
  BY <1>1 DEF OverrunMeansLateReader
<1> QED BY <1>5, <1>6, <1>7, <1>8, <1>9, <1>10 DEF IInv

\* The row that is read, and the row that is written.
LEMMA RowRead ==
    ASSUME NEW row \in Row, NEW k \in Slot
    PROVE  LET new == [row EXCEPT !.Data[k] = Dummy, !.Start = k + 1]
           IN  /\ new \in Row /\ new.CycleWritten = row.CycleWritten
               /\ new.Start = k + 1 /\ new.End = row.End
               /\ \A l \in Slot \ {k} : new.Data[l] = row.Data[l]
<1>1. k + 1 \in 0..Bandwidth /\ Dummy \in 0..MaxItems
  BY RingSize, PortConstants DEF Dummy
<1>2. [row EXCEPT !.Data[k] = Dummy, !.Start = k + 1]
         = [row EXCEPT !.Data = [row.Data EXCEPT ![k] = Dummy], !.Start = k + 1]
  BY DEF Row
<1>3. [row.Data EXCEPT ![k] = Dummy] \in [Slot -> 0..MaxItems]
      /\ \A l \in Slot \ {k} : [row.Data EXCEPT ![k] = Dummy][l] = row.Data[l]
  BY <1>1 DEF Row
<1> DEFINE data == [row.Data EXCEPT ![k] = Dummy]
<1> HIDE DEF data
<1>4. LET new == [row EXCEPT !.Data = data, !.Start = k + 1]
      IN  /\ new \in Row /\ new.CycleWritten = row.CycleWritten
          /\ new.Start = k + 1 /\ new.End = row.End /\ new.Data = data
  BY <1>1, <1>3 DEF Row, data
<1> QED BY <1>2, <1>3, <1>4 DEF data

\* What Write does to the row it adds an item to.
LEMMA RowWritten ==
    ASSUME NEW row \in Row, row.End \in Slot, NEW x \in 0..MaxItems
    PROVE  LET new == [row EXCEPT !.Data[row.End] = x, !.End = @ + 1]
           IN  /\ new \in Row /\ new.CycleWritten = row.CycleWritten
               /\ new.Start = row.Start /\ new.End = row.End + 1
               /\ new.Data[row.End] = x
               /\ \A l \in Slot \ {row.End} : new.Data[l] = row.Data[l]
<1>1. row.End + 1 \in 0..Bandwidth
  BY RingSize
<1>2. [row EXCEPT !.Data[row.End] = x, !.End = @ + 1]
         = [row EXCEPT !.Data = [row.Data EXCEPT ![row.End] = x], !.End = row.End + 1]
  BY DEF Row
<1> DEFINE data == [row.Data EXCEPT ![row.End] = x]
<1>3. data \in [Slot -> 0..MaxItems] /\ data[row.End] = x
      /\ \A l \in Slot \ {row.End} : data[l] = row.Data[l]
  BY DEF Row
<1> HIDE DEF data
<1>4. LET new == [row EXCEPT !.Data = data, !.End = row.End + 1]
      IN  /\ new \in Row /\ new.CycleWritten = row.CycleWritten
          /\ new.Start = row.Start /\ new.End = row.End + 1 /\ new.Data = data
  BY <1>1, <1>3 DEF Row
<1> QED BY <1>2, <1>3, <1>4 DEF data

\* An item is read from the row at ReadIndex, and the reader leaves the row when
\* it is empty.
LEMMA StepRead ==
    ASSUME Latency >= 1, IInv, active, Read
    PROVE  IInv'
<1>0. PICK R : R = ReadIndex
  OBVIOUS
<1> DEFINE start == Store[R].Start
           end == Store[R].End
<1>1. /\ failed = "none" /\ Readable
      /\ SequentialWrites' = 0 /\ lastRead' = Store[R].Data[start]
      /\ Store' = [Store EXCEPT ![R].Data[start] = Dummy, ![R].Start = start + 1]
      /\ CycleRowRead' = IF start = 0 THEN cycle ELSE CycleRowRead
      /\ active' = TRUE
      /\ ReadIndex' = IF start + 1 = end THEN NextIndex(R) ELSE R
      /\ UNCHANGED <<kind, WriteIndex, LastWritten, stalled, stalledIn, PeekReadIndex, PeekStart, failed,
                     cycle, sent>>
  BY <1>0 DEF Read, peekVars
<1>2. /\ R \in Index /\ WriteIndex \in Index /\ cycle \in Nat /\ Store[R] \in Row
      /\ start \in 0..Bandwidth /\ end \in 0..Bandwidth /\ start <= end
      /\ \A i \in Index : Store[i].CycleWritten \in Int
  BY <1>0, Types DEF IInv
<1>3. /\ ~IsEmpty(R) /\ start # end /\ start \in Slot
      /\ ReadCycle(R) <= cycle
  <2>1. ~IsEmpty(R) /\ start # end /\ ReadCycle(R) <= cycle
    BY <1>0, <1>1 DEF Readable, IsEmpty
  <2>2. start \in Slot
    BY <1>2, <2>1, RingSize
  <2> QED BY <2>1, <2>2
<1>4. SomeUnread
  BY <1>0, <1>2, <1>3, OldestRow
<1>5. /\ Store'[R] \in Row /\ Store'[R].CycleWritten = Store[R].CycleWritten
      /\ Store'[R].Start = start + 1 /\ Store'[R].End = end
      /\ \A l \in Slot \ {start} : Store'[R].Data[l] = Store[R].Data[l]
  <2>1. Store'[R] = [Store[R] EXCEPT !.Data[start] = Dummy, !.Start = start + 1]
    BY <1>1, <1>2 DEF IInv, StoreInv
  <2>2. LET new == [Store[R] EXCEPT !.Data[start] = Dummy, !.Start = start + 1]
        IN  /\ new \in Row /\ new.CycleWritten = Store[R].CycleWritten
            /\ new.Start = start + 1 /\ new.End = Store[R].End
            /\ \A l \in Slot \ {start} : new.Data[l] = Store[R].Data[l]
    <3> HIDE DEF start
    <3> QED BY <1>2, <1>3, RowRead
  <2> QED BY <2>1, <2>2
<1>6. /\ \A i \in Index \ {R} : Store'[i] = Store[i]
      /\ Store' \in [Index -> Row]
  BY <1>1, <1>2, <1>5 DEF IInv, StoreInv
<1> HIDE DEF start, end
<1>7. /\ \A i \in Index \ {R} : IsEmpty(i)' <=> IsEmpty(i)
      /\ IsEmpty(R)' <=> start + 1 = end
      /\ \A i \in Index : /\ Age(i)' = Age(i) /\ ReadCycle(i)' = ReadCycle(i)
                          /\ Store'[i].CycleWritten = Store[i].CycleWritten
  <2>1. \A i \in Index : Store'[i].CycleWritten = Store[i].CycleWritten
    BY <1>5, <1>6
  <2>2. \A i \in Index : Age(i)' = Age(i) /\ ReadCycle(i)' = ReadCycle(i)
    BY <1>1, <2>1 DEF Age, ReadCycle
  <2>3. \A i \in Index \ {R} : IsEmpty(i)' <=> IsEmpty(i)
    BY <1>6 DEF IsEmpty
  <2>4. IsEmpty(R)' <=> start + 1 = end
    <3>1. \A i \in Index : IsEmpty(i)' <=> Store'[i].Start = Store'[i].End
      BY DEF IsEmpty
    <3> QED BY <1>2, <1>5, <3>1
  <2> QED BY <2>1, <2>2, <2>3, <2>4
<1>8. /\ Age(WriteIndex) = BufferSize - 1 /\ NextIndex(R) \in Index
      /\ \A i \in Index : Age(i) \in 0..BufferSize - 1
      /\ \A i, j \in Index : Age(i) = Age(j) => i = j
      /\ R # WriteIndex => Age(NextIndex(R)) = Age(R) + 1
  BY <1>2, Ages
<1>9. StoreInv'
  <2>1. \A i \in Index : Store'[i].Start <= Store'[i].End
    <3>1. start + 1 <= end
      BY <1>2, <1>3, RingSize
    <3> QED BY <1>5, <1>6, <3>1, Types DEF IInv
  <2>2. \A i \in Index : /\ Store'[i].CycleWritten \in Int
                         /\ Store'[i].Start \in 0..Bandwidth /\ Store'[i].End \in 0..Bandwidth
                         /\ Store'[i].Data \in [Slot -> 0..MaxItems]
    BY <1>6 DEF Row
  <2>3. ReadIndex' \in Index
    BY <1>1, <1>2, <1>8
  <2>4. CycleRowRead' \in -1..MaxCycle /\ SequentialWrites' \in Nat
    BY <1>1, PortConstants DEF IInv, StoreInv, TypeOK
  <2>5. lastRead' \in 0..MaxItems
    BY <1>1, <1>2, <1>3 DEF Row
  <2> QED BY <1>1, <1>6, <2>1, <2>2, <2>3, <2>4, <2>5 DEF IInv, StoreInv, TypeOK
<1>10. start + 1 = end /\ R = WriteIndex => AllRead'
  <2> SUFFICES ASSUME start + 1 = end, R = WriteIndex PROVE AllRead'
    OBVIOUS
  <2>1. \A i \in Index \ {R} : IsEmpty(i)
    <3>1. \A i \in Index \ {R} : Age(i) # BufferSize - 1
      BY <1>2, <1>8
    <3>2. \A i \in Index \ {R} : Age(i) < Age(R)
      BY <1>8, <3>1, RingSize
    <3> QED BY <1>0, <1>4, <3>2 DEF SomeUnread
  <2>2. \A i \in Index : IsEmpty(i)'
    <3> SUFFICES ASSUME NEW i \in Index PROVE IsEmpty(i)'
      OBVIOUS
    <3> QED BY <1>7, <2>1
  <2>3. (ReadIndex = NextIndex(WriteIndex))'
    BY <1>1 DEF NextIndex
  <2>4. (Store[WriteIndex].CycleWritten < cycle)'
    <3>1. Store'[WriteIndex'].CycleWritten = Store[R].CycleWritten
      BY <1>1, <1>2, <1>7
    <3>2. Store[R].CycleWritten < cycle
      BY <1>2, <1>3, RingSize DEF ReadCycle
    <3> QED BY <1>1, <3>1, <3>2
  <2> QED BY <2>2, <2>3, <2>4 DEF AllRead
<1>11. ~(start + 1 = end /\ R = WriteIndex) => SomeUnread'
  <2> SUFFICES ASSUME ~(start + 1 = end /\ R = WriteIndex) PROVE SomeUnread'
    OBVIOUS
  <2>0. ReadIndex' \in Index
    BY <1>1, <1>2, <1>8
  <2>1. Age(ReadIndex)' = IF start + 1 = end THEN Age(R) + 1 ELSE Age(R)
    BY <1>0, <1>1, <1>7, <1>8, <2>0 DEF Age
  <2>2. \A i \in Index : IsEmpty(i) <=> Age(i) < Age(R)
    BY <1>0, <1>4 DEF SomeUnread
  <2>3. \A i \in Index : Age(i) < Age(R) \/ i = R \/ Age(i) >= Age(R) + 1
    BY <1>2, <1>8, RingSize
  <2>4. \A i \in Index : IsEmpty(i)' <=> Age(i)' < Age(ReadIndex)'
    <3> SUFFICES ASSUME NEW i \in Index PROVE IsEmpty(i)' <=> Age(i) < Age(ReadIndex)'
      BY <1>7
    <3>1. Age(i) \in Int /\ Age(R) \in Int
      BY <1>2, <1>8
    <3>2. CASE i = R
      BY <1>7, <2>1, <2>2, <3>1, <3>2
    <3>3. CASE i # R
      BY <1>7, <2>1, <2>2, <2>3, <3>1, <3>3
    <3> QED BY <3>2, <3>3
  <2>5. ASSUME NEW i \in Index, NEW j \in Index, Age(ReadIndex)' <= Age(i)', Age(i)' <= Age(j)'
        PROVE  Store'[i].CycleWritten + Age(j)' - Age(i)' <= Store'[j].CycleWritten
    <3>1. Age(R) <= Age(i) /\ Age(i) <= Age(j)
      <4>1. Age(i) \in Int /\ Age(R) \in Int /\ Age(j) \in Int
        BY <1>2, <1>8
      <4>2. Age(i)' = Age(i) /\ Age(j)' = Age(j)
        BY <1>7
      <4> QED BY <2>1, <2>5, <4>1, <4>2
    <3> QED BY <1>0, <1>4, <1>7, <3>1 DEF SomeUnread
  <2> QED BY <2>4, <2>5 DEF SomeUnread
<1>12. RowsInv'
  BY <1>10, <1>11 DEF RowsInv
<1>13. StallInv'
  BY <1>1 DEF IInv, StallInv
<1>14. ItemsInv'
  <2>1. \A i \in Index : \A k \in Unread(i)' : k \in Unread(i) /\ Store'[i].Data[k] = Store[i].Data[k]
    <3> SUFFICES ASSUME NEW i \in Index, NEW k \in Unread(i)'
                 PROVE  k \in Unread(i) /\ Store'[i].Data[k] = Store[i].Data[k]
      OBVIOUS
    <3>1. CASE i = R
      <4>1. k \in Unread(i) /\ k # start
        BY <1>2, <1>5, <3>1, RingSize, SMTT(30) DEF Unread, start, end
      <4> QED BY <1>5, <3>1, <4>1, Types DEF IInv
    <3>2. CASE i # R
      BY <1>6, <3>2 DEF Unread
    <3> QED BY <3>1, <3>2
  <2> SUFFICES ASSUME NEW i \in Index, NEW j \in Index, NEW k \in Unread(i)', NEW l \in Unread(j)'
               PROVE  /\ Store'[i].Data[k] <= sent'
                      /\ Age(i)' < Age(j)' \/ (i = j /\ k < l) => Store'[i].Data[k] < Store'[j].Data[l]
    BY DEF ItemsInv
  <2>2. k \in Unread(i) /\ l \in Unread(j)
        /\ Store'[i].Data[k] = Store[i].Data[k] /\ Store'[j].Data[l] = Store[j].Data[l]
    BY <2>1
  <2>3. /\ Store[i].Data[k] <= sent
        /\ Age(i) < Age(j) \/ (i = j /\ k < l) => Store[i].Data[k] < Store[j].Data[l]
    BY <2>2 DEF IInv, ItemsInv
  <2> QED BY <1>1, <1>7, <2>2, <2>3
<1>15. DiligentInv'
  <2>1. (CycleRowRead <= cycle)'
    BY <1>1, <1>2 DEF IInv, DiligentInv
  <2>2. ASSUME Diligent, NEW i \in Index, ~IsEmpty(i)'
        PROVE  (ReadCycle(i) >= cycle)'
    <3>1. ~IsEmpty(i)
      BY <1>3, <1>7, <2>2
    <3> QED BY <1>1, <1>7, <2>2, <3>1 DEF IInv, DiligentInv
  <2>3. ASSUME Diligent, ~IsEmpty(ReadIndex)', (Store[ReadIndex].Start = 0)'
        PROVE  (ReadCycle(ReadIndex) > cycle)'
    <3>1. start + 1 = end /\ ReadIndex' = NextIndex(R)
      <4>1. ReadIndex' = R => Store'[ReadIndex'].Start = start + 1
        BY <1>5
      <4>2. start + 1 # 0
        BY <1>2, RingSize
      <4> QED BY <1>1, <2>3, <4>1, <4>2
    <3>2. R # WriteIndex
      BY <1>1, <1>8, <1>10, <2>3, <3>1 DEF AllRead
    <3> DEFINE next == NextIndex(R)
    <3>3. /\ next \in Index /\ Age(next) = Age(R) + 1 /\ Age(R) \in Int
          /\ Store[R].CycleWritten \in Int /\ Store[next].CycleWritten \in Int
      BY <1>2, <1>8, <3>2
    <3> HIDE DEF next
    <3>4. Store[R].CycleWritten < Store[next].CycleWritten
      <4>1. Store[R].CycleWritten + Age(next) - Age(R) <= Store[next].CycleWritten
        BY <1>0, <1>2, <1>4, <3>3 DEF SomeUnread
      <4> QED BY <3>3, <4>1
    <3>5. ReadCycle(R) = cycle
      BY <1>0, <1>1, <2>3, DiligentReads
    <3>6. ReadCycle(next) > cycle
      <4>1. ReadCycle(next) = Store[next].CycleWritten + Latency
            /\ Store[R].CycleWritten + Latency = cycle
        BY <3>5 DEF ReadCycle
      <4>2. Latency \in Nat
        BY RingSize
      <4> QED BY <3>3, <3>4, <4>1, <4>2
    <3>7. ReadCycle(ReadIndex)' = ReadCycle(next)
      <4>1. ReadIndex' = next
        BY <3>1 DEF next
      <4> QED BY <1>7, <3>3, <4>1 DEF ReadCycle
    <3> QED BY <1>1, <3>6, <3>7
  <2>4. Diligent' = Diligent /\ (Diligent => failed \notin {"wrong cycle", "row has data"})'
    BY <1>1 DEF Diligent
  <2> QED BY <2>1, <2>2, <2>3, <2>4 DEF DiligentInv
<1>16. OverrunMeansLateReader'
  BY <1>1 DEF OverrunMeansLateReader
<1> QED BY <1>9, <1>12, <1>13, <1>14, <1>15, <1>16 DEF IInv

\* What Write does to the row it begins.
LEMMA RowBegun ==
    ASSUME NEW row \in Row, NEW c \in Int
    PROVE  LET new == [row EXCEPT !.CycleWritten = c, !.Start = 0, !.End = 0]
           IN  new \in Row /\ new.CycleWritten = c /\ new.Start = 0 /\ new.End = 0
<1>1. 0 \in 0..Bandwidth
  BY RingSize
<1> QED BY <1>1 DEF Row

\* What a write does to the rows: the row of this cycle, begun or continued, gets
\* one more item.
LEMMA WriteRows ==
    ASSUME IInv, Write
    PROVE  \E n \in Index :
              /\ n = RowToWrite /\ WriteIndex' = n
              /\ Store' \in [Index -> Row] /\ \A i \in Index \ {n} : Store'[i] = Store[i]
              /\ Store'[n].CycleWritten = cycle
              /\ Store'[n].Start <= Store'[n].End /\ Store'[n].Start # Store'[n].End
              /\ \E e \in Slot :
                    /\ Store'[n].End = e + 1 /\ Store'[n].Data[e] = sent + 1
                    /\ BeginsRow => Store'[n].Start = e
                    /\ ~BeginsRow => /\ Store'[n].Start = Store[n].Start /\ Store[n].End = e
                                     /\ \A l \in Slot \ {e} : Store'[n].Data[l] = Store[n].Data[l]
<1> DEFINE n == RowToWrite
           row == IF BeginsRow THEN [Store[n] EXCEPT !.CycleWritten = cycle, !.Start = 0, !.End = 0]
                  ELSE Store[n]
           new == [row EXCEPT !.Data[row.End] = sent + 1, !.End = @ + 1]
<1>1. /\ WriteIndex \in Index /\ NextIndex(WriteIndex) \in Index /\ cycle \in Int
  BY Types, Ages DEF IInv
<1>2. n \in Index
  BY <1>1 DEF RowToWrite
<1>3. /\ Store[n] \in Row /\ Store[n].Start \in 0..Bandwidth /\ Store[n].End \in 0..Bandwidth
      /\ Store[n].Start <= Store[n].End /\ Store[n].CycleWritten \in Int
  BY <1>2, Types DEF IInv
<1>4. sent + 1 \in 0..MaxItems
  <2>1. kind \in Kinds /\ sent \in 0..MaxItems
    BY DEF IInv, StoreInv, TypeOK
  <2>2. sent < ItemBound[kind] /\ ItemBound[kind] \in 0..MaxItems
    BY <2>1, PortConstants DEF Write
  <2> QED BY <2>1, <2>2, PortConstants
<1>5. Store' = [Store EXCEPT ![n] = new] /\ WriteIndex' = n /\ ~RowAtBandwidth
  BY DEF Write
<1> HIDE DEF n
<1>6. /\ row \in Row /\ row.End \in Slot /\ row.Start \in 0..Bandwidth /\ row.Start <= row.End
      /\ row.CycleWritten = cycle
      /\ BeginsRow => row.Start = 0 /\ row.End = 0
      /\ ~BeginsRow => row = Store[n]
  <2>1. CASE BeginsRow
    <3>1. 0 \in 0..Bandwidth /\ 0 \in Slot
      BY RingSize
    <3>2. row = [Store[n] EXCEPT !.CycleWritten = cycle, !.Start = 0, !.End = 0]
      BY <2>1
    <3>3. /\ row \in Row /\ row.CycleWritten = cycle /\ row.Start = 0 /\ row.End = 0
      <4> HIDE DEF row
      <4> QED BY <1>1, <1>3, <3>2, RowBegun
    <3> QED BY <2>1, <3>1, <3>3
  <2>2. CASE ~BeginsRow
    <3>1. row = Store[n] /\ n = WriteIndex
      BY <2>2 DEF RowToWrite, n
    <3>2. Store[n].End < Bandwidth /\ Store[n].CycleWritten = cycle
      BY <1>3, <1>5, <2>2, <3>1, RingSize DEF RowAtBandwidth, BeginsRow
    <3>3. Store[n].End \in Slot
      BY <1>3, <3>2, RingSize
    <3> QED BY <1>3, <2>2, <3>1, <3>2, <3>3
  <2> QED BY <2>1, <2>2
<1> HIDE DEF row
<1>7. /\ new \in Row /\ new.CycleWritten = cycle
      /\ new.Start = row.Start /\ new.End = row.End + 1
      /\ new.Data[row.End] = sent + 1
      /\ \A l \in Slot \ {row.End} : new.Data[l] = row.Data[l]
  BY <1>4, <1>6, RowWritten
<1> HIDE DEF new
<1>8. Store'[n] = new /\ Store' \in [Index -> Row] /\ \A i \in Index \ {n} : Store'[i] = Store[i]
  BY <1>2, <1>5, <1>7 DEF IInv, StoreInv
<1>9. new.Start <= new.End /\ new.Start # new.End
  BY <1>6, <1>7, RingSize
<1> WITNESS n \in Index
<1>10. /\ Store'[n].End = row.End + 1 /\ Store'[n].Data[row.End] = sent + 1
       /\ BeginsRow => Store'[n].Start = row.End
       /\ ~BeginsRow => /\ Store'[n].Start = Store[n].Start /\ Store[n].End = row.End
                        /\ \A l \in Slot \ {row.End} : Store'[n].Data[l] = Store[n].Data[l]
  BY <1>6, <1>7, <1>8
<1> QED BY <1>5, <1>6, <1>7, <1>8, <1>9, <1>10 DEF n

\* An item is written.
LEMMA StepWrite ==
    ASSUME Latency >= 1, IInv, Write
    PROVE  IInv'
<1>1. /\ failed = "none" /\ ~TimeGoesBack /\ ~RowHasData /\ ~stalled
      /\ LastWritten' = IF BeginsRow THEN cycle ELSE LastWritten
      /\ SequentialWrites' = IF BeginsRow THEN SequentialWrites + 1 ELSE SequentialWrites
      /\ sent' = sent + 1 /\ sent < ItemBound[kind]
      /\ UNCHANGED <<kind, ReadIndex, CycleRowRead, active, stalled, stalledIn, PeekReadIndex, PeekStart,
                     failed, cycle, lastRead>>
  BY DEF Write, flagVars, peekVars
<1>2. PICK n \in Index :
         /\ n = RowToWrite /\ WriteIndex' = n
         /\ Store' \in [Index -> Row] /\ \A i \in Index \ {n} : Store'[i] = Store[i]
         /\ Store'[n].CycleWritten = cycle
         /\ Store'[n].Start <= Store'[n].End /\ Store'[n].Start # Store'[n].End
         /\ \E e \in Slot :
               /\ Store'[n].End = e + 1 /\ Store'[n].Data[e] = sent + 1
               /\ BeginsRow => Store'[n].Start = e
               /\ ~BeginsRow => /\ Store'[n].Start = Store[n].Start /\ Store[n].End = e
                                /\ \A l \in Slot \ {e} : Store'[n].Data[l] = Store[n].Data[l]
  BY WriteRows
<1>3. PICK e \in Slot :
         /\ Store'[n].End = e + 1 /\ Store'[n].Data[e] = sent + 1
         /\ BeginsRow => Store'[n].Start = e
         /\ ~BeginsRow => /\ Store'[n].Start = Store[n].Start /\ Store[n].End = e
                          /\ \A l \in Slot \ {e} : Store'[n].Data[l] = Store[n].Data[l]
  BY <1>2
<1>4. /\ WriteIndex \in Index /\ ReadIndex \in Index /\ cycle \in Nat /\ sent \in Nat /\ e \in Int
      /\ \A i \in Index : Store[i].CycleWritten \in Int
      /\ BufferSize \in Int /\ BufferSize >= 4 /\ Latency \in Nat
  BY Types, RingSize DEF IInv
<1>5. /\ Store[WriteIndex].CycleWritten # cycle => Store[WriteIndex].CycleWritten < cycle
      /\ BeginsRow <=> Store[WriteIndex].CycleWritten # cycle
      /\ n = IF BeginsRow THEN NextIndex(WriteIndex) ELSE WriteIndex
      /\ BeginsRow /\ active => IsEmpty(n)
  BY <1>1, <1>2, <1>4 DEF TimeGoesBack, BeginsRow, RowHasData, RowToWrite
<1>6. /\ ~IsEmpty(n)'
      /\ \A i \in Index \ {n} : (IsEmpty(i)' <=> IsEmpty(i)) /\ Unread(i)' = Unread(i)
      /\ \A i \in Index \ {n} : ReadCycle(i)' = ReadCycle(i) /\ Store'[i].CycleWritten = Store[i].CycleWritten
      /\ ReadCycle(n)' = cycle + Latency
  BY <1>2 DEF IsEmpty, Unread, ReadCycle
<1>7. /\ Age(n)' = BufferSize - 1
      /\ \A i \in Index : Age(i) \in 0..BufferSize - 1
      /\ \A i \in Index \ {n} : Age(i)' = IF BeginsRow THEN Age(i) - 1 ELSE Age(i)
      /\ \A i \in Index \ {n} : Age(i) # Age(n)
      /\ Age(n) = IF BeginsRow THEN 0 ELSE BufferSize - 1
  <2>1. CASE BeginsRow
    BY <1>2, <1>4, <1>5, <2>1, Ages, AgesShift
  <2>2. CASE ~BeginsRow
    <3>1. \A i : Age(i)' = Age(i)
      BY <1>2, <1>5, <2>2 DEF Age
    <3> QED BY <1>4, <1>5, <2>2, <3>1, Ages
  <2> QED BY <2>1, <2>2
<1>8. \A i \in Index \ {n} : Age(i)' \in Int /\ Age(i)' < BufferSize - 1
  BY <1>4, <1>7
<1>9. StoreInv'
  <2>1. \A i \in Index : Store'[i].Start <= Store'[i].End
    BY <1>2, Types DEF IInv
  <2>2. \A i \in Index : /\ Store'[i].CycleWritten \in Int
                         /\ Store'[i].Start \in 0..Bandwidth /\ Store'[i].End \in 0..Bandwidth
                         /\ Store'[i].Data \in [Slot -> 0..MaxItems]
    BY <1>2 DEF Row
  <2>3. sent' \in 0..MaxItems
    <3>1. kind \in Kinds /\ sent \in 0..MaxItems
      BY DEF IInv, StoreInv, TypeOK
    <3>2. sent < ItemBound[kind] /\ ItemBound[kind] \in 0..MaxItems
      BY <1>1, <3>1, PortConstants
    <3> QED BY <1>1, <3>1, <3>2, PortConstants
  <2>4. LastWritten' \in 0..MaxCycle /\ SequentialWrites' \in Nat
    BY <1>1 DEF IInv, StoreInv, TypeOK
  <2> QED BY <1>1, <1>2, <2>1, <2>2, <2>3, <2>4 DEF IInv, StoreInv, TypeOK
<1>10. ASSUME active, AllRead
       PROVE  SomeUnread'
  <2>1. BeginsRow
    BY <1>1, <1>4, <1>5, <1>10 DEF IInv, StallInv, AllRead
  <2>2. ReadIndex = n /\ \A i \in Index : IsEmpty(i)
    BY <1>5, <1>10, <2>1 DEF AllRead
  <2>3. Age(ReadIndex)' = BufferSize - 1
    <3>1. ReadIndex' = n
      BY <1>1, <2>2
    <3> QED BY <1>7, <3>1 DEF Age
  <2>4. \A i \in Index : IsEmpty(i)' <=> Age(i)' < Age(ReadIndex)'
    <3> SUFFICES ASSUME NEW i \in Index PROVE IsEmpty(i)' <=> Age(i)' < BufferSize - 1
      BY <2>3
    <3>1. CASE i = n
      BY <1>4, <1>6, <1>7, <3>1
    <3>2. CASE i # n
      BY <1>6, <1>8, <2>2, <3>2
    <3> QED BY <3>1, <3>2
  <2>5. ASSUME NEW i \in Index, NEW j \in Index, Age(ReadIndex)' <= Age(i)', Age(i)' <= Age(j)'
        PROVE  Store'[i].CycleWritten + Age(j)' - Age(i)' <= Store'[j].CycleWritten
    <3>1. i = n
      BY <1>4, <1>8, <2>3, <2>5
    <3>2. j = n
      BY <1>4, <1>7, <1>8, <2>5, <3>1
    <3> QED BY <1>2, <1>4, <1>7, <3>1, <3>2
  <2> QED BY <2>4, <2>5 DEF SomeUnread
<1>11. ASSUME active, SomeUnread
       PROVE  SomeUnread'
  <2>1. /\ \A i \in Index : IsEmpty(i) <=> Age(i) < Age(ReadIndex)
        /\ \A i, j \in Index : Age(ReadIndex) <= Age(i) /\ Age(i) <= Age(j) =>
                                  Store[i].CycleWritten + Age(j) - Age(i) <= Store[j].CycleWritten
    BY <1>11 DEF SomeUnread
  <2>2. ~IsEmpty(ReadIndex) /\ Age(ReadIndex) \in Int
    BY <1>4, <1>7, <2>1
  <2>3. BeginsRow => ReadIndex # n
    BY <1>5, <1>11, <2>2
  <2>4. Age(ReadIndex)' = IF BeginsRow THEN Age(ReadIndex) - 1 ELSE Age(ReadIndex)
    <3>1. PICK r \in Index : r = ReadIndex
      BY <1>4
    <3>2. Age(r)' = IF BeginsRow THEN Age(r) - 1 ELSE Age(r)
      BY <1>7, <2>3, <3>1
    <3>3. Age(ReadIndex)' = Age(r)'
      BY <1>1, <3>1
    <3> QED BY <3>1, <3>2, <3>3
  <2>5. \A i \in Index : IsEmpty(i)' <=> Age(i)' < Age(ReadIndex)'
    <3> SUFFICES ASSUME NEW i \in Index PROVE IsEmpty(i)' <=> Age(i)' < Age(ReadIndex)'
      OBVIOUS
    <3>1. CASE i = n
      <4>1. Age(ReadIndex) <= BufferSize - 1
        BY <1>4, <1>7
      <4> QED BY <1>4, <1>6, <1>7, <2>2, <2>4, <3>1, <4>1
    <3>2. CASE i # n
      <4>1. Age(i) \in Int /\ Age(i)' = IF BeginsRow THEN Age(i) - 1 ELSE Age(i)
        BY <1>7, <3>2
      <4>2. IsEmpty(i)' <=> Age(i) < Age(ReadIndex)
        BY <1>6, <2>1, <3>2
      <4>3. Age(i) < Age(ReadIndex) <=> Age(i)' < Age(ReadIndex)'
        BY <2>2, <2>4, <4>1
      <4> QED BY <4>2, <4>3
    <3> QED BY <3>1, <3>2
  <2>6. ASSUME NEW i \in Index, NEW j \in Index, Age(ReadIndex)' <= Age(i)', Age(i)' <= Age(j)'
        PROVE  Store'[i].CycleWritten + Age(j)' - Age(i)' <= Store'[j].CycleWritten
    <3>1. CASE i = n
      <4>1. j = n
        BY <1>4, <1>7, <1>8, <2>6, <3>1
      <4> QED BY <1>2, <1>4, <1>7, <3>1, <4>1
    <3>2. CASE i # n /\ j # n
      <4>1. /\ Age(i) \in Int /\ Age(i)' = (IF BeginsRow THEN Age(i) - 1 ELSE Age(i))
            /\ Age(j) \in Int /\ Age(j)' = (IF BeginsRow THEN Age(j) - 1 ELSE Age(j))
        BY <1>7, <3>2
      <4>2. Age(ReadIndex) <= Age(i) /\ Age(i) <= Age(j) /\ Age(j)' - Age(i)' = Age(j) - Age(i)
        BY <2>2, <2>4, <2>6, <4>1
      <4>3. Store[i].CycleWritten + Age(j) - Age(i) <= Store[j].CycleWritten
        BY <2>1, <4>2
      <4>4. Store'[i].CycleWritten = Store[i].CycleWritten /\ Store'[j].CycleWritten = Store[j].CycleWritten
        BY <1>6, <3>2
      <4> QED BY <1>4, <4>1, <4>2, <4>3, <4>4
    <3>3. CASE i # n /\ j = n
      <4>1. Age(i) \in Int /\ Age(i)' = (IF BeginsRow THEN Age(i) - 1 ELSE Age(i)) /\ Age(i) <= BufferSize - 1
        BY <1>4, <1>7, <3>3
      <4>2. Age(ReadIndex) <= Age(i) /\ Age(WriteIndex) = BufferSize - 1
        BY <1>4, <2>2, <2>4, <2>6, <4>1, Ages
      <4>3. Store[i].CycleWritten + BufferSize - 1 - Age(i) <= Store[WriteIndex].CycleWritten
        BY <1>4, <2>1, <4>1, <4>2
      <4>4. Store'[i].CycleWritten = Store[i].CycleWritten /\ Store'[j].CycleWritten = cycle /\ Age(j)' = BufferSize - 1
        BY <1>2, <1>6, <1>7, <3>3
      <4>5. Store[WriteIndex].CycleWritten + (IF BeginsRow THEN 1 ELSE 0) <= cycle
        BY <1>4, <1>5
      <4> QED BY <1>4, <4>1, <4>3, <4>4, <4>5
    <3> QED BY <3>1, <3>2, <3>3
  <2> QED BY <2>5, <2>6 DEF SomeUnread
<1>12. RowsInv'
  BY <1>1, <1>10, <1>11 DEF IInv, RowsInv
<1>13. StallInv'
  BY <1>1 DEF IInv, StallInv
<1>14. ItemsInv'
  <2> SUFFICES ASSUME active, NEW i \in Index, NEW j \in Index, NEW k \in Unread(i)', NEW l \in Unread(j)'
               PROVE  /\ Store'[i].Data[k] <= sent + 1
                      /\ Age(i)' < Age(j)' \/ (i = j /\ k < l) => Store'[i].Data[k] < Store'[j].Data[l]
    BY <1>1 DEF ItemsInv
  <2>1. \A h \in Index : \A m \in Unread(h)' :
           \/ h = n /\ m = e
           \/ ~(h = n /\ BeginsRow) /\ m \in Unread(h) /\ m \in Int /\ (h = n => m < e)
              /\ Store'[h].Data[m] = Store[h].Data[m] /\ Store[h].Data[m] <= sent /\ Store[h].Data[m] \in Int
    <3> SUFFICES ASSUME NEW h \in Index, NEW m \in Unread(h)', ~(h = n /\ m = e)
                 PROVE  ~(h = n /\ BeginsRow) /\ m \in Unread(h) /\ m \in Int /\ (h = n => m < e)
                        /\ Store'[h].Data[m] = Store[h].Data[m] /\ Store[h].Data[m] <= sent /\ Store[h].Data[m] \in Int
      OBVIOUS
    <3>1. ~(h = n /\ BeginsRow) /\ m \in Unread(h) /\ m \in Int /\ (h = n => m < e)
      <4>1. CASE h = n
        <5>1. m \in Store'[n].Start..e /\ m # e
          BY <1>3, <1>4, <4>1 DEF Unread
        <5>2. Store'[n].Start \in Int
          BY <1>2, RingSize DEF Row
        <5>3. ~BeginsRow
          BY <1>3, <1>4, <5>1
        <5> QED BY <1>3, <1>4, <4>1, <5>1, <5>2, <5>3 DEF Unread
      <4>2. CASE h # n
        BY <1>6, <4>2, Types DEF IInv, Slot
      <4> QED BY <4>1, <4>2
    <3>2. m \in Slot /\ Store[h].Data[m] \in Int
      BY <3>1, Types DEF IInv
    <3>3. Store'[h].Data[m] = Store[h].Data[m]
      BY <1>2, <1>3, <1>4, <3>1, <3>2
    <3>4. Store[h].Data[m] <= sent
      BY <3>1 DEF IInv, ItemsInv
    <3> QED BY <3>1, <3>2, <3>3, <3>4
  <2>2. Store'[n].Data[e] = sent + 1
    BY <1>3
  <2>3. CASE i = n /\ k = e
    <3>1. ~(Age(i)' < Age(j)')
      BY <1>4, <1>7, <1>8, <2>3
    <3>2. ~(i = j /\ k < l)
      BY <1>4, <2>1, <2>3
    <3> QED BY <1>4, <2>2, <2>3, <3>1, <3>2
  <2>4. CASE ~(i = n /\ k = e) /\ j = n /\ l = e
    BY <1>4, <2>1, <2>2, <2>4
  <2>5. CASE ~(i = n /\ k = e) /\ ~(j = n /\ l = e)
    <3>1. /\ ~(i = n /\ BeginsRow) /\ k \in Unread(i)
          /\ Store'[i].Data[k] = Store[i].Data[k] /\ Store[i].Data[k] <= sent /\ Store[i].Data[k] \in Int
          /\ ~(j = n /\ BeginsRow) /\ l \in Unread(j)
          /\ Store'[j].Data[l] = Store[j].Data[l]
      BY <2>1, <2>5
    <3>2. Age(i)' < Age(j)' => Age(i) < Age(j)
      BY <1>4, <1>7, <3>1
    <3>3. Age(i) < Age(j) \/ (i = j /\ k < l) => Store[i].Data[k] < Store[j].Data[l]
      BY <3>1 DEF IInv, ItemsInv
    <3> QED BY <1>4, <3>1, <3>2, <3>3
  <2> QED BY <2>3, <2>4, <2>5
<1>15. DiligentInv'
  <2>1. CycleRowRead <= cycle /\ (Diligent => failed \notin {"wrong cycle", "row has data"})
    BY DEF IInv, DiligentInv
  <2>2. ASSUME Diligent, active, NEW i \in Index, ~IsEmpty(i)'
        PROVE  (ReadCycle(i) >= cycle)'
    <3>1. CASE i = n
      BY <1>1, <1>4, <1>6, <3>1
    <3>2. CASE i # n
      BY <1>1, <1>6, <2>2, <3>2 DEF IInv, DiligentInv
    <3> QED BY <3>1, <3>2
  <2>3. ASSUME Diligent, active, CycleRowRead = cycle, ~IsEmpty(ReadIndex)', (Store[ReadIndex].Start = 0)'
        PROVE  (ReadCycle(ReadIndex) > cycle)'
    <3>1. PICK r \in Index : r = ReadIndex
      BY <1>4
    <3>2. ~IsEmpty(r)' /\ Store'[r].Start = 0 /\ ReadCycle(ReadIndex)' = ReadCycle(r)'
      BY <1>1, <2>3, <3>1
    <3>3. CASE r = n
      BY <1>1, <1>4, <1>6, <3>2, <3>3
    <3>4. CASE r # n
      <4>1. ~IsEmpty(r) /\ Store[r].Start = 0 /\ ReadCycle(r)' = ReadCycle(r)
        BY <1>2, <1>6, <3>2, <3>4
      <4>2. ReadCycle(r) > cycle
        BY <2>3, <3>1, <4>1 DEF IInv, DiligentInv
      <4> QED BY <1>1, <3>2, <4>1, <4>2
    <3> QED BY <3>3, <3>4
  <2>4. (Diligent <=> Diligent') /\ (active <=> active')
    BY <1>1 DEF Diligent
  <2> QED BY <1>1, <2>1, <2>2, <2>3, <2>4 DEF DiligentInv
<1>16. OverrunMeansLateReader'
  BY <1>1 DEF OverrunMeansLateReader
<1> QED BY <1>9, <1>12, <1>13, <1>14, <1>15, <1>16 DEF IInv

-----------------------------------------------------------------------------
(* Theorems *)

\* A new ring is empty, and the reader waits at the row that is written first.
LEMMA InitInv ==
    ASSUME Init
    PROVE  IInv
<1> USE RingSize
<1>1. \A i \in Index : Store[i] = EmptyRow
  BY DEF Init
<1>2. EmptyRow \in Row /\ EmptyRow.Start = 0 /\ EmptyRow.End = 0 /\ EmptyRow.CycleWritten = -1
  BY PortConstants DEF EmptyRow, Row, Dummy
<1>3. \A i \in Index : IsEmpty(i)
  BY <1>1, <1>2 DEF IsEmpty
<1>4. StoreInv
  <2>1. Store \in [Index -> Row]
    BY <1>2 DEF Init
  <2>2. \A i \in Index : Store[i].Start <= Store[i].End
    BY <1>1, <1>2
  <2>3. \A i \in Index : /\ Store[i].CycleWritten \in Int
                         /\ Store[i].Start \in 0..Bandwidth /\ Store[i].End \in 0..Bandwidth
                         /\ Store[i].Data \in [Slot -> 0..MaxItems]
    BY <1>1, <1>2 DEF Row
  <2>4. /\ kind \in Kinds /\ active \in BOOLEAN /\ stalled \in BOOLEAN /\ failed = "none"
    BY DEF Init
  <2>5. /\ ReadIndex \in Index /\ WriteIndex \in Index /\ PeekReadIndex \in Index
        /\ CycleRowRead = -1 /\ LastWritten = 0 /\ SequentialWrites = 0 /\ PeekStart = 0
        /\ stalledIn = -1 /\ cycle = 0 /\ sent = 0 /\ lastRead = 0
    BY DEF Init
  <2>6. -1 \in -1..MaxCycle /\ 0 \in 0..MaxCycle /\ 0 \in 0..MaxItems /\ 0 \in Nat
    BY PortConstants
  <2> QED BY <2>1, <2>2, <2>3, <2>4, <2>5, <2>6 DEF StoreInv, TypeOK
<1>5. RowsInv
  <2>1. WriteIndex \in Index /\ Store[WriteIndex].CycleWritten = -1
    BY <1>1, <1>2 DEF Init
  <2> QED BY <1>3, <2>1 DEF Init, RowsInv, AllRead, NextIndex
<1>6. StallInv
  BY DEF Init, StallInv
<1>7. ItemsInv
  <2>1. \A i \in Index : Unread(i) = {}
    BY <1>1, <1>2 DEF Unread
  <2> QED BY <2>1 DEF ItemsInv
<1>8. DiligentInv
  BY <1>3 DEF Init, DiligentInv
<1>9. OverrunMeansLateReader
  BY DEF Init, OverrunMeansLateReader
<1> QED BY <1>4, <1>5, <1>6, <1>7, <1>8, <1>9 DEF IInv

\* Every step keeps the invariant.
LEMMA StepInv ==
    ASSUME Latency >= 1, IInv, [Next]_vars
    PROVE  IInv'
<1>1. CASE active /\ Read
  BY <1>1, StepRead
<1>2. CASE active /\ ReadAsserts
  BY <1>2, StepReadAsserts
<1>3. CASE Write
  BY <1>3, StepWrite
<1>4. CASE WriteAsserts
  BY <1>4, StepWriteAsserts
<1>5. CASE Stall
  BY <1>5, StepStall
<1>6. CASE (\E s \in BOOLEAN : SetStalled(s)) \/ Deactivate \/ PeekReset \/ PeekNext
  BY <1>6, StepFlags
<1>7. CASE Clear
  BY <1>7, StepClear
<1>8. CASE Tick
  BY <1>8, StepTick
<1>9. CASE UNCHANGED vars
  <2>1. UNCHANGED <<kind, Store, ReadIndex, WriteIndex, CycleRowRead, LastWritten, SequentialWrites, active,
                    stalled, stalledIn, PeekReadIndex, PeekStart, failed, cycle, sent, lastRead>>
    BY <1>9 DEF vars, ringVars, statVars, flagVars, peekVars, historyVars
  <2>2. RowsInv' /\ ItemsInv'
    BY <2>1, RingUnchanged DEF ringVars
  <2>3. StoreInv'
    BY <2>1 DEF IInv, StoreInv, TypeOK
  <2>4. StallInv' /\ DiligentInv' /\ OverrunMeansLateReader'
    BY <2>1 DEF IInv, StallInv, DiligentInv, Diligent, IsEmpty, ReadCycle, OverrunMeansLateReader
  <2> QED BY <2>2, <2>3, <2>4 DEF IInv
<1> QED BY <1>1, <1>2, <1>3, <1>4, <1>5, <1>6, <1>7, <1>8, <1>9 DEF Next, Done

\* The ring keeps its invariant whatever the writer, the reader, the peek port
\* and the clock server do with it.
THEOREM Inductive ==
    ASSUME Latency >= 1
    PROVE  Spec => []IInv
<1>1. Init => IInv
  BY InitInv
<1>2. IInv /\ [Next]_vars => IInv'
  BY StepInv
<1> QED BY <1>1, <1>2, PTL DEF Spec

\* ReadIndex stands on the oldest unread item, for as long as the port is active:
\* a Read passes nothing over.
THEOREM OldestIsRead ==
    ASSUME Latency >= 1
    PROVE  Spec => []ReadIndexOnOldest
<1>1. IInv => ReadIndexOnOldest
  <2> SUFFICES ASSUME IInv, active, NEW i \in Index, ~IsEmpty(i)
               PROVE  /\ ~IsEmpty(ReadIndex)
                      /\ Store[ReadIndex].CycleWritten <= Store[i].CycleWritten
                      /\ Store[ReadIndex].Data[Store[ReadIndex].Start] <= Store[i].Data[Store[i].Start]
    BY DEF ReadIndexOnOldest
  <2> DEFINE R == ReadIndex
  <2>1. /\ ~IsEmpty(R) /\ Age(R) <= Age(i)
        /\ i = R \/ Store[R].CycleWritten < Store[i].CycleWritten
    BY OldestRow
  <2>2. /\ R \in Index /\ WriteIndex \in Index
        /\ \A j \in Index : /\ Store[j].CycleWritten \in Int /\ Store[j].Start \in 0..Bandwidth
                            /\ Store[j].End \in 0..Bandwidth /\ Store[j].Start <= Store[j].End
                            /\ Unread(j) \subseteq Slot /\ \A k \in Slot : Store[j].Data[k] \in 0..MaxItems
    BY Types DEF IInv
  <2>3. \A j \in Index : ~IsEmpty(j) => Store[j].Start \in Unread(j)
    BY <2>2, RingSize, SMTT(30) DEF IsEmpty, Unread
  <2>4. /\ Store[R].Data[Store[R].Start] \in 0..MaxItems
        /\ Store[i].Data[Store[i].Start] \in 0..MaxItems
    BY <2>1, <2>2, <2>3
  <2>5. CASE i = R
    BY <2>1, <2>2, <2>4, <2>5
  <2>6. CASE i # R
    <3>1. Age(R) < Age(i)
      BY <2>1, <2>2, <2>6, Ages, RingSize
    <3>2. Store[R].Data[Store[R].Start] < Store[i].Data[Store[i].Start]
      BY <2>1, <2>2, <2>3, <3>1 DEF IInv, ItemsInv
    <3> QED BY <2>1, <2>2, <2>4, <2>6, <3>2
  <2> QED BY <2>5, <2>6
<1> QED BY <1>1, Inductive, PTL

\* "row still has data" is told only of a reader that is more than
\* BUFFER_STORAGE_LOOKAHEAD cycles late, for every size of the ring.
THEOREM OverrunIsLate ==
    ASSUME Latency >= 1
    PROVE  Spec => []OverrunMeansLateReader
<1>1. IInv => OverrunMeansLateReader
  BY DEF IInv
<1> QED BY <1>1, Inductive, PTL

\* A diligent reader never reads in the wrong cycle, and never makes the writer
\* fail.
THEOREM DiligenceIsEnough ==
    ASSUME Latency >= 1
    PROVE  Spec => []DiligentReaderIsSafe
<1>1. IInv => DiligentReaderIsSafe
  BY DEF IInv, StoreInv, DiligentInv, DiligentReaderIsSafe
<1> QED BY <1>1, Inductive, PTL

\* SomethingToRead and Read agree on whether there is something to read, in a
\* cycle in which the reader has not begun a row.
THEOREM PollAndReadAgree ==
    ASSUME Latency >= 1
    PROVE  Spec => []PollAgreesWithRead
<1>1. IInv => PollAgreesWithRead
  <2> SUFFICES ASSUME IInv, active
               PROVE  /\ Readable => SomethingToRead
                      /\ SomethingToRead /\ CycleRowRead # cycle => Readable
    BY DEF PollAgreesWithRead
  <2>1. ReadIndex \in Index /\ WriteIndex \in Index
    BY Types DEF IInv
  <2>2. After(ReadIndex, 0) = ReadIndex /\ Distance(ReadIndex, WriteIndex) \in Nat
    BY <2>1, RingSize DEF After, Distance
  <2>3. Readable => SomethingToRead
    <3> SUFFICES ASSUME Readable PROVE SomethingToRead
      OBVIOUS
    <3>1. /\ ~IsEmpty(After(ReadIndex, 0))
          /\ \A e \in 0..0 - 1 : IsEmpty(After(ReadIndex, e))
          /\ ReadCycle(After(ReadIndex, 0)) <= cycle
      BY <2>2 DEF Readable
    <3> QED BY <2>2, <3>1 DEF SomethingToRead
  <2>4. ASSUME SomethingToRead, CycleRowRead # cycle
        PROVE  Readable
    <3>1. PICK d \in 0..Distance(ReadIndex, WriteIndex) :
             /\ ~IsEmpty(After(ReadIndex, d))
             /\ \A e \in 0..d - 1 : IsEmpty(After(ReadIndex, e))
             /\ ReadCycle(After(ReadIndex, d)) <= cycle
      BY <2>4 DEF SomethingToRead
    <3>2. After(ReadIndex, d) \in Index
      BY <2>1, RingSize DEF After
    <3>3. ~IsEmpty(ReadIndex)
      BY <3>1, <3>2, OldestRow
    <3>4. d = 0
      <4>1. d # 0 => 0 \in 0..d - 1
        OBVIOUS
      <4> QED BY <2>2, <3>1, <3>3, <4>1
    <3> QED BY <2>2, <2>4, <3>1, <3>3, <3>4 DEF Readable
  <2> QED BY <2>3, <2>4
<1> QED BY <1>1, Inductive, PTL

-----------------------------------------------------------------------------
(* Sequences of sequences *)

\* A set of natural numbers has a least one.
LEMMA Least ==
    ASSUME NEW S \in SUBSET Nat, S # {}
    PROVE  \E n \in S : \A m \in S : n <= m
<1> DEFINE R == {x \in Nat \X Nat : x[1] < x[2]}
<1>1. OpToRel(<, Nat) = R
  BY DEF OpToRel
<1>2. IsWellFoundedOn(R, Nat)
  BY <1>1, NatLessThanWellFounded
<1>3. PICK n \in S : \A m \in S : ~(<<m, n>> \in R)
  <2> HIDE DEF R
  <2> QED BY <1>2, WFMin
<1>4. ASSUME NEW m \in S PROVE n <= m
  <2>1. <<m, n>> \in Nat \X Nat /\ m \in Nat /\ n \in Nat
    OBVIOUS
  <2>2. ~(m < n)
    BY <1>3, <2>1
  <2> QED BY <2>1, <2>2
<1> QED BY <1>4

\* What holds first and from each number to the next holds of all.
LEMMA UpTo ==
    ASSUME NEW n \in Nat, NEW Good \in SUBSET (0..n), 0 \in Good,
           \A k \in 1..n : k - 1 \in Good => k \in Good
    PROVE  Good = 0..n
<1> DEFINE Bad == (0..n) \ Good
<1>1. ASSUME NEW k \in Bad, \A j \in Bad : k <= j PROVE FALSE
  <2>1. k \in 1..n /\ k - 1 \in 0..n /\ k - 1 < k
    OBVIOUS
  <2>2. k - 1 \notin Bad
    BY <1>1, <2>1
  <2> QED BY <2>1, <2>2
<1>2. Bad = {}
  <2>1. Bad \in SUBSET Nat
    OBVIOUS
  <2> HIDE DEF Bad
  <2> QED BY <1>1, <2>1, Least
<1> QED BY <1>2

\* What is joined up to each place.
Joins(f, seqs, n) == f[0] = <<>> /\ \A k \in 1..n : f[k] = f[k - 1] \o seqs[k]

\* What is joined up to each place exists ...
LEMMA JoinsExist ==
    ASSUME NEW S, NEW n \in Nat, NEW seqs \in [1..n -> Seq(S)]
    PROVE  \E f \in [0..n -> Seq(S)] : Joins(f, seqs, n)
<1> DEFINE Good == {m \in 0..n : \E f \in [0..m -> Seq(S)] : Joins(f, seqs, m)}
<1>1. 0 \in Good
  <2> DEFINE f == [k \in 0..0 |-> <<>>]
  <2>1. f \in [0..0 -> Seq(S)] /\ Joins(f, seqs, 0)
    BY DEF Joins
  <2>2. 0 \in 0..n
    OBVIOUS
  <2> HIDE DEF f
  <2> QED BY <2>1, <2>2
<1>2. ASSUME NEW m \in 1..n, m - 1 \in Good PROVE m \in Good
  <2>1. PICK f \in [0..m - 1 -> Seq(S)] : Joins(f, seqs, m - 1)
    BY <1>2
  <2> DEFINE g == [k \in 0..m |-> IF k = m THEN f[m - 1] \o seqs[m] ELSE f[k]]
  <2>2. m - 1 \in 0..m - 1 /\ m - 1 \in 0..m /\ m - 1 # m /\ 0 \in 0..m /\ 0 # m /\ m \in 0..m
    OBVIOUS
  <2>3. f[m - 1] \in Seq(S) /\ seqs[m] \in Seq(S)
    BY <2>2
  <2>4. f[m - 1] \o seqs[m] \in Seq(S)
    BY <2>3
  <2>5. ASSUME NEW k \in 0..m PROVE g[k] \in Seq(S)
    <3>1. k # m => k \in 0..m - 1
      OBVIOUS
    <3> QED BY <2>4, <3>1
  <2>6. g \in [0..m -> Seq(S)]
    BY <2>5
  <2>7. ASSUME NEW k \in 1..m PROVE g[k] = g[k - 1] \o seqs[k]
    <3>1. CASE k = m
      BY <2>2, <3>1
    <3>2. CASE k # m
      <4>1. k \in 1..m - 1 /\ k - 1 \in 0..m /\ k \in 0..m /\ k - 1 # m
        BY <3>2
      <4>2. g[k] = f[k] /\ g[k - 1] = f[k - 1]
        BY <3>2, <4>1
      <4> HIDE DEF g
      <4> QED BY <2>1, <4>1, <4>2 DEF Joins
    <3> QED BY <3>1, <3>2
  <2>8. g[0] = <<>>
    BY <2>1, <2>2 DEF Joins
  <2> HIDE DEF g
  <2>9. Joins(g, seqs, m)
    BY <2>7, <2>8 DEF Joins
  <2> QED BY <2>6, <2>9
<1>3. Good = 0..n
  <2>1. Good \in SUBSET (0..n)
    OBVIOUS
  <2> HIDE DEF Good
  <2> QED BY <1>1, <1>2, <2>1, UpTo
<1>4. n \in Good
  BY <1>3
<1> QED BY <1>4

\* ... and ends with what FlattenSeq yields.
JoinsToFlat(S, n, seqs) == \E f \in [0..n -> Seq(S)] : Joins(f, seqs, n) /\ FlattenSeq(seqs) = f[n]

LEMMA Flattened ==
    ASSUME NEW S, NEW n \in Nat \ {0}, NEW seqs \in [1..n -> Seq(S)]
    PROVE  JoinsToFlat(S, n, seqs)
<1>1. PICK g \in [0..n -> Seq(S)] : Joins(g, seqs, n)
  BY JoinsExist
<1> DEFINE Flattens(f) == f = [i \in 1..n |-> IF i = 1 THEN seqs[i] ELSE f[i - 1] \o seqs[i]]
           flatten == CHOOSE f : Flattens(f)
           h == [k \in 1..n |-> g[k]]
<1>2. \A k \in 1..n : k - 1 \in 0..n /\ k \in 0..n /\ (k # 1 => k - 1 \in 1..n)
  OBVIOUS
<1>3. ASSUME NEW k \in 1..n PROVE h[k] = IF k = 1 THEN seqs[k] ELSE h[k - 1] \o seqs[k]
  <2>1. g[k] = g[k - 1] \o seqs[k] /\ g[0] = <<>>
    BY <1>1 DEF Joins
  <2>2. CASE k = 1
    <3>1. seqs[k] \in Seq(S) /\ k - 1 = 0
      BY <2>2
    <3>2. <<>> \o seqs[k] = seqs[k]
      BY <3>1
    <3> QED BY <2>1, <2>2, <3>1, <3>2
  <2>3. CASE k # 1
    BY <1>2, <2>1, <2>3
  <2> QED BY <2>2, <2>3
<1>4. Flattens(h)
  <2> DEFINE r(i) == IF i = 1 THEN seqs[i] ELSE h[i - 1] \o seqs[i]
  <2>1. \A k \in 1..n : h[k] = r(k)
    BY <1>3
  <2>2. h = [k \in 1..n |-> h[k]]
    OBVIOUS
  <2> HIDE DEF h, r
  <2>3. h = [k \in 1..n |-> r(k)]
    BY <2>1, <2>2
  <2> QED BY <2>3 DEF r
<1>5. Flattens(flatten)
  <2> HIDE DEF Flattens, h
  <2> QED BY <1>4
<1>6. FlattenSeq(seqs) = flatten[n]
  <2>1. Len(seqs) = n
    OBVIOUS
  <2> QED BY <2>1 DEF FlattenSeq
<1> HIDE DEF flatten
<1>7. \A k \in 1..n : flatten[k] = IF k = 1 THEN seqs[k] ELSE flatten[k - 1] \o seqs[k]
  BY <1>5
<1> HIDE DEF Flattens
<1> DEFINE Good == {k \in 0..n : k = 0 \/ flatten[k] = g[k]}
<1>8. ASSUME NEW k \in 1..n, k - 1 \in Good PROVE k \in Good
  <2>1. h[k] = g[k] /\ (k # 1 => h[k - 1] = g[k - 1])
    BY <1>2
  <2> HIDE DEF h
  <2>2. k # 1 => flatten[k - 1] = g[k - 1]
    BY <1>8
  <2>3. flatten[k] = g[k]
    BY <1>3, <1>7, <2>1, <2>2
  <2> QED BY <1>2, <2>3
<1>9. Good = 0..n
  <2>1. Good \in SUBSET (0..n) /\ 0 \in Good
    OBVIOUS
  <2> HIDE DEF Good
  <2> QED BY <1>8, <2>1, UpTo
<1>10. flatten[n] = g[n]
  <2>1. n \in 0..n /\ n # 0
    OBVIOUS
  <2>2. n \in Good
    BY <1>9, <2>1
  <2> QED BY <2>1, <2>2
<1> QED BY <1>1, <1>6, <1>10 DEF JoinsToFlat

\* Sequences one after the other.

\* An empty sequence adds nothing.
LEMMA ConcatNothing ==
    ASSUME NEW S, NEW s \in Seq(S)
    PROVE  <<>> \o s = s /\ s \o <<>> = s
OBVIOUS

Regrouped(s, t, u) == (s \o t) \o u = s \o (t \o u)

\* Concatenation is associative.
LEMMA ConcatThree ==
    ASSUME NEW S, NEW s \in Seq(S), NEW t \in Seq(S), NEW u \in Seq(S)
    PROVE  Regrouped(s, t, u)
BY DEF Regrouped

AppendedLast(s, t, x) == s \o Append(t, x) = Append(s \o t, x)

\* Appending to the second of two sequences appends to both.
LEMMA ConcatAppend ==
    ASSUME NEW S, NEW s \in Seq(S), NEW t \in Seq(S), NEW x \in S
    PROVE  AppendedLast(s, t, x)
BY DEF AppendedLast

\* What Tail makes of a sequence, element by element.
LEMMA TailElements ==
    ASSUME NEW S, NEW s \in Seq(S), s # <<>>
    PROVE  Tail(s) = [k \in 1..Len(s) - 1 |-> s[k + 1]]
<1> DEFINE t == [k \in 1..Len(s) - 1 |-> s[k + 1]]
<1>1. PICK n \in Nat : n = Len(s) - 1
  OBVIOUS
<1>2. t \in [1..n -> S] /\ \A k \in 1..n : t[k] = s[k + 1]
  BY <1>1
<1>3. Tail(s) \in Seq(S) /\ Len(Tail(s)) = n /\ \A k \in 1..n : Tail(s)[k] = s[k + 1]
  BY <1>1
<1> HIDE DEF t
<1>4. t \in Seq(S) /\ Len(t) = n
  BY <1>2
<1>5. Tail(s) = t
  BY <1>2, <1>3, <1>4
<1> QED BY <1>5 DEF t

\* What Append makes of a sequence, element by element.
LEMMA AppendElements ==
    ASSUME NEW S, NEW s \in Seq(S), NEW x \in S
    PROVE  Append(s, x) = [k \in 1..Len(s) + 1 |-> IF k = Len(s) + 1 THEN x ELSE s[k]]
<1> DEFINE t == [k \in 1..Len(s) + 1 |-> IF k = Len(s) + 1 THEN x ELSE s[k]]
<1>1. PICK n \in Nat : n = Len(s)
  OBVIOUS
<1>2. t \in [1..n + 1 -> S] /\ t[n + 1] = x /\ \A k \in 1..n : t[k] = s[k]
  BY <1>1
<1>3. /\ Append(s, x) \in Seq(S) /\ Len(Append(s, x)) = n + 1
      /\ Append(s, x)[n + 1] = x /\ \A k \in 1..n : Append(s, x)[k] = s[k]
  BY <1>1
<1>4. \A k \in 1..n + 1 : k = n + 1 \/ k \in 1..n
  OBVIOUS
<1> HIDE DEF t
<1>5. t \in Seq(S) /\ Len(t) = n + 1
  BY <1>2
<1>6. Append(s, x) = t
  BY <1>2, <1>3, <1>4, <1>5
<1> QED BY <1>6 DEF t

\* The first of two sequences loses its first element.
LEMMA ConcatTail ==
    ASSUME NEW S, NEW s \in Seq(S), NEW t \in Seq(S), s # <<>>
    PROVE  s \o t # <<>> /\ Head(s \o t) = Head(s) /\ Tail(s \o t) = Tail(s) \o t
OBVIOUS

\* The second of two sequences is what follows the first.
LEMMA ConcatDrop ==
    ASSUME NEW S, NEW s \in Seq(S), NEW t \in Seq(S)
    PROVE  /\ s \o t \in Seq(S) /\ Len(s) <= Len(s \o t)
           /\ SubSeq(s \o t, Len(s) + 1, Len(s \o t)) = t
OBVIOUS

EachJoined(h, s, t) ==
    [i \in 1..Len(s) |-> h[s[i]]] \o [i \in 1..Len(t) |-> h[t[i]]]
       = [i \in 1..Len(s \o t) |-> h[(s \o t)[i]]]

\* Two sequences changed element by element are so changed when joined.
LEMMA ConcatEach ==
    ASSUME NEW S, NEW h \in [S -> S], NEW s \in Seq(S), NEW t \in Seq(S)
    PROVE  EachJoined(h, s, t)
<1> DEFINE u == [i \in 1..Len(s) |-> h[s[i]]]
           v == [i \in 1..Len(t) |-> h[t[i]]]
           w == [i \in 1..Len(s \o t) |-> h[(s \o t)[i]]]
<1>1. PICK m \in Nat, n \in Nat : m = Len(s) /\ n = Len(t)
  OBVIOUS
<1>2. s \in [1..m -> S] /\ t \in [1..n -> S]
  BY <1>1
<1>3. u \in [1..m -> S] /\ v \in [1..n -> S]
  BY <1>1, <1>2
<1>4. u \in Seq(S) /\ v \in Seq(S) /\ Len(u) = m /\ Len(v) = n
  BY <1>3
<1>5. s \o t \in Seq(S) /\ Len(s \o t) = m + n
  BY <1>1
<1>6. w \in [1..m + n -> S] /\ \A i \in 1..m + n : w[i] = h[(s \o t)[i]]
  BY <1>5
<1>7. \A i \in 1..m : u[i] = h[s[i]]
  BY <1>1
<1>8. \A i \in 1..n : v[i] = h[t[i]]
  BY <1>1
<1> HIDE DEF u, v, w
<1>9. u \o v \in Seq(S) /\ Len(u \o v) = m + n
  BY <1>1, <1>4, SMTT(30)
<1>10. ASSUME NEW i \in 1..m + n PROVE (u \o v)[i] = w[i]
  <2>1. CASE i <= m
    <3>1. i \in 1..m /\ (s \o t)[i] = s[i] /\ (u \o v)[i] = u[i]
      BY <1>1, <1>4, <2>1
    <3>2. i \in 1..m + n
      OBVIOUS
    <3> QED BY <1>6, <1>7, <3>1, <3>2
  <2>2. CASE i > m
    <3>1. i - m \in 1..n /\ (s \o t)[i] = t[i - m] /\ (u \o v)[i] = v[i - m]
      BY <1>1, <1>4, <2>2
    <3>2. i \in 1..m + n
      OBVIOUS
    <3>3. w[i] = h[t[i - m]]
      BY <1>6, <3>1, <3>2
    <3>4. v[i - m] = h[t[i - m]]
      BY <1>8, <3>1
    <3> QED BY <3>1, <3>3, <3>4
  <2>3. i <= m \/ i > m
    OBVIOUS
  <2> QED BY <2>1, <2>2, <2>3
<1>11. u \o v = w
  <2>1. m + n \in Nat
    OBVIOUS
  <2>2. w \in Seq(S) /\ Len(w) = m + n
    BY <1>6, <2>1
  <2> QED BY <1>9, <1>10, <2>1, <2>2, SMTT(30)
<1> QED BY <1>11 DEF u, v, w, EachJoined

\* A sequence of n sequences.
Parts(S, n, a) == n \in Nat \ {0} /\ a \in [1..n -> Seq(S)]

\* Everything joined is empty when all the parts are.
LEMMA JoinedEmpty ==
    ASSUME NEW S, NEW n, NEW a, Parts(S, n, a), \A i \in 1..n : a[i] = <<>>
    PROVE  FlattenSeq(a) = <<>>
<1>0. n \in Nat \ {0} /\ a \in [1..n -> Seq(S)]
  BY DEF Parts
<1> USE <1>0
<1>1. PICK f \in [0..n -> Seq(S)] : Joins(f, a, n) /\ FlattenSeq(a) = f[n]
  <2>1. JoinsToFlat(S, n, a)
    BY Flattened
  <2> QED BY <2>1 DEF JoinsToFlat
<1> DEFINE Good == {k \in 0..n : f[k] = <<>>}
<1>2. 0 \in Good
  BY <1>1 DEF Joins
<1>3. ASSUME NEW k \in 1..n, k - 1 \in Good PROVE k \in Good
  BY <1>1, <1>3 DEF Joins
<1>4. Good = 0..n
  <2>1. Good \in SUBSET (0..n)
    OBVIOUS
  <2> HIDE DEF Good
  <2> QED BY <1>2, <1>3, <2>1, UpTo
<1>5. n \in Good
  <2>1. n \in 0..n
    OBVIOUS
  <2> QED BY <1>4, <2>1
<1> QED BY <1>1, <1>5

\* The first part that is not empty loses its first element.
LEMMA JoinedTail ==
    ASSUME NEW S, NEW n, NEW a, Parts(S, n, a), NEW b, Parts(S, n, b),
           NEW p \in 1..n, a[p] # <<>>, b[p] = Tail(a[p]),
           \A i \in 1..n : i < p => a[i] = <<>>,
           \A i \in 1..n : i # p => b[i] = a[i]
    PROVE  /\ FlattenSeq(a) # <<>> /\ Head(FlattenSeq(a)) = Head(a[p])
           /\ FlattenSeq(b) = Tail(FlattenSeq(a))
<1>0. n \in Nat \ {0} /\ a \in [1..n -> Seq(S)] /\ b \in [1..n -> Seq(S)]
  BY DEF Parts
<1> USE <1>0
<1>1. PICK f \in [0..n -> Seq(S)] : Joins(f, a, n) /\ FlattenSeq(a) = f[n]
  <2>1. JoinsToFlat(S, n, a)
    BY Flattened
  <2> QED BY <2>1 DEF JoinsToFlat
<1>2. PICK g \in [0..n -> Seq(S)] : Joins(g, b, n) /\ FlattenSeq(b) = g[n]
  <2>1. JoinsToFlat(S, n, b)
    BY Flattened
  <2> QED BY <2>1 DEF JoinsToFlat
<1> DEFINE Before(k) == f[k] = <<>> /\ g[k] = <<>>
           From(k) == f[k] # <<>> /\ Head(f[k]) = Head(a[p]) /\ g[k] = Tail(f[k])
           Good == {k \in 0..n : IF k < p THEN Before(k) ELSE From(k)}
<1>3. 0 \in Good
  BY <1>1, <1>2 DEF Joins
<1>4. ASSUME NEW k \in 1..n, k - 1 \in Good PROVE k \in Good
  <2>1. /\ f[k] = f[k - 1] \o a[k] /\ g[k] = g[k - 1] \o b[k]
        /\ f[k - 1] \in Seq(S) /\ g[k - 1] \in Seq(S) /\ a[k] \in Seq(S) /\ b[k] \in Seq(S)
        /\ k \in 0..n /\ k - 1 \in 0..n
    <3>1. k \in 0..n /\ k - 1 \in 0..n
      OBVIOUS
    <3>2. f[k] = f[k - 1] \o a[k] /\ g[k] = g[k - 1] \o b[k]
      BY <1>1, <1>2 DEF Joins
    <3> QED BY <3>1, <3>2
  <2>2. CASE k < p
    <3>1. Before(k - 1) /\ a[k] = <<>> /\ b[k] = <<>>
      <4>1. k - 1 < p /\ k # p
        BY <2>1, <2>2
      <4> QED BY <1>4, <2>2, <4>1
    <3>2. Before(k)
      BY <2>1, <3>1
    <3> QED BY <2>1, <2>2, <3>2
  <2>3. CASE k = p
    <3>1. Before(k - 1)
      BY <1>4, <2>3
    <3>2. f[k] = a[p] /\ g[k] = Tail(a[p])
      BY <2>1, <2>3, <3>1
    <3>3. From(k)
      BY <3>2
    <3> QED BY <2>1, <2>3, <3>3
  <2>4. CASE k > p
    <3>1. From(k - 1) /\ b[k] = a[k]
      BY <1>4, <2>4, SMTT(30)
    <3>2. f[k] # <<>> /\ Head(f[k]) = Head(f[k - 1]) /\ Tail(f[k]) = Tail(f[k - 1]) \o a[k]
      <4>1. PICK s \in Seq(S), t \in Seq(S) : s = f[k - 1] /\ t = a[k]
        BY <2>1
      <4>2. s # <<>> => s \o t # <<>> /\ Head(s \o t) = Head(s) /\ Tail(s \o t) = Tail(s) \o t
        BY ConcatTail
      <4> QED BY <2>1, <3>1, <4>1, <4>2
    <3>3. From(k)
      BY <2>1, <3>1, <3>2
    <3>4. ~(k < p)
      BY <2>4
    <3> QED BY <2>1, <3>3, <3>4
  <2> QED BY <2>2, <2>3, <2>4
<1>5. Good = 0..n
  <2>1. Good \in SUBSET (0..n)
    OBVIOUS
  <2> HIDE DEF Good
  <2> QED BY <1>3, <1>4, <2>1, UpTo
<1>6. From(n)
  <2>1. n \in 0..n /\ ~(n < p)
    OBVIOUS
  <2>2. n \in Good
    BY <1>5, <2>1
  <2> QED BY <2>1, <2>2
<1> QED BY <1>1, <1>2, <1>6

\* The last part gets one more element.
LEMMA JoinedAppend ==
    ASSUME NEW S, NEW n, NEW a, Parts(S, n, a), NEW b, Parts(S, n, b),
           NEW x \in S, b[n] = Append(a[n], x), \A i \in 1..n : i # n => b[i] = a[i]
    PROVE  FlattenSeq(b) = Append(FlattenSeq(a), x)
<1>0. n \in Nat \ {0} /\ a \in [1..n -> Seq(S)] /\ b \in [1..n -> Seq(S)]
  BY DEF Parts
<1> USE <1>0
<1>1. PICK f \in [0..n -> Seq(S)] : Joins(f, a, n) /\ FlattenSeq(a) = f[n]
  <2>1. JoinsToFlat(S, n, a)
    BY Flattened
  <2> QED BY <2>1 DEF JoinsToFlat
<1>2. PICK g \in [0..n -> Seq(S)] : Joins(g, b, n) /\ FlattenSeq(b) = g[n]
  <2>1. JoinsToFlat(S, n, b)
    BY Flattened
  <2> QED BY <2>1 DEF JoinsToFlat
<1> DEFINE Good == {k \in 0..n : k < n => g[k] = f[k]}
<1>3. 0 \in Good
  BY <1>1, <1>2 DEF Joins
<1>4. ASSUME NEW k \in 1..n, k - 1 \in Good PROVE k \in Good
  <2>1. f[k] = f[k - 1] \o a[k] /\ g[k] = g[k - 1] \o b[k] /\ k \in 0..n
    <3>1. f[k] = f[k - 1] \o a[k] /\ g[k] = g[k - 1] \o b[k]
      BY <1>1, <1>2 DEF Joins
    <3>2. k \in 0..n
      OBVIOUS
    <3> QED BY <3>1, <3>2
  <2>2. g[k - 1] = f[k - 1] /\ (k < n => b[k] = a[k])
    <3>1. k - 1 < n /\ (k < n => k # n)
      OBVIOUS
    <3> QED BY <1>4, <3>1
  <2> QED BY <2>1, <2>2
<1>5. Good = 0..n
  <2>1. Good \in SUBSET (0..n)
    OBVIOUS
  <2> HIDE DEF Good
  <2> QED BY <1>3, <1>4, <2>1, UpTo
<1>6. n - 1 \in 0..n /\ n \in 1..n /\ n - 1 < n
  OBVIOUS
<1>7. g[n - 1] = f[n - 1]
  <2>1. n - 1 \in Good
    BY <1>5, <1>6
  <2> QED BY <1>6, <2>1
<1>8. /\ f[n] = f[n - 1] \o a[n] /\ g[n] = f[n - 1] \o Append(a[n], x)
      /\ f[n - 1] \in Seq(S) /\ a[n] \in Seq(S)
  BY <1>1, <1>2, <1>6, <1>7 DEF Joins
<1>9. f[n - 1] \o Append(a[n], x) = Append(f[n - 1] \o a[n], x)
  <2>1. PICK s \in Seq(S), t \in Seq(S) : s = f[n - 1] /\ t = a[n]
    BY <1>8
  <2>2. AppendedLast(s, t, x)
    BY ConcatAppend
  <2> QED BY <2>1, <2>2 DEF AppendedLast
<1> QED BY <1>1, <1>2, <1>8, <1>9

\* The first part goes, and a new one comes last.
Shifted(S, a, b, x) ==
    LET all == FlattenSeq(a)
    IN  /\ all \in Seq(S) /\ Len(a[1]) <= Len(all)
        /\ FlattenSeq(b) = Append(SubSeq(all, Len(a[1]) + 1, Len(all)), x)

LEMMA JoinedShift ==
    ASSUME NEW S, NEW n, NEW a, Parts(S, n, a), NEW b, Parts(S, n, b),
           NEW x \in S, b[n] = <<x>>, \A i \in 1..n : i # n => b[i] = a[i + 1]
    PROVE  Shifted(S, a, b, x)
<1>0. n \in Nat \ {0} /\ a \in [1..n -> Seq(S)] /\ b \in [1..n -> Seq(S)]
  BY DEF Parts
<1> USE <1>0
<1>1. PICK f \in [0..n -> Seq(S)] : Joins(f, a, n) /\ FlattenSeq(a) = f[n]
  <2>1. JoinsToFlat(S, n, a)
    BY Flattened
  <2> QED BY <2>1 DEF JoinsToFlat
<1>2. PICK g \in [0..n -> Seq(S)] : Joins(g, b, n) /\ FlattenSeq(b) = g[n]
  <2>1. JoinsToFlat(S, n, b)
    BY Flattened
  <2> QED BY <2>1 DEF JoinsToFlat
<1>3. 1 \in 1..n /\ n \in 1..n /\ n - 1 \in 0..n /\ a[1] \in Seq(S)
  OBVIOUS
<1> DEFINE Good == {k \in 0..n : k < n => f[k + 1] = a[1] \o g[k]}
<1>4. 0 \in Good
  <2>1. f[1] = f[1 - 1] \o a[1] /\ f[0] = <<>> /\ g[0] = <<>>
    BY <1>1, <1>2, <1>3 DEF Joins
  <2>2. <<>> \o a[1] = a[1] /\ a[1] \o <<>> = a[1]
    BY <1>3, ConcatNothing, Zenon
  <2>3. 1 - 1 = 0 /\ 0 + 1 = 1 /\ 0 \in 0..n
    OBVIOUS
  <2>4. f[0 + 1] = a[1] \o g[0]
    BY <2>1, <2>2, <2>3
  <2> QED BY <2>3, <2>4
<1>5. ASSUME NEW k \in 1..n, k - 1 \in Good PROVE k \in Good
  <2>1. CASE k = n
    BY <2>1
  <2>2. CASE k # n
    <3>1. k + 1 \in 1..n /\ k - 1 \in 0..n /\ k \in 0..n /\ (k + 1) - 1 = k /\ (k - 1) + 1 = k
      BY <2>2
    <3>2. f[k + 1] = f[k] \o a[k + 1]
      BY <1>1, <3>1 DEF Joins
    <3>6. g[k] = g[k - 1] \o a[k + 1]
      BY <1>2, <2>2 DEF Joins
    <3>7. f[k] = a[1] \o g[k - 1]
      <4>1. k - 1 < n
        OBVIOUS
      <4> QED BY <1>5, <3>1, <4>1
    <3>3. g[k - 1] \in Seq(S) /\ a[k + 1] \in Seq(S)
      BY <3>1
    <3>4. (a[1] \o g[k - 1]) \o a[k + 1] = a[1] \o (g[k - 1] \o a[k + 1])
      <4>1. PICK s \in Seq(S), t \in Seq(S), u \in Seq(S) : s = a[1] /\ t = g[k - 1] /\ u = a[k + 1]
        BY <1>3, <3>3
      <4>2. Regrouped(s, t, u)
        BY ConcatThree
      <4> QED BY <4>1, <4>2 DEF Regrouped
    <3>5. f[k + 1] = a[1] \o g[k]
      BY <3>2, <3>4, <3>6, <3>7
    <3> QED BY <3>1, <3>5
  <2> QED BY <2>1, <2>2
<1>6. Good = 0..n
  <2>1. Good \in SUBSET (0..n)
    OBVIOUS
  <2> HIDE DEF Good
  <2> QED BY <1>4, <1>5, <2>1, UpTo
<1>7. n - 1 \in Good
  BY <1>3, <1>6
<1>8. PICK first, rest : first = a[1] /\ rest = g[n - 1]
  OBVIOUS
<1>9. first \in Seq(S) /\ rest \in Seq(S) /\ f[n] = first \o rest /\ g[n] = rest \o <<x>>
  <2>1. (n - 1) + 1 = n /\ n - 1 < n
    OBVIOUS
  <2>2. g[n] = g[n - 1] \o b[n]
    BY <1>2, <1>3 DEF Joins
  <2> QED BY <1>3, <1>7, <1>8, <2>1, <2>2
<1>10. /\ first \o rest \in Seq(S) /\ Len(first) <= Len(first \o rest)
       /\ SubSeq(first \o rest, Len(first) + 1, Len(first \o rest)) = rest
       /\ Append(rest, x) = rest \o <<x>>
  <2>1. Append(rest, x) = rest \o <<x>>
    BY <1>9, SMTT(30)
  <2> QED BY <1>9, <2>1, ConcatDrop
<1> QED BY <1>1, <1>2, <1>8, <1>9, <1>10 DEF Shifted

\* Every element is changed in the same way.
EachChanged(h, s, t) == t = [k \in 1..Len(s) |-> h[s[k]]]

LEMMA JoinedEach ==
    ASSUME NEW S, NEW h \in [S -> S], NEW n,
           NEW a, Parts(S, n, a), NEW b, Parts(S, n, b),
           \A i \in 1..n : EachChanged(h, a[i], b[i])
    PROVE  EachChanged(h, FlattenSeq(a), FlattenSeq(b))
<1>0. n \in Nat \ {0} /\ a \in [1..n -> Seq(S)] /\ b \in [1..n -> Seq(S)]
  BY DEF Parts
<1> USE <1>0
<1>1. PICK f \in [0..n -> Seq(S)] : Joins(f, a, n) /\ FlattenSeq(a) = f[n]
  <2>1. JoinsToFlat(S, n, a)
    BY Flattened
  <2> QED BY <2>1 DEF JoinsToFlat
<1>2. PICK g \in [0..n -> Seq(S)] : Joins(g, b, n) /\ FlattenSeq(b) = g[n]
  <2>1. JoinsToFlat(S, n, b)
    BY Flattened
  <2> QED BY <2>1 DEF JoinsToFlat
<1> DEFINE Good == {k \in 0..n : g[k] = [i \in 1..Len(f[k]) |-> h[f[k][i]]]}
<1>3. 0 \in Good
  <2>1. f[0] = <<>> /\ g[0] = <<>> /\ 0 \in 0..n
    BY <1>1, <1>2 DEF Joins
  <2>2. g[0] = [i \in 1..Len(f[0]) |-> h[f[0][i]]]
    <3>1. <<>> = [i \in 1..Len(<<>>) |-> h[<<>>[i]]]
      OBVIOUS
    <3> QED BY <2>1, <3>1
  <2> QED BY <2>1, <2>2
<1>4. ASSUME NEW k \in 1..n, k - 1 \in Good PROVE k \in Good
  <2>1. PICK s \in Seq(S), t \in Seq(S) : s = f[k - 1] /\ t = a[k]
    OBVIOUS
  <2>2. /\ k \in 0..n /\ s \in Seq(S) /\ t \in Seq(S)
        /\ f[k] = s \o t /\ g[k] = [i \in 1..Len(s) |-> h[s[i]]] \o [i \in 1..Len(t) |-> h[t[i]]]
    <3>4. k \in 0..n /\ k - 1 \in 0..n
      OBVIOUS
    <3>5. f[k] = f[k - 1] \o a[k] /\ g[k] = g[k - 1] \o b[k]
      BY <1>1, <1>2 DEF Joins
    <3>1. /\ k \in 0..n /\ s \in Seq(S) /\ t \in Seq(S)
          /\ f[k] = s \o t /\ g[k] = g[k - 1] \o b[k]
      BY <2>1, <3>4, <3>5
    <3>2. g[k - 1] = [i \in 1..Len(s) |-> h[s[i]]]
      BY <1>4, <2>1
    <3>3. b[k] = [i \in 1..Len(t) |-> h[t[i]]]
      BY <2>1 DEF EachChanged
    <3> QED BY <3>1, <3>2, <3>3
  <2>3. EachJoined(h, s, t)
    BY ConcatEach
  <2> QED BY <2>2, <2>3 DEF EachJoined
<1>5. Good = 0..n
  <2>1. Good \in SUBSET (0..n)
    OBVIOUS
  <2> HIDE DEF Good
  <2> QED BY <1>3, <1>4, <2>1, UpTo
<1>6. n \in Good
  <2>1. n \in 0..n
    OBVIOUS
  <2> QED BY <1>5, <2>1
<1> QED BY <1>1, <1>2, <1>6 DEF EachChanged

-----------------------------------------------------------------------------
(* The ring is a channel *)

\* What is in flight: an item of the writer with the cycle in which it may be read.
Entry == [item : 0..MaxItems, due : Int]

\* The unread items, row by row from the oldest.
Rows == [d \in 1..BufferSize |-> UnreadItems(After(WriteIndex, d))]

\* Where a row at a distance is.
LEMMA WrapsAround ==
    ASSUME NEW x \in Nat, NEW b \in Nat \ {0}, x < 2 * b
    PROVE  x % b = IF x < b THEN x ELSE x - b
<1>1. PICK q \in Int, r \in Int : q = x \div b /\ r = x % b
  OBVIOUS
<1>2. x = b * q + r /\ 0 <= r /\ r < b
  BY <1>1
<1>3. q >= 0
  <2>1. q <= -1 => b * q <= -b
    OBVIOUS
  <2> QED BY <1>2, <2>1
<1>4. q < 2
  <2>1. q >= 2 => b * q >= 2 * b
    OBVIOUS
  <2> QED BY <1>2, <2>1
<1>5. CASE q = 0
  BY <1>1, <1>2, <1>5
<1>6. CASE q = 1
  BY <1>1, <1>2, <1>6
<1> QED BY <1>3, <1>4, <1>5, <1>6

\* Where the places of the ring are, and how they move when the next row is begun.
LEMMA Places ==
    ASSUME NEW w \in Index
    PROVE  /\ \A d \in 1..BufferSize : After(w, d) = (IF w + d < BufferSize THEN w + d ELSE w + d - BufferSize)
           /\ \A d \in 1..BufferSize : After(w, d) \in Index
           /\ After(w, 1) = NextIndex(w) /\ After(w, BufferSize) = w
           /\ \A d \in 1..BufferSize : d # BufferSize => After(NextIndex(w), d) = After(w, d + 1)
<1>1. BufferSize \in Nat \ {0} /\ BufferSize >= 4 /\ Index = 0..BufferSize - 1
  BY RingSize
<1>2. ASSUME NEW v \in Index, NEW d \in 1..BufferSize
      PROVE  After(v, d) = IF v + d < BufferSize THEN v + d ELSE v + d - BufferSize
  <2>1. PICK x \in Nat, b \in Nat \ {0} : x = v + d /\ b = BufferSize /\ x < 2 * b
    BY <1>1
  <2>2. x % b = IF x < b THEN x ELSE x - b
    BY <2>1, WrapsAround
  <2>3. After(v, d) = x % b
    BY <2>1, Zenon DEF After
  <2>4. v + d < BufferSize <=> x < b
    BY <1>1, <2>1
  <2>5. v + d - BufferSize = x - b
    BY <1>1, <2>1
  <2> QED BY <2>1, <2>2, <2>3, <2>4, <2>5
<1>3. NextIndex(w) \in Index /\ NextIndex(w) = IF w + 1 < BufferSize THEN w + 1 ELSE 0
  BY <1>1 DEF NextIndex
<1>4. ASSUME NEW d \in 1..BufferSize PROVE After(w, d) \in Index
  <2>1. (IF w + d < BufferSize THEN w + d ELSE w + d - BufferSize) \in Index
    BY <1>1
  <2> QED BY <1>2, <2>1
<1>5. After(w, 1) = NextIndex(w) /\ After(w, BufferSize) = w
  <2>1. 1 \in 1..BufferSize /\ BufferSize \in 1..BufferSize
    BY <1>1
  <2>2. /\ After(w, 1) = IF w + 1 < BufferSize THEN w + 1 ELSE w + 1 - BufferSize
        /\ After(w, BufferSize) = IF w + BufferSize < BufferSize THEN w + BufferSize ELSE w + BufferSize - BufferSize
    BY <1>2, <2>1
  <2> QED BY <1>1, <1>3, <2>2
<1>6. ASSUME NEW d \in 1..BufferSize, d # BufferSize PROVE After(NextIndex(w), d) = After(w, d + 1)
  <2>1. d + 1 \in 1..BufferSize
    BY <1>1, <1>6
  <2>5. d \in Int /\ d < BufferSize
    BY <1>1, <1>6
  <2>2. PICK v \in Index : v = NextIndex(w)
    BY <1>3
  <2>3. After(v, d) = IF v + d < BufferSize THEN v + d ELSE v + d - BufferSize
    BY <1>2
  <2>4. After(w, d + 1) = IF w + (d + 1) < BufferSize THEN w + (d + 1) ELSE w + (d + 1) - BufferSize
    BY <1>2, <2>1
  <2>6. CASE w + 1 < BufferSize
    <3>1. v = w + 1 /\ v + d = w + (d + 1)
      BY <1>1, <1>3, <2>2, <2>5, <2>6
    <3>2. PICK x \in Int : x = v + d /\ x = w + (d + 1)
      BY <1>1, <2>2, <2>5, <3>1
    <3>3. After(v, d) = (IF x < BufferSize THEN x ELSE x - BufferSize)
      BY <1>1, <2>2, <2>3, <2>5, <3>2
    <3>4. After(w, d + 1) = (IF x < BufferSize THEN x ELSE x - BufferSize)
      BY <1>1, <2>4, <2>5, <3>2
    <3> QED BY <2>2, <3>3, <3>4
  <2>7. CASE ~(w + 1 < BufferSize)
    <3>1. v = 0 /\ w = BufferSize - 1
      BY <1>1, <1>3, <2>2, <2>7
    <3>2. After(v, d) = d
      BY <1>1, <2>3, <2>5, <3>1
    <3>3. After(w, d + 1) = d
      BY <1>1, <2>4, <2>5, <3>1
    <3> QED BY <2>2, <3>2, <3>3
  <2> QED BY <2>6, <2>7
<1> QED BY <1>2, <1>4, <1>5, <1>6

\* The row at place d has age d - 1.
LEMMA AgeOfPlace ==
    ASSUME WriteIndex \in Index, NEW d \in 1..BufferSize
    PROVE  After(WriteIndex, d) \in Index /\ Age(After(WriteIndex, d)) = d - 1
<1>1. After(WriteIndex, d) = IF WriteIndex + d < BufferSize THEN WriteIndex + d ELSE WriteIndex + d - BufferSize
  BY Places
<1> QED BY <1>1, RingSize DEF Age

\* The row of an index is at one place.
LEMMA PlaceOfAge ==
    ASSUME WriteIndex \in Index, NEW i \in Index
    PROVE  Age(i) + 1 \in 1..BufferSize /\ After(WriteIndex, Age(i) + 1) = i
<1>1. Age(i) \in 0..BufferSize - 1
  BY Ages
<1>2. PICK d \in 1..BufferSize : d = Age(i) + 1
  BY <1>1, RingSize
<1>3. After(WriteIndex, d) \in Index /\ Age(After(WriteIndex, d)) = d - 1
  BY AgeOfPlace
<1>4. Age(After(WriteIndex, d)) = Age(i)
  BY <1>1, <1>2, <1>3
<1>5. After(WriteIndex, d) = i
  BY <1>3, <1>4, Ages
<1> QED BY <1>2, <1>5

\* What the unread items of a row are.
LEMMA UnreadTyped ==
    ASSUME StoreInv, NEW i \in Index
    PROVE  /\ UnreadItems(i) \in Seq(Entry) /\ Len(UnreadItems(i)) = Store[i].End - Store[i].Start
           /\ UnreadItems(i) = <<>> <=> IsEmpty(i)
<1>1. /\ Store[i].CycleWritten \in Int /\ Store[i].Start \in 0..Bandwidth /\ Store[i].End \in 0..Bandwidth
      /\ Store[i].Start <= Store[i].End /\ \A k \in Slot : Store[i].Data[k] \in 0..MaxItems
  BY Types
<1>2. PICK b \in Nat, e \in Nat, n \in Nat : b = Store[i].Start /\ e = Store[i].End /\ n = e - b /\ e <= Bandwidth
  BY <1>1, RingSize
<1>3. ReadCycle(i) \in Int
  BY <1>1, RingSize DEF ReadCycle
<1>4. ASSUME NEW k \in 1..n PROVE [item |-> Store[i].Data[b + k - 1], due |-> ReadCycle(i)] \in Entry
  <2>1. b + k - 1 \in Slot
    BY <1>2, RingSize
  <2> QED BY <1>1, <1>3, <2>1 DEF Entry
<1>5. UnreadItems(i) = [k \in 1..n |-> [item |-> Store[i].Data[b + k - 1], due |-> ReadCycle(i)]]
  BY <1>2 DEF UnreadItems
<1>6. UnreadItems(i) \in [1..n -> Entry]
  BY <1>4, <1>5
<1>7. UnreadItems(i) \in Seq(Entry) /\ Len(UnreadItems(i)) = n
  BY <1>6
<1> QED BY <1>2, <1>7 DEF IsEmpty

RowsFit ==
    /\ Rows \in [1..BufferSize -> Seq(Entry)] /\ inflight = FlattenSeq(Rows)
    /\ \A d \in 1..BufferSize : Rows[d] = UnreadItems(After(WriteIndex, d)) /\ After(WriteIndex, d) \in Index

\* Every row in its place is a sequence of items in flight, before a step and after it.
LEMMA RowsTyped == StoreInv => RowsFit
<1> SUFFICES ASSUME StoreInv PROVE RowsFit
  OBVIOUS
<1>1. WriteIndex \in Index
  BY Types
<1>2. \A d \in 1..BufferSize : After(WriteIndex, d) \in Index
  BY <1>1, Places
<1>3. Rows \in [1..BufferSize -> Seq(Entry)]
  BY <1>2, UnreadTyped DEF Rows
<1> QED BY <1>2, <1>3, RingSize DEF Rows, inflight, RowsFit

\* The same after a step.
LEMMA RowsTypedAfter == StoreInv' => RowsFit'
BY RowsTyped, PTL

\* Steps that leave the rows alone.
LEMMA InflightKept ==
    ASSUME UNCHANGED <<Store, WriteIndex>>
    PROVE  inflight' = inflight
<1>1. \A i : UnreadItems(i)' = UnreadItems(i)
  BY DEF UnreadItems, ReadCycle
<1>2. \A d : After(WriteIndex, d)' = After(WriteIndex, d)
  BY DEF After
<1> QED BY <1>1, <1>2 DEF inflight

NothingUnread == \A i \in Index : IsEmpty(i)

\* An empty ring has nothing in flight.
LEMMA InflightEmpty == StoreInv /\ NothingUnread => inflight = <<>>
<1> SUFFICES ASSUME StoreInv, NothingUnread PROVE inflight = <<>>
  OBVIOUS
<1>1. RowsFit /\ BufferSize \in Nat \ {0}
  BY RowsTyped, RingSize
<1>2. \A d \in 1..BufferSize : Rows[d] = <<>>
  BY <1>1, UnreadTyped DEF RowsFit, NothingUnread
<1>3. Parts(Entry, BufferSize, Rows)
  BY <1>1 DEF RowsFit, Parts
<1> QED BY <1>1, <1>2, <1>3, JoinedEmpty DEF RowsFit

\* The same after a step.
LEMMA InflightEmptyAfter == StoreInv' /\ NothingUnread' => (inflight = <<>>)'
BY InflightEmpty, PTL

\* A Read takes the first item, which is due.
LEMMA ReadTakesFirst ==
    ASSUME Latency >= 1, IInv, active, Read
    PROVE  Contract!Read
<1>1. PICK R : R = ReadIndex
  OBVIOUS
<1> DEFINE start == Store[R].Start
<1>2. /\ Readable /\ lastRead' = Store[R].Data[start] /\ active' = active /\ cycle' = cycle
      /\ WriteIndex' = WriteIndex
      /\ Store' = [Store EXCEPT ![R].Data[start] = Dummy, ![R].Start = start + 1]
  BY <1>1 DEF Read, IInv, StoreInv, TypeOK
<1>3. /\ R \in Index /\ WriteIndex \in Index /\ cycle \in Nat /\ Store[R] \in Row
      /\ start \in 0..Bandwidth /\ Store[R].End \in 0..Bandwidth /\ start <= Store[R].End
  BY <1>1, Types DEF IInv
<1>4. ~IsEmpty(R) /\ ReadCycle(R) <= cycle
  BY <1>1, <1>2 DEF Readable
<1>5. StoreInv /\ StoreInv'
  BY StepRead DEF IInv
<1>6. start \in Slot
  BY <1>3, <1>4, RingSize DEF IsEmpty
<1>7. /\ \A i \in Index : i # R => Store'[i] = Store[i]
      /\ Store'[R].Start = start + 1 /\ Store'[R].End = Store[R].End
      /\ Store'[R].CycleWritten = Store[R].CycleWritten
      /\ \A l \in Slot \ {start} : Store'[R].Data[l] = Store[R].Data[l]
  <2> DEFINE row == Store[R]
             new == [row EXCEPT !.Data[start] = Dummy, !.Start = start + 1]
  <2>1. Store' = [Store EXCEPT ![R] = new]
    BY <1>2
  <2>2. Store'[R] = new /\ \A i \in Index : i # R => Store'[i] = Store[i]
    BY <1>3, <1>5, <2>1 DEF StoreInv
  <2>3. /\ new.CycleWritten = row.CycleWritten /\ new.Start = start + 1 /\ new.End = row.End
        /\ \A l \in Slot \ {start} : new.Data[l] = row.Data[l]
    BY <1>3, <1>6, RowRead
  <2> HIDE DEF new
  <2> QED BY <2>2, <2>3
<1>8. /\ UnreadItems(R)' = Tail(UnreadItems(R)) /\ UnreadItems(R) # <<>>
      /\ Head(UnreadItems(R)) = [item |-> Store[R].Data[start], due |-> ReadCycle(R)]
  <2>1. PICK n \in Nat, b \in Nat : n = Store[R].End - start /\ b = start /\ n >= 1 /\ b + n <= Bandwidth
    BY <1>3, <1>4, RingSize DEF IsEmpty
  <2>2. PICK c : c = ReadCycle(R) /\ c = ReadCycle(R)'
    BY <1>7 DEF ReadCycle
  <2>3. PICK data, new : data = Store[R].Data /\ new = Store'[R].Data
    OBVIOUS
  <2>4. UnreadItems(R) = [k \in 1..n |-> [item |-> data[b + k - 1], due |-> c]]
    BY <2>1, <2>2, <2>3 DEF UnreadItems
  <2>5. UnreadItems(R)' = [k \in 1..n - 1 |-> [item |-> new[b + 1 + k - 1], due |-> c]]
    <3>1. Store'[R].End - Store'[R].Start = n - 1 /\ Store'[R].Start = b + 1
      BY <1>3, <1>7, <2>1, RingSize, SMTT(30)
    <3> QED BY <2>2, <2>3, <3>1 DEF UnreadItems
  <2>6. ASSUME NEW k \in 1..n - 1
        PROVE  b + 1 + k - 1 \in Slot \ {b} /\ b + 1 + k - 1 = b + (k + 1) - 1 /\ k + 1 \in 1..n
    <3>1. k \in Nat \ {0} /\ k <= n - 1 /\ k + 1 \in 1..n
      BY <2>1
    <3>2. b + k \in 0..Bandwidth - 1 /\ b + k # b
      BY <2>1, <3>1, RingSize, SMTT(30)
    <3>3. b + 1 + k - 1 = b + k /\ b + (k + 1) - 1 = b + k
      BY <2>1, <3>1
    <3> QED BY <3>1, <3>2, <3>3, RingSize
  <2>7. \A k \in 1..n - 1 : new[b + 1 + k - 1] = data[b + (k + 1) - 1]
    BY <1>7, <2>1, <2>3, <2>6
  <2> DEFINE u == [k \in 1..n |-> [item |-> data[b + k - 1], due |-> c]]
             v == [k \in 1..n - 1 |-> [item |-> new[b + 1 + k - 1], due |-> c]]
  <2>8. u \in Seq(Entry) /\ Len(u) = n
    BY <1>3, <1>5, <2>1, <2>4, UnreadTyped
  <2>9. \A k \in 1..n - 1 : v[k] = u[k + 1]
    BY <2>6, <2>7
  <2>10. v = Tail(u)
    <3>1. v = [k \in 1..n - 1 |-> u[k + 1]]
      BY <2>9
    <3> HIDE DEF u, v
    <3>2. u # <<>>
      BY <2>1, <2>8
    <3> QED BY <2>8, <3>1, <3>2, TailElements
  <2>11. u # <<>> /\ Head(u) = u[1] /\ u[1] = [item |-> data[b], due |-> c]
    <3>1. u[1] = [item |-> data[b], due |-> c]
      BY <2>1
    <3> HIDE DEF u
    <3> QED BY <2>1, <2>8, <3>1
  <2>12. UnreadItems(R) = u /\ UnreadItems(R)' = v
    BY <2>4, <2>5
  <2>13. [item |-> data[b], due |-> c] = [item |-> Store[R].Data[start], due |-> ReadCycle(R)]
    BY <2>1, <2>2, <2>3
  <2> HIDE DEF u, v
  <2>14. Head(u) = [item |-> Store[R].Data[start], due |-> ReadCycle(R)]
    BY ONLY <2>11, <2>13, Zenon
  <2> HIDE DEF start
  <2>15. UnreadItems(R)' = Tail(UnreadItems(R))
    BY ONLY <2>10, <2>12, Zenon
  <2>16. UnreadItems(R) # <<>> /\ Head(UnreadItems(R)) = Head(u)
    BY ONLY <2>11, <2>12, Zenon
  <2> QED BY ONLY <2>14, <2>15, <2>16, Zenon
<1>9. PICK n \in Nat \ {0} : n = BufferSize
  BY RingSize
<1>place. PICK p \in 1..n : p = Age(R) + 1 /\ After(WriteIndex, p) = R
  BY <1>3, <1>9, PlaceOfAge
<1>rows. PICK a, b : a = Rows /\ b = Rows'
  OBVIOUS
<1>10. /\ a \in [1..n -> Seq(Entry)] /\ inflight = FlattenSeq(a)
       /\ \A d \in 1..n : a[d] = UnreadItems(After(WriteIndex, d)) /\ After(WriteIndex, d) \in Index
  BY <1>5, <1>9, <1>rows, RowsTyped DEF RowsFit
<1>11. /\ b \in [1..n -> Seq(Entry)] /\ inflight' = FlattenSeq(b)
       /\ \A d \in 1..n : b[d] = UnreadItems(After(WriteIndex, d))'
  <2>1. /\ Rows' \in [1..BufferSize -> Seq(Entry)] /\ inflight' = FlattenSeq(Rows')
        /\ \A d \in 1..BufferSize : Rows'[d] = UnreadItems(After(WriteIndex, d))'
    BY <1>5, RowsTypedAfter DEF RowsFit
  <2> QED BY <1>9, <1>rows, <2>1
<1>12. a[p] = UnreadItems(R) /\ b[p] = UnreadItems(R)'
  <2>1. After(WriteIndex, p)' = R
    BY <1>2, <1>place DEF After
  <2>2. UnreadItems(After(WriteIndex, p))' = UnreadItems(R)'
    BY <2>1 DEF UnreadItems, ReadCycle
  <2> QED BY <1>place, <1>10, <1>11, <2>2
<1>13. ASSUME NEW d \in 1..n, d < p PROVE a[d] = <<>>
  <2>1. PICK i \in Index : i = After(WriteIndex, d) /\ Age(i) = d - 1
    BY <1>3, <1>9, AgeOfPlace
  <2>2. Age(i) < Age(R)
    <3>1. Age(R) \in Int
      BY <1>3, Ages
    <3> QED BY <1>place, <1>13, <2>1, <3>1
  <2>3. IsEmpty(i)
    BY <1>1, <1>3, <1>4, <2>2, OldestRow DEF SomeUnread
  <2> QED BY <1>5, <1>10, <2>1, <2>3, UnreadTyped
<1>14. ASSUME NEW d \in 1..n, d # p PROVE b[d] = a[d]
  <2>1. PICK i \in Index : i = After(WriteIndex, d) /\ Age(i) = d - 1
    BY <1>3, <1>9, AgeOfPlace
  <2>2. i # R
    <3>1. Age(R) \in Int
      BY <1>3, Ages
    <3> QED BY <1>place, <1>14, <2>1, <3>1
  <2>3. After(WriteIndex, d)' = i
    BY <1>2, <2>1 DEF After
  <2>4. UnreadItems(i)' = UnreadItems(i)
    BY <1>7, <2>2 DEF UnreadItems, ReadCycle
  <2>5. UnreadItems(After(WriteIndex, d))' = UnreadItems(i)'
    BY <2>3 DEF UnreadItems, ReadCycle
  <2> QED BY <1>10, <1>11, <2>1, <2>4, <2>5
<1>15. /\ FlattenSeq(a) # <<>> /\ Head(FlattenSeq(a)) = Head(a[p]) /\ FlattenSeq(b) = Tail(FlattenSeq(a))
  <2>1. a[p] # <<>> /\ b[p] = Tail(a[p])
    BY <1>8, <1>12
  <2>2. Parts(Entry, n, a) /\ Parts(Entry, n, b)
    BY <1>10, <1>11 DEF Parts
  <2> QED BY <1>13, <1>14, <2>1, <2>2, JoinedTail
<1>16. /\ inflight # <<>> /\ Head(inflight).item = lastRead' /\ Head(inflight).due <= cycle
       /\ inflight' = Tail(inflight)
  BY <1>2, <1>4, <1>8, <1>10, <1>11, <1>12, <1>15
<1> QED BY <1>2, <1>16 DEF Contract!Read

\* A Stall delays everything in flight by a cycle.
LEMMA StallDelays ==
    ASSUME IInv, Stall
    PROVE  Contract!Delay
<1>1. /\ Store' = [i \in Index |-> [Store[i] EXCEPT !.CycleWritten = @ + 1]]
      /\ UNCHANGED <<WriteIndex, active, cycle, lastRead>>
  BY DEF Stall, historyVars
<1>2. StoreInv /\ StoreInv'
  BY StepStall DEF IInv
<1>3. WriteIndex \in Index /\ \A i \in Index : Store[i] \in Row /\ Store[i].CycleWritten \in Int
  BY Types DEF IInv
<1>4. ASSUME NEW i \in Index
      PROVE  /\ Store'[i].Start = Store[i].Start /\ Store'[i].End = Store[i].End /\ Store'[i].Data = Store[i].Data
             /\ ReadCycle(i)' = ReadCycle(i) + 1
  <2>1. Store'[i] = [Store[i] EXCEPT !.CycleWritten = @ + 1]
    BY <1>1
  <2>2. /\ Store'[i].Start = Store[i].Start /\ Store'[i].End = Store[i].End /\ Store'[i].Data = Store[i].Data
        /\ Store'[i].CycleWritten = Store[i].CycleWritten + 1
    BY <1>3, <2>1 DEF Row
  <2> QED BY <1>3, <2>2, RingSize DEF ReadCycle
<1> DEFINE h == [e \in Entry |-> [e EXCEPT !.due = @ + 1]]
<1>5. h \in [Entry -> Entry]
  BY DEF Entry
<1>6. ASSUME NEW i \in Index
      PROVE  UnreadItems(i)' = [k \in 1..Len(UnreadItems(i)) |-> h[UnreadItems(i)[k]]]
  <2>1. PICK n, s, data, c : n = Store[i].End - s /\ s = Store[i].Start /\ data = Store[i].Data /\ c = ReadCycle(i)
    OBVIOUS
  <2>2. UnreadItems(i) = [k \in 1..n |-> [item |-> data[s + k - 1], due |-> c]]
    BY <2>1 DEF UnreadItems
  <2>3. UnreadItems(i)' = [k \in 1..n |-> [item |-> data[s + k - 1], due |-> c + 1]]
    BY <1>4, <2>1 DEF UnreadItems
  <2>4. UnreadItems(i) \in Seq(Entry) /\ Len(UnreadItems(i)) = n
    BY <1>2, <2>1, UnreadTyped
  <2>5. ASSUME NEW k \in 1..n PROVE h[UnreadItems(i)[k]] = [item |-> data[s + k - 1], due |-> c + 1]
    <3>1. UnreadItems(i)[k] \in Entry
      BY <2>4
    <3>2. UnreadItems(i)[k] = [item |-> data[s + k - 1], due |-> c]
      BY <2>2
    <3> QED BY <3>1, <3>2
  <2> HIDE DEF h
  <2> QED BY <2>3, <2>4, <2>5
<1>7. PICK n \in Nat \ {0} : n = BufferSize
  BY RingSize
<1>rows. PICK a, b : a = Rows /\ b = Rows'
  OBVIOUS
<1>8. /\ a \in [1..n -> Seq(Entry)] /\ inflight = FlattenSeq(a)
      /\ \A d \in 1..n : a[d] = UnreadItems(After(WriteIndex, d)) /\ After(WriteIndex, d) \in Index
  BY <1>2, <1>7, <1>rows, RowsTyped DEF RowsFit
<1>9. /\ b \in [1..n -> Seq(Entry)] /\ inflight' = FlattenSeq(b)
      /\ \A d \in 1..n : b[d] = UnreadItems(After(WriteIndex, d))'
  <2>1. /\ Rows' \in [1..BufferSize -> Seq(Entry)] /\ inflight' = FlattenSeq(Rows')
        /\ \A d \in 1..BufferSize : Rows'[d] = UnreadItems(After(WriteIndex, d))'
    BY <1>2, RowsTypedAfter DEF RowsFit
  <2> QED BY <1>7, <1>rows, <2>1
<1>10. ASSUME NEW d \in 1..n PROVE EachChanged(h, a[d], b[d])
  <2>1. PICK i \in Index : i = After(WriteIndex, d) /\ i = After(WriteIndex, d)'
    BY <1>1, <1>8 DEF After
  <2>2. UnreadItems(After(WriteIndex, d))' = UnreadItems(i)'
    BY <2>1 DEF UnreadItems, ReadCycle
  <2>3. a[d] = UnreadItems(i) /\ b[d] = UnreadItems(i)'
    BY <1>8, <1>9, <2>1, <2>2
  <2> HIDE DEF h
  <2>4. UnreadItems(i)' = [k \in 1..Len(UnreadItems(i)) |-> h[UnreadItems(i)[k]]]
    BY <1>6
  <2> QED BY <2>3, <2>4, Zenon DEF EachChanged
<1>11. EachChanged(h, FlattenSeq(a), FlattenSeq(b))
  <2> HIDE DEF h
  <2>1. Parts(Entry, n, a) /\ Parts(Entry, n, b)
    BY <1>8, <1>9 DEF Parts
  <2> QED BY <1>5, <1>10, <2>1, JoinedEach
<1>12. inflight \in Seq(Entry)
  <2>1. PICK f \in [0..n -> Seq(Entry)] : FlattenSeq(a) = f[n]
    BY <1>8, Flattened DEF JoinsToFlat
  <2>2. n \in 0..n
    OBVIOUS
  <2> QED BY <1>8, <2>1, <2>2
<1>13. inflight' = [k \in 1..Len(inflight) |-> [inflight[k] EXCEPT !.due = @ + 1]]
  <2>1. inflight' = [k \in 1..Len(inflight) |-> h[inflight[k]]]
    BY <1>8, <1>9, <1>11 DEF EachChanged
  <2>2. \A k \in 1..Len(inflight) : h[inflight[k]] = [inflight[k] EXCEPT !.due = @ + 1]
    BY <1>12
  <2> HIDE DEF h
  <2> QED BY <2>1, <2>2
<1> QED BY <1>1, <1>13 DEF Contract!Delay

\* A Write puts an item last; only a port that nobody reads loses the oldest row by it.
LEMMA WritePutsLast ==
    ASSUME Latency >= 1, IInv, Write
    PROVE  \E x \in Item : Contract!Write(x)
<1>1. PICK w : w = WriteIndex
  OBVIOUS
<1>2. PICK x, entry : x = sent + 1 /\ entry = [item |-> x, due |-> cycle + Latency]
  OBVIOUS
<1>3. PICK m \in Index, e \in Slot :
         /\ m = RowToWrite /\ WriteIndex' = m
         /\ Store' \in [Index -> Row] /\ \A i \in Index \ {m} : Store'[i] = Store[i]
         /\ Store'[m].CycleWritten = cycle
         /\ Store'[m].End = e + 1 /\ Store'[m].Data[e] = sent + 1
         /\ BeginsRow => Store'[m].Start = e
         /\ ~BeginsRow => /\ Store'[m].Start = Store[m].Start /\ Store[m].End = e
                          /\ \A l \in Slot \ {e} : Store'[m].Data[l] = Store[m].Data[l]
  BY WriteRows
<1>4. ~TimeGoesBack /\ ~RowHasData /\ UNCHANGED <<cycle, active, lastRead>> /\ sent < ItemBound[kind]
  BY DEF Write, flagVars
<1>5. StoreInv /\ StoreInv'
  BY StepWrite DEF IInv
<1>6. /\ w \in Index /\ cycle \in Int
      /\ \A i \in Index : /\ Store[i].Start \in 0..Bandwidth /\ Store[i].End \in 0..Bandwidth
                          /\ Store[i].Start <= Store[i].End
  BY <1>1, Types DEF IInv
<1>7. x \in Item
  <2>1. kind \in Kinds /\ sent \in 0..MaxItems
    BY <1>5 DEF StoreInv, TypeOK
  <2>2. ItemBound[kind] \in 0..MaxItems
    BY <2>1, PortConstants
  <2> QED BY <1>2, <1>4, <2>1, <2>2, PortConstants DEF Item
<1>8. entry \in Entry
  <2>1. x \in 0..MaxItems /\ cycle + Latency \in Int
    BY <1>6, <1>7, PortConstants DEF Item
  <2> QED BY <1>2, <2>1 DEF Entry
<1>9. PICK n \in Nat \ {0} : n = BufferSize
  BY RingSize
<1>rows. PICK a, b : a = Rows /\ b = Rows'
  OBVIOUS
<1>10. /\ a \in [1..n -> Seq(Entry)] /\ inflight = FlattenSeq(a)
       /\ \A d \in 1..n : a[d] = UnreadItems(After(w, d)) /\ After(w, d) \in Index
  BY <1>1, <1>5, <1>9, <1>rows, RowsTyped DEF RowsFit
<1>11. /\ b \in [1..n -> Seq(Entry)] /\ inflight' = FlattenSeq(b)
       /\ \A d \in 1..n : b[d] = UnreadItems(After(m, d))'
  <2>1. /\ Rows' \in [1..BufferSize -> Seq(Entry)] /\ inflight' = FlattenSeq(Rows')
        /\ \A d \in 1..BufferSize : Rows'[d] = UnreadItems(After(WriteIndex, d))'
    BY <1>5, RowsTypedAfter DEF RowsFit
  <2>2. \A d : After(WriteIndex, d)' = After(m, d)
    BY <1>3 DEF After
  <2>3. \A d : UnreadItems(After(WriteIndex, d))' = UnreadItems(After(m, d))'
    BY <2>2 DEF UnreadItems, ReadCycle
  <2> QED BY <1>9, <1>rows, <2>1, <2>3
<1>12. ASSUME NEW i \in Index, i # m PROVE UnreadItems(i)' = UnreadItems(i)
  BY <1>3, <1>12 DEF UnreadItems, ReadCycle
<1>13. ReadCycle(m)' = cycle + Latency
  BY <1>3 DEF ReadCycle
<1>14. After(w, 1) = NextIndex(w) /\ After(w, n) = w /\ After(m, n) = m
       /\ \A d \in 1..n : d # n => After(NextIndex(w), d) = After(w, d + 1)
  BY <1>6, <1>9, Places
<1>15. n \in 1..n /\ 1 \in 1..n
  OBVIOUS
<1>16. CASE BeginsRow
  <2>1. m = NextIndex(w) /\ Store'[m].Start = e
    BY <1>1, <1>3, <1>16 DEF RowToWrite
  <2>2. UnreadItems(m)' = <<entry>>
    <3>1. Store'[m].End - Store'[m].Start = 1
      BY <1>3, <2>1, RingSize
    <3>2. UnreadItems(m)' = [k \in 1..1 |-> [item |-> Store'[m].Data[e + k - 1], due |-> cycle + Latency]]
      BY <1>13, <2>1, <3>1 DEF UnreadItems
    <3>3. \A k \in 1..1 : e + k - 1 = e
      BY RingSize
    <3>4. UnreadItems(m)' = [k \in 1..1 |-> entry]
      BY <1>2, <1>3, <3>2, <3>3
    <3> QED BY <3>4
  <2>3. b[n] = <<entry>>
    BY <1>11, <1>14, <1>15, <2>2
  <2>4. ASSUME NEW d \in 1..n, d # n PROVE b[d] = a[d + 1]
    <3>1. PICK i \in Index : i = After(m, d) /\ i = After(w, d + 1)
      <4>1. d + 1 \in 1..n
        BY <2>4
      <4> QED BY <1>10, <1>14, <2>1, <2>4, <4>1
    <3>2. i # m
      <4>1. Age(m) = 0
        BY <1>1, <1>6, <2>1, Ages
      <4>2. Age(i) = (d + 1) - 1
        <5>1. d + 1 \in 1..BufferSize
          BY <1>9, <2>4
        <5> QED BY <1>1, <1>6, <3>1, <5>1, AgeOfPlace
      <4> QED BY <4>1, <4>2
    <3>3. d + 1 \in 1..n
      BY <2>4
    <3>4. b[d] = UnreadItems(i)' /\ a[d + 1] = UnreadItems(i)
      BY <1>10, <1>11, <3>1, <3>3
    <3> QED BY <1>12, <3>2, <3>4
  <2>5. /\ inflight \in Seq(Entry) /\ Len(a[1]) <= Len(inflight)
        /\ inflight' = Append(SubSeq(inflight, Len(a[1]) + 1, Len(inflight)), entry)
    <3>1. Parts(Entry, n, a) /\ Parts(Entry, n, b)
      BY <1>10, <1>11 DEF Parts
    <3>2. Shifted(Entry, a, b, entry)
      BY <1>8, <2>3, <2>4, <3>1, JoinedShift
    <3> QED BY <1>10, <1>11, <3>2 DEF Shifted
  <2>6. a[1] = UnreadItems(m) /\ Len(a[1]) \in Nat
    BY <1>10, <1>14, <1>15, <2>1
  <2>7. Len(a[1]) > 0 => ~active
    <3>1. Len(a[1]) > 0 => ~IsEmpty(m)
      BY <1>5, <2>6, UnreadTyped
    <3> QED BY <1>3, <1>4, <1>16, <3>1 DEF RowHasData
  <2>8. Len(a[1]) \in 0..Len(inflight)
    BY <2>5, <2>6
  <2> QED BY <1>2, <1>4, <1>7, <2>5, <2>7, <2>8 DEF Contract!Write
<1>17. CASE ~BeginsRow
  <2>1. m = w /\ Store'[m].Start = Store[m].Start /\ Store[m].End = e
    BY <1>1, <1>3, <1>17 DEF RowToWrite
  <2>2. UnreadItems(w)' = Append(UnreadItems(w), entry)
    <3>1. PICK s \in Nat, k \in Nat : s = Store[w].Start /\ k = e - s /\ s <= e
      BY <1>6, <2>1, RingSize
    <3>2. PICK old, new, c : old = Store[w].Data /\ new = Store'[w].Data /\ c = cycle + Latency
      OBVIOUS
    <3>3. ReadCycle(w) = c
      BY <1>1, <1>17, <3>2 DEF ReadCycle, BeginsRow
    <3>4. UnreadItems(w) = [l \in 1..k |-> [item |-> old[s + l - 1], due |-> c]]
      BY <2>1, <3>1, <3>2, <3>3 DEF UnreadItems
    <3>5. UnreadItems(w)' = [l \in 1..k + 1 |-> [item |-> new[s + l - 1], due |-> c]]
      <4>1. Store'[m].End = e + 1 /\ Store'[m].Start = s
        BY <1>3, <1>17, <2>1, <3>1
      <4>2. Store'[w].End = e + 1 /\ Store'[w].Start = s
        BY <2>1, <4>1
      <4>3. e \in Int /\ e + 1 - s = k + 1
        BY <3>1, RingSize
      <4> QED BY <1>13, <2>1, <3>2, <4>2, <4>3 DEF UnreadItems
    <3>6. \A l \in 1..k : s + l - 1 \in Slot \ {e} /\ s + (k + 1) - 1 = e
      BY <3>1, RingSize, SMTT(30)
    <3>7. \A l \in 1..k : new[s + l - 1] = old[s + l - 1]
      BY <1>3, <1>17, <2>1, <3>2, <3>6
    <3>8. new[s + (k + 1) - 1] = x
      <4>1. s + (k + 1) - 1 = e
        BY <3>1, RingSize
      <4> QED BY <1>2, <1>3, <2>1, <3>2, <4>1
    <3> DEFINE u == [l \in 1..k |-> [item |-> old[s + l - 1], due |-> c]]
               v == [l \in 1..k + 1 |-> [item |-> new[s + l - 1], due |-> c]]
    <3>9. u \in Seq(Entry) /\ Len(u) = k
      BY <1>5, <1>6, <2>1, <3>1, <3>4, UnreadTyped
    <3>10. \A l \in 1..k : l \in 1..k + 1 /\ v[l] = u[l]
      BY <3>7
    <3>11. k + 1 \in 1..k + 1 /\ v[k + 1] = entry
      BY <1>2, <3>2, <3>8
    <3>12. v = [l \in 1..k + 1 |-> v[l]]
      OBVIOUS
    <3>13. UnreadItems(w) = u /\ UnreadItems(w)' = v
      BY <3>4, <3>5
    <3> HIDE DEF u, v
    <3>14. Append(u, entry) = [l \in 1..k + 1 |-> IF l = k + 1 THEN entry ELSE u[l]]
      BY <1>8, <3>9, AppendElements
    <3>15. \A l \in 1..k + 1 : v[l] = IF l = k + 1 THEN entry ELSE u[l]
      BY <3>10, <3>11
    <3>16. v = Append(u, entry)
      BY <3>12, <3>14, <3>15
    <3> QED BY <3>13, <3>16
  <2>3. b[n] = Append(a[n], entry)
    BY <1>10, <1>11, <1>14, <1>15, <2>1, <2>2
  <2>4. ASSUME NEW d \in 1..n, d # n PROVE b[d] = a[d]
    <3>1. PICK i \in Index : i = After(w, d)
      BY <1>10
    <3>2. i # w
      <4>1. Age(w) = BufferSize - 1
        BY <1>1, <1>6, Ages
      <4>2. Age(i) = d - 1
        BY <1>1, <1>6, <1>9, <3>1, AgeOfPlace
      <4> QED BY <1>9, <2>4, <4>1, <4>2
    <3> QED BY <1>10, <1>11, <1>12, <2>1, <3>1, <3>2
  <2>5. inflight' = Append(inflight, entry)
    <3>1. Parts(Entry, n, a) /\ Parts(Entry, n, b)
      BY <1>10, <1>11 DEF Parts
    <3>2. FlattenSeq(b) = Append(FlattenSeq(a), entry)
      BY <1>8, <2>3, <2>4, <3>1, JoinedAppend
    <3> QED BY <1>10, <1>11, <3>2
  <2>6. inflight \in Seq(Entry)
    <3>1. PICK f \in [0..n -> Seq(Entry)] : FlattenSeq(a) = f[n]
      BY <1>10, Flattened DEF JoinsToFlat
    <3>2. n \in 0..n
      OBVIOUS
    <3> QED BY <1>10, <3>1, <3>2
  <2>7. SubSeq(inflight, 0 + 1, Len(inflight)) = inflight /\ 0 \in 0..Len(inflight)
    BY <2>6
  <2> QED BY <1>2, <1>4, <1>7, <2>5, <2>7 DEF Contract!Write
<1> QED BY <1>16, <1>17

\* A Clear takes everything out.
LEMMA ClearEmpties ==
    ASSUME Latency >= 1, IInv, Clear
    PROVE  Contract!Clear
<1>1. Store' = [i \in Index |-> EmptyRow] /\ UNCHANGED <<cycle, active, lastRead>>
  BY DEF Clear, flagVars, historyVars
<1>2. StoreInv'
  BY StepClear DEF IInv
<1>3. \A i \in Index : IsEmpty(i)'
  BY <1>1 DEF IsEmpty, EmptyRow
<1>4. inflight' = <<>>
  BY <1>2, <1>3, InflightEmptyAfter DEF NothingUnread
<1> QED BY <1>1, <1>4 DEF Contract!Clear

\* The ring of rows is a first-in first-out channel: what is written comes out in order, the
\* latency and the stalls later, once, and nothing is dropped while somebody reads.
THEOREM KeepsContract ==
    ASSUME Latency >= 1
    PROVE  Spec => PortKeepsContract
<1>1. ASSUME Init PROVE Contract!Init
  <2>1. StoreInv
    BY <1>1, InitInv DEF IInv
  <2>2. \A i \in Index : IsEmpty(i)
    BY <1>1 DEF Init, IsEmpty, EmptyRow
  <2>3. inflight = <<>>
    BY <2>1, <2>2, InflightEmpty DEF NothingUnread
  <2> QED BY <1>1, <2>3 DEF Init, Contract!Init
<1>2. ASSUME IInv, [Next]_vars PROVE [Contract!Next]_(Contract!contractVars)
  <2>1. ASSUME UNCHANGED <<Store, WriteIndex, cycle, active, lastRead>>
        PROVE  UNCHANGED Contract!contractVars
    BY <2>1, InflightKept DEF Contract!contractVars
  <2>2. CASE active /\ Read
    BY <1>2, <2>2, ReadTakesFirst DEF Contract!Next
  <2>3. CASE Write
    BY <1>2, <2>3, WritePutsLast DEF Contract!Next
  <2>4. CASE Stall
    BY <1>2, <2>4, StallDelays DEF Contract!Next
  <2>5. CASE Clear
    BY <1>2, <2>5, ClearEmpties DEF Contract!Next
  <2>6. CASE Deactivate
    <3>1. active' = FALSE /\ UNCHANGED <<Store, WriteIndex, cycle, lastRead>>
      BY <2>6 DEF Deactivate, ringVars, historyVars
    <3>2. Contract!Deactivate
      BY <3>1, InflightKept DEF Contract!Deactivate
    <3> QED BY <3>2 DEF Contract!Next
  <2>7. CASE Tick
    <3>1. cycle' = cycle + 1 /\ UNCHANGED <<Store, WriteIndex, active, lastRead>>
      BY <2>7 DEF Tick, ringVars, flagVars, historyVars
    <3>2. Contract!Tick
      BY <3>1, InflightKept DEF Contract!Tick
    <3> QED BY <3>2 DEF Contract!Next
  <2>8. CASE ReadAsserts \/ WriteAsserts
    <3>1. \E what : Fails(what)
      BY <2>8 DEF ReadAsserts, WriteAsserts
    <3> QED BY <2>1, <3>1 DEF Fails, ringVars, flagVars, historyVars
  <2>9. CASE (\E t \in BOOLEAN : SetStalled(t)) \/ PeekReset \/ PeekNext
    <3>1. UNCHANGED <<Store, WriteIndex, cycle, active, lastRead>>
      BY <2>9 DEF SetStalled, PeekReset, PeekNext, ringVars, flagVars, historyVars
    <3> QED BY <2>1, <3>1
  <2>10. CASE UNCHANGED vars
    BY <2>1, <2>10 DEF vars, ringVars, flagVars, historyVars
  <2> QED BY <1>2, <2>2, <2>3, <2>4, <2>5, <2>6, <2>7, <2>8, <2>9, <2>10 DEF Next, Done
<1> QED BY <1>1, <1>2, Inductive, PTL DEF Spec, PortKeepsContract, Contract!Spec
=============================================================================
