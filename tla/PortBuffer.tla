----------------------------- MODULE PortBuffer -----------------------------
(***************************************************************************)
(* BufferStorage of port.h: the ring of rows behind every port, used by a  *)
(* writer and a reader of the same clock, in a sequential simulation.      *)
(*                                                                         *)
(* Row i holds what was written in cycle Store[i].CycleWritten; the items  *)
(* from Start up to End have not been read.  An ASSERT that fails ends the *)
(* simulation; failed says which one it was.  Items are numbered in the    *)
(* order in which they are written, and 0 stands for Dummy.                *)
(***************************************************************************)
EXTENDS Integers, Sequences, SequencesExt

CONSTANTS
    Latency,
    Bandwidth,
    Kinds,          \* the kinds of port considered
    MaxCycle,       \* bound on the cycles
    MaxItems,       \* bound on the items written ...
    ItemBound       \* ... to a port of each kind

ASSUME PortConstants ==
    /\ Latency \in Nat /\ Bandwidth \in Nat \ {0}
    /\ Kinds \subseteq SUBSET {"relaxed", "stall", "peek", "deactivate", "diligent"}
    /\ \A k \in Kinds : "stall" \in k => "relaxed" \in k
    /\ MaxCycle \in Nat /\ MaxItems \in Nat /\ ItemBound \in [Kinds -> 0..MaxItems]

BUFFER_STORAGE_LOOKAHEAD == 3
\* Mutant: one row too few.
BufferSizeShort == Latency + BUFFER_STORAGE_LOOKAHEAD

BufferSize == Latency + 1 + BUFFER_STORAGE_LOOKAHEAD
Index == 0..BufferSize - 1
Slot  == 0..Bandwidth - 1
Dummy == 0
Item  == 1..MaxItems

VARIABLES
    kind,              \* what sort of port this is
    Store,             \* the rows
    ReadIndex, WriteIndex,
    CycleRowRead,      \* cycle in which a row was last begun by the reader
    LastWritten,       \* cycle in which a row was last begun by the writer
    SequentialWrites,  \* rows begun since the last read
    active, stalled,
    PeekReadIndex, PeekStart,
    failed,            \* the ASSERT that failed, or "none"
    cycle,             \* current cycle of the simulation
    stalledIn,         \* last cycle in which Stall(true) was called
    sent,              \* items written so far (history)
    lastRead           \* last item read (history)

ringVars    == <<Store, ReadIndex, WriteIndex>>
statVars    == <<CycleRowRead, LastWritten, SequentialWrites>>
flagVars    == <<active, stalled, stalledIn>>
peekVars    == <<PeekReadIndex, PeekStart>>
historyVars == <<sent, lastRead>>
vars == <<kind, ringVars, statVars, flagVars, peekVars, failed, cycle, historyVars>>

relaxAsserts  == "relaxed" \in kind     \* a skid or stall port, not a ReadPort
Stallable     == "stall" \in kind       \* a stall port: the reader may stall it
Peekable      == "peek" \in kind        \* a PeekPort is connected to the buffer
MayDeactivate == "deactivate" \in kind  \* the endpoints may deactivate it for good
Diligent      == "diligent" \in kind    \* the reader reads all it can in every cycle

-----------------------------------------------------------------------------
EmptyRow == [CycleWritten |-> -1, Start |-> 0, End |-> 0, Data |-> [p \in Slot |-> Dummy]]

IsEmpty(i) == Store[i].Start = Store[i].End

NextIndex(i) == IF i + 1 >= BufferSize THEN 0 ELSE i + 1

\* The rows from i on, in ring order: the d-th after i, and how far j is.
After(i, d) == (i + d) % BufferSize
Distance(i, j) == (j - i) % BufferSize

ReadCycle(i) == Store[i].CycleWritten + Latency

\* CreateStorage.  PeekStart is not initialised; a peek port starts with a
\* PeekReset.
Init ==
    /\ kind \in Kinds
    /\ Store = [i \in Index |-> EmptyRow]
    /\ ReadIndex = 0 /\ WriteIndex = BufferSize - 1
    /\ CycleRowRead = -1 /\ LastWritten = 0 /\ SequentialWrites = 0
    /\ active = TRUE /\ stalled = FALSE /\ stalledIn = -1
    /\ PeekReadIndex = 0
    /\ PeekStart = 0
    /\ failed = "none"
    /\ cycle = 0
    /\ sent = 0 /\ lastRead = 0

Fails(what) ==
    /\ failed' = what
    /\ UNCHANGED <<kind, ringVars, statVars, flagVars, peekVars, cycle, historyVars>>

-----------------------------------------------------------------------------
(* The reader *)

\* Mutant: a row is taken for readable a cycle too late.
ReadableLate ==
    /\ ~IsEmpty(ReadIndex)
    /\ ~(CycleRowRead = cycle /\ Store[ReadIndex].Start = 0)
    /\ ReadCycle(ReadIndex) < cycle

Readable ==
    /\ ~IsEmpty(ReadIndex)
    /\ ~(CycleRowRead = cycle /\ Store[ReadIndex].Start = 0)
    /\ ReadCycle(ReadIndex) <= cycle

ReadInWrongCycle == ~relaxAsserts /\ ReadCycle(ReadIndex) # cycle

IllegalUse == relaxAsserts /\ SequentialWrites = Latency + 1 /\ LastWritten # cycle

\* A Read (or a Look, which changes nothing) that fails one of the ASSERTs.
ReadAsserts ==
    /\ failed = "none" /\ Readable
    /\ \/ ReadInWrongCycle /\ Fails("wrong cycle")
       \/ IllegalUse /\ Fails("illegal use")

\* Mutant: every read moves on to the next row.
ReadAdvances ==
    LET start == Store[ReadIndex].Start
    IN  /\ failed = "none" /\ Readable
        /\ ~ReadInWrongCycle /\ ~IllegalUse
        /\ SequentialWrites' = 0
        /\ lastRead' = Store[ReadIndex].Data[start]
        /\ Store' = [Store EXCEPT ![ReadIndex].Data[start] = Dummy,
                                  ![ReadIndex].Start = start + 1]
        /\ CycleRowRead' = IF start = 0 THEN cycle ELSE CycleRowRead
        /\ active' = TRUE
        /\ ReadIndex' = NextIndex(ReadIndex)
        /\ UNCHANGED <<kind, WriteIndex, LastWritten, stalled, stalledIn, peekVars, failed, cycle,
                       sent>>

Read ==
    LET start == Store[ReadIndex].Start
    IN  /\ failed = "none" /\ Readable
        /\ ~ReadInWrongCycle /\ ~IllegalUse
        /\ SequentialWrites' = 0
        /\ lastRead' = Store[ReadIndex].Data[start]
        /\ Store' = [Store EXCEPT ![ReadIndex].Data[start] = Dummy,
                                  ![ReadIndex].Start = start + 1]
        /\ CycleRowRead' = IF start = 0 THEN cycle ELSE CycleRowRead
        /\ active' = TRUE
        /\ ReadIndex' = IF start + 1 = Store[ReadIndex].End THEN NextIndex(ReadIndex) ELSE ReadIndex
        /\ UNCHANGED <<kind, WriteIndex, LastWritten, stalled, stalledIn, peekVars, failed, cycle,
                       sent>>

\* Mutant: the scan stops before the row being written.
SomethingToReadShort ==
    \E d \in 0..Distance(ReadIndex, WriteIndex) - 1 :
        /\ ~IsEmpty(After(ReadIndex, d))
        /\ \A e \in 0..d - 1 : IsEmpty(After(ReadIndex, e))
        /\ ReadCycle(After(ReadIndex, d)) <= cycle

\* What a skid port's SomethingToRead and ReadRemote look at: the first row
\* with data between ReadIndex and WriteIndex.
SomethingToRead ==
    \E d \in 0..Distance(ReadIndex, WriteIndex) :
        /\ ~IsEmpty(After(ReadIndex, d))
        /\ \A e \in 0..d - 1 : IsEmpty(After(ReadIndex, e))
        /\ ReadCycle(After(ReadIndex, d)) <= cycle

\* Mutant: the delay is applied twice.
StallTwice ==
    /\ failed = "none" /\ Stallable /\ stalledIn # cycle
    /\ stalled' = TRUE /\ stalledIn' = cycle
    /\ Store' = [i \in Index |-> [Store[i] EXCEPT !.CycleWritten = @ + 2]]
    /\ UNCHANGED <<kind, ReadIndex, WriteIndex, statVars, active, peekVars, failed, cycle, historyVars>>

\* Stall(true) also delays everything in the buffer by a cycle; a reader that
\* stalls calls it once per cycle.
Stall ==
    /\ failed = "none" /\ Stallable /\ stalledIn # cycle
    /\ stalled' = TRUE /\ stalledIn' = cycle
    /\ Store' = [i \in Index |-> [Store[i] EXCEPT !.CycleWritten = @ + 1]]
    /\ UNCHANGED <<kind, ReadIndex, WriteIndex, statVars, active, peekVars, failed, cycle, historyVars>>

\* Stall(false) and SetStalled change the flag only; a stall lasts to the end of
\* the cycle.
SetStalled(s) ==
    /\ failed = "none" /\ Stallable /\ stalled # s
    /\ ~s => stalledIn # cycle
    /\ stalled' = s
    /\ UNCHANGED <<kind, ringVars, statVars, active, stalledIn, peekVars, failed, cycle, historyVars>>

\* A deactivated port is one nobody reads again.
Deactivate ==
    /\ failed = "none" /\ MayDeactivate /\ active
    /\ active' = FALSE
    /\ UNCHANGED <<kind, ringVars, statVars, stalled, stalledIn, peekVars, failed, cycle, historyVars>>

Clear ==
    /\ failed = "none"
    /\ Store' = [i \in Index |-> EmptyRow]
    /\ ReadIndex' = 0 /\ WriteIndex' = BufferSize - 1
    /\ PeekReadIndex' = 0
    /\ SequentialWrites' = 0
    /\ UNCHANGED <<kind, CycleRowRead, LastWritten, flagVars, PeekStart, failed, cycle, historyVars>>

-----------------------------------------------------------------------------
(* The writer *)

\* The first write of a cycle begins a new row.
BeginsRow == Store[WriteIndex].CycleWritten # cycle
RowToWrite == IF BeginsRow THEN NextIndex(WriteIndex) ELSE WriteIndex

TimeGoesBack   == BeginsRow /\ Store[WriteIndex].CycleWritten >= cycle
RowHasData     == BeginsRow /\ ~IsEmpty(RowToWrite) /\ active
RowAtBandwidth == ~BeginsRow /\ Store[WriteIndex].End >= Bandwidth

WriteAsserts ==
    /\ failed = "none" /\ sent < ItemBound[kind]
    /\ \/ TimeGoesBack /\ Fails("time")
       \/ ~TimeGoesBack /\ RowHasData /\ Fails("row has data")
       \/ RowAtBandwidth /\ Fails("bandwidth")
       \/ ~TimeGoesBack /\ ~RowHasData /\ ~RowAtBandwidth /\ stalled /\ Fails("stalled")

Write ==
    LET row == IF BeginsRow THEN [Store[RowToWrite] EXCEPT !.CycleWritten = cycle, !.Start = 0, !.End = 0]
                            ELSE Store[RowToWrite]
    IN  /\ failed = "none" /\ sent < ItemBound[kind]
        /\ ~TimeGoesBack /\ ~RowHasData /\ ~RowAtBandwidth /\ ~stalled
        /\ WriteIndex' = RowToWrite
        /\ Store' = [Store EXCEPT ![RowToWrite] =
                        [row EXCEPT !.Data[row.End] = sent + 1, !.End = @ + 1]]
        /\ LastWritten' = IF BeginsRow THEN cycle ELSE LastWritten
        /\ SequentialWrites' = IF BeginsRow THEN SequentialWrites + 1 ELSE SequentialWrites
        /\ sent' = sent + 1
        /\ UNCHANGED <<kind, ReadIndex, CycleRowRead, flagVars, peekVars, failed, cycle, lastRead>>

-----------------------------------------------------------------------------
(* The peek port *)

PeekReset ==
    /\ failed = "none" /\ Peekable
    /\ PeekReadIndex' = ReadIndex /\ PeekStart' = 0
    /\ UNCHANGED <<kind, ringVars, statVars, flagVars, failed, cycle, historyVars>>

\* Bound: a PeekStart that has missed its End only grows.
PeekBound == Bandwidth

\* The loop moves on from a row that has been peeked to its End, up to the row
\* being written.
PeekSkips(d) ==
    /\ d < Distance(PeekReadIndex, WriteIndex)
    /\ Store[After(PeekReadIndex, d)].End = (IF d = 0 THEN PeekStart ELSE 0)

PeekStops(d) == ~PeekSkips(d) /\ \A e \in 0..d - 1 : PeekSkips(e)

PeekNext ==
    \E d \in 0..Distance(PeekReadIndex, WriteIndex) :
        LET i     == After(PeekReadIndex, d)
            start == IF d = 0 THEN PeekStart ELSE 0
            found == start # Store[i].End /\ ReadCycle(i) <= cycle
        IN  /\ failed = "none" /\ Peekable /\ PeekStart <= PeekBound
            /\ PeekStops(d)
            /\ PeekReadIndex' = i
            /\ PeekStart' = IF found THEN start + 1 ELSE start
            \* VERIFYX(data); past the row's slots it reads some other memory
            /\ failed' \in IF ~found THEN {"none"}
                           ELSE IF start \notin Slot THEN {"none", "peek"}
                           ELSE IF Store[i].Data[start] = Dummy THEN {"peek"}
                           ELSE {"none"}
            /\ UNCHANGED <<kind, ringVars, statVars, flagVars, cycle, historyVars>>

-----------------------------------------------------------------------------
\* The clock server moves both endpoints to the next cycle.
Tick ==
    /\ failed = "none" /\ cycle < MaxCycle
    /\ Diligent => ~Readable
    /\ cycle' = cycle + 1
    /\ UNCHANGED <<kind, ringVars, statVars, flagVars, peekVars, failed, historyVars>>

\* The simulation has been aborted or has run its cycles.
Done == (failed # "none" \/ cycle = MaxCycle) /\ UNCHANGED vars

Next ==
    \/ (active /\ (Read \/ ReadAsserts))
    \/ Write \/ WriteAsserts
    \/ Stall \/ (\E s \in BOOLEAN : SetStalled(s))
    \/ Clear \/ Deactivate
    \/ PeekReset \/ PeekNext
    \/ Tick \/ Done

Spec == Init /\ [][Next]_vars
-----------------------------------------------------------------------------
(* Properties *)

\* The types of the buffer's and the endpoints' variables.
TypeOK ==
    /\ kind \in Kinds
    /\ \A i \in Index : /\ Store[i].CycleWritten \in Int
                        /\ Store[i].Start \in 0..Bandwidth /\ Store[i].End \in 0..Bandwidth
                        /\ Store[i].Data \in [Slot -> 0..MaxItems]
    /\ ReadIndex \in Index /\ WriteIndex \in Index /\ PeekReadIndex \in Index
    /\ CycleRowRead \in -1..MaxCycle /\ LastWritten \in 0..MaxCycle
    /\ SequentialWrites \in Nat /\ PeekStart \in Nat
    /\ active \in BOOLEAN /\ stalled \in BOOLEAN /\ stalledIn \in -1..MaxCycle
    /\ failed \in {"none", "wrong cycle", "illegal use", "time", "row has data",
                   "bandwidth", "stalled", "peek"}
    /\ cycle \in 0..MaxCycle
    /\ sent \in 0..MaxItems /\ lastRead \in 0..MaxItems

\* "the assumption here is that ReadIndex always points to the correct spot,
\* even at start up" (Read): if the buffer holds an item, the oldest row with
\* data is the one at ReadIndex, so that nothing is passed over.
ReadIndexOnOldest ==
    active => \A i \in Index : ~IsEmpty(i) =>
                /\ ~IsEmpty(ReadIndex)
                /\ Store[ReadIndex].CycleWritten <= Store[i].CycleWritten
                /\ Store[ReadIndex].Data[Store[ReadIndex].Start] <= Store[i].Data[Store[i].Start]

\* The writer runs into unread data only if the reader has left an item
\* behind for more than BUFFER_STORAGE_LOOKAHEAD cycles after it was due.
OverrunMeansLateReader ==
    failed = "row has data" =>
        \E i \in Index : ~IsEmpty(i) /\ ReadCycle(i) + BUFFER_STORAGE_LOOKAHEAD < cycle

\* A reader that reads all it can in every cycle is never told that it read in
\* the wrong cycle, and never lets the writer run into unread data.
DiligentReaderIsSafe ==
    TypeOK /\ (Diligent => failed \notin {"wrong cycle", "row has data"})

\* ReadRemote polls SomethingToRead and then calls Read: in a cycle in which no
\* row has been begun, the two agree.
PollAgreesWithRead ==
    active => /\ Readable => SomethingToRead
              /\ SomethingToRead /\ CycleRowRead # cycle => Readable

-----------------------------------------------------------------------------
(* Refinement *)

\* The unread items of a row, and of all rows from the oldest to the newest.
UnreadItems(i) == [k \in 1..Store[i].End - Store[i].Start |->
                     [item |-> Store[i].Data[Store[i].Start + k - 1], due |-> ReadCycle(i)]]
inflight == FlattenSeq([d \in 1..BufferSize |-> UnreadItems(After(WriteIndex, d))])

Contract == INSTANCE PortContract

\* The ring of rows is a first-in first-out channel with a fixed latency: no
\* item is lost, read twice, overtaken or read early, whatever the endpoints
\* do, unless an ASSERT ends the simulation.
PortKeepsContract == Contract!Spec
=============================================================================
