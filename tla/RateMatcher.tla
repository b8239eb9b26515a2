---------------------------- MODULE RateMatcher ----------------------------
(***************************************************************************)
(* A pair of rate matchers (rate_matcher.h): a port between two clock      *)
(* domains, and the two threads of the clock server that use it.           *)
(*                                                                         *)
(* The writer fills internalBuffer in its own cycles; the write matcher,   *)
(* clocked with the reader's frequency after the modules and by the thread *)
(* of the writer, moves it into the port.  The port is a queue of items,   *)
(* each with the cycle of its row (PortBuffer is the buffer behind it and  *)
(* PortKeepsContract says that it is a queue).  A thread may be lookahead  *)
(* base cycles ahead of the other (ClockContract).  Items are numbered.    *)
(***************************************************************************)
EXTENDS Integers, Sequences, FiniteSets

CONSTANTS
    Configs,      \* the configurations considered (Config)
    MaxTime,      \* bound on the base cycles
    MaxItems      \* bound on the items

Config == [Latency : Nat, Bandwidth : Nat \ {0},
           wPeriod : Nat \ {0}, rPeriod : Nat \ {0},  \* of the two clocks, in base cycles
           threaded : BOOLEAN,            \* do writer and reader have threads of their own?
           lookahead : Nat,
           zeroLatencyBypass : BOOLEAN]   \* SetFastWrite

ASSUME RateMatcherConstants ==
    /\ Configs \subseteq Config /\ MaxTime \in Nat /\ MaxItems \in Nat
    /\ \A f \in Configs : /\ f.zeroLatencyBypass => f.Latency = 0
                          /\ f.threaded \/ f.lookahead = 0

VARIABLES
    cf,               \* the configuration
    \* the writer's thread
    wTime,            \* base cycle it is at
    wPc,              \* "module" (the writer), "matcher", or "moving": in Clock, with the mutex
    internalBuffer, nextReaderCycle,
    \* the port
    queue,            \* [item, at, row, first]: written at a base cycle; first in its row
    lastRow, rowEnd,  \* the row being written, and the items written to it
    CycleRowRead,
    \* the reader's thread
    rTime,
    rPc,              \* "idle", or "read": in Read, with the mutex
    rowDone,          \* what IsEmpty(ReadIndex) has told Read
    failed,           \* the ASSERT or VERIFY that ended the simulation, or "none"
    sent, lastRead    \* history: items written and the item read last

writerVars == <<wTime, wPc, internalBuffer, nextReaderCycle>>
portVars   == <<queue, lastRow, rowEnd, CycleRowRead>>
readerVars == <<rTime, rPc, rowDone>>
vars == <<cf, writerVars, portVars, readerVars, failed, sent, lastRead>>

BufferRows == cf.Latency + 4   \* Latency + 1 + BUFFER_STORAGE_LOOKAHEAD

Init ==
    /\ cf \in Configs
    /\ wTime = 0 /\ wPc = "module" /\ internalBuffer = <<>> /\ nextReaderCycle = 0
    /\ queue = <<>> /\ lastRow = -1 /\ rowEnd = 0 /\ CycleRowRead = -1
    /\ rTime = 0 /\ rPc = "idle" /\ rowDone = FALSE
    /\ failed = "none" /\ sent = 0 /\ lastRead = 0

\* May a thread work at time t, if the other is at time u?
InWindow(t, u) == t <= MaxTime /\ t <= u + cf.lookahead

WriterMayRun == failed = "none" /\ InWindow(wTime, rTime)

\* In a sequential simulation the modules are clocked before the matchers, and
\* the writer before the reader if what it writes is to be read in the same cycle.
ReaderMayRun ==
    /\ failed = "none" /\ InWindow(rTime, wTime)
    /\ cf.threaded \/ wPc = "matcher" \/ (wPc = "module" /\ ~cf.zeroLatencyBypass)

MatcherMayRun == WriterMayRun /\ wPc = "matcher" /\ (cf.threaded \/ rTime > wTime)

WriterDue == wPc = "module" /\ wTime % cf.wPeriod = 0
ReaderDue == rTime % cf.rPeriod = 0
\* Mutant: the matcher is given the cycle after its own.
MatcherCycleNext == wTime \div cf.rPeriod + 1

MatcherCycle == wTime \div cf.rPeriod
ReaderCycle  == rTime \div cf.rPeriod

-----------------------------------------------------------------------------
(* WritePort::Write of an item *)

BeginsRow(cycle) == lastRow # cycle
RowsUsed == Cardinality({queue[i].row : i \in DOMAIN queue})

PortFails(cycle) ==
    CASE BeginsRow(cycle) /\ lastRow > cycle -> "time"
      [] BeginsRow(cycle) /\ RowsUsed = BufferRows -> "row has data"
      [] ~BeginsRow(cycle) /\ rowEnd >= cf.Bandwidth -> "bandwidth"
      [] OTHER -> "none"

\* Read has moved its index past the row that is still being written.
Passed(cycle) == ~BeginsRow(cycle) /\ queue = <<>> /\ rPc = "idle"

PortWrite(d, cycle) ==
    /\ failed' = PortFails(cycle)
    /\ queue' = IF Passed(cycle) THEN queue
                ELSE Append(queue, [item |-> d.item, at |-> d.at, row |-> cycle,
                                    first |-> BeginsRow(cycle)])
    /\ lastRow' = cycle
    /\ rowEnd' = IF BeginsRow(cycle) THEN 1 ELSE rowEnd + 1
    /\ UNCHANGED CycleRowRead

-----------------------------------------------------------------------------
(* The writer's thread *)

\* Mutant: one item more fits.
CanWriteMore == Len(internalBuffer) <= cf.Bandwidth

CanWrite == Len(internalBuffer) < cf.Bandwidth

\* With the bypass the item goes to the port at once, and without the mutex.
Write ==
    LET d == [item |-> sent + 1, at |-> wTime]
    IN  /\ WriterMayRun /\ WriterDue /\ CanWrite /\ sent < MaxItems
        /\ internalBuffer' = Append(internalBuffer, d)
        /\ sent' = sent + 1
        /\ \/ cf.zeroLatencyBypass /\ PortWrite(d, nextReaderCycle)
           \/ ~cf.zeroLatencyBypass /\ UNCHANGED <<portVars, failed>>
        /\ UNCHANGED <<cf, wTime, wPc, nextReaderCycle, readerVars, lastRead>>

\* A writer that does not ask CanWrite first is stopped.
WriteWhenFull ==
    /\ WriterMayRun /\ WriterDue /\ ~CanWrite /\ sent < MaxItems
    /\ failed' = "full"
    /\ UNCHANGED <<cf, writerVars, portVars, readerVars, sent, lastRead>>

\* The writer has been clocked, if it was due; then the matcher is, if it is.
ModuleDone ==
    /\ WriterMayRun /\ wPc = "module"
    /\ wPc' = "matcher"
    /\ UNCHANGED <<cf, wTime, internalBuffer, nextReaderCycle, portVars, readerVars, failed,
                   sent, lastRead>>

MatcherNotDue ==
    /\ MatcherMayRun /\ wTime % cf.rPeriod # 0
    /\ wTime' = wTime + 1 /\ wPc' = "module"
    /\ UNCHANGED <<cf, internalBuffer, nextReaderCycle, portVars, readerVars, failed, sent,
                   lastRead>>

\* Clock: the lock, a step for every item, and the unlock.
ClockBegin ==
    /\ MatcherMayRun /\ wTime % cf.rPeriod = 0
    /\ rPc # "read"
    /\ wPc' = "moving"
    /\ UNCHANGED <<cf, wTime, internalBuffer, nextReaderCycle, portVars, readerVars, failed,
                   sent, lastRead>>

Move ==
    /\ WriterMayRun /\ wPc = "moving" /\ internalBuffer # <<>>
    /\ internalBuffer' = Tail(internalBuffer)
    /\ \/ cf.zeroLatencyBypass /\ UNCHANGED <<portVars, failed>>
       \/ ~cf.zeroLatencyBypass /\ PortWrite(Head(internalBuffer), MatcherCycle)
    /\ UNCHANGED <<cf, wTime, wPc, nextReaderCycle, readerVars, sent, lastRead>>

CycleAfter == MatcherCycle + 1

ClockEnd ==
    /\ WriterMayRun /\ wPc = "moving" /\ internalBuffer = <<>>
    /\ nextReaderCycle' = CycleAfter
    /\ wTime' = wTime + 1 /\ wPc' = "module"
    /\ UNCHANGED <<cf, internalBuffer, portVars, readerVars, failed, sent, lastRead>>

-----------------------------------------------------------------------------
(* The reader's thread: it reads all it can, in every cycle *)

Readable ==
    /\ queue # <<>>
    /\ ~(Head(queue).first /\ CycleRowRead = ReaderCycle)
    /\ Head(queue).row + cf.Latency <= ReaderCycle

\* Mutant: Read does not take the mutex.
ReadMayLockAny == TRUE

ReadMayLock == wPc # "moving"

\* Read up to its last test, whether the row is empty now ...
ReadBegin ==
    /\ ReaderMayRun /\ ReaderDue /\ rPc = "idle" /\ Readable /\ ReadMayLock
    /\ \/ /\ Head(queue).row + cf.Latency # ReaderCycle
          /\ failed' = "wrong cycle"
          /\ UNCHANGED <<rPc, rowDone, queue, CycleRowRead, lastRead>>
       \/ /\ Head(queue).row + cf.Latency = ReaderCycle
          /\ rPc' = "read"
          /\ rowDone' = (Len(queue) = 1 \/ queue[2].first)
          /\ queue' = Tail(queue)
          /\ CycleRowRead' = IF Head(queue).first THEN ReaderCycle ELSE CycleRowRead
          /\ lastRead' = Head(queue).item
          /\ UNCHANGED failed
    /\ UNCHANGED <<cf, writerVars, lastRow, rowEnd, rTime, sent>>

\* ... and then it moves to the next row, past what has come to this one since.
ReadEnd ==
    /\ failed = "none" /\ rPc = "read"
    /\ rPc' = "idle"
    /\ rowDone' = FALSE
    /\ \E k \in 0..Len(queue) :
          /\ rowDone => /\ \A i \in 1..k : queue[i].row = CycleRowRead - cf.Latency
                        /\ k < Len(queue) => queue[k + 1].row # CycleRowRead - cf.Latency
          /\ ~rowDone => k = 0
          /\ queue' = SubSeq(queue, k + 1, Len(queue))
    /\ UNCHANGED <<cf, writerVars, lastRow, rowEnd, CycleRowRead, rTime, failed, sent, lastRead>>

ReaderDone ==
    /\ ReaderMayRun /\ rPc = "idle" /\ (ReaderDue => ~Readable)
    /\ ReaderDue => ReadMayLock      \* the Read that returned FALSE
    /\ rTime' = rTime + 1
    /\ UNCHANGED <<cf, writerVars, portVars, rPc, rowDone, failed, sent, lastRead>>

\* The simulation has been aborted or has run its cycles.
Done == (failed # "none" \/ (wTime > MaxTime /\ rTime > MaxTime)) /\ UNCHANGED vars

Next ==
    \/ Write \/ WriteWhenFull \/ ModuleDone \/ MatcherNotDue \/ ClockBegin \/ Move \/ ClockEnd
    \/ ReadBegin \/ ReadEnd \/ ReaderDone \/ Done

Spec == Init /\ [][Next]_vars

-----------------------------------------------------------------------------
(* Properties *)

TypeOK ==
    /\ cf \in Configs /\ {wTime, rTime} \subseteq 0..MaxTime + 1
    /\ wPc \in {"module", "matcher", "moving"} /\ rPc \in {"idle", "read"} /\ rowDone \in BOOLEAN
    /\ Len(internalBuffer) <= cf.Bandwidth /\ nextReaderCycle \in Nat
    /\ {lastRow, CycleRowRead} \subseteq Int /\ rowEnd \in Nat /\ {sent, lastRead} \subseteq 0..MaxItems

\* The configurations in which the matchers can work: an item is not due before
\* the slower of the two threads is past it ("The rate matcher must be clocked
\* after the writer module and at the reader frequency"), and the rows suffice
\* for what the writer's thread does ahead of the reader's.
Sound ==
    \/ cf.Latency >= 1 /\ cf.lookahead < cf.Latency * cf.rPeriod /\ cf.lookahead < 4 * cf.rPeriod
    \/ cf.zeroLatencyBypass /\ ~cf.threaded

\* In those the port's ASSERTs (row still has data, bandwidth exceeded, read in
\* the wrong cycle) never fire, however the threads drift: only a writer that
\* does not ask CanWrite is stopped.
SoundConfigsDoNotFail == TypeOK /\ (Sound => failed \in {"none", "full"})

\* The first reader cycle at or after a base cycle.
CycleFor(t) == (t + cf.rPeriod - 1) \div cf.rPeriod

\* And in those a threaded simulation times every item as a sequential one
\* does: it is read, after the item before it, the latency after the first
\* reader cycle that does not precede its write.
DeliveredOnTime ==
    [][Sound /\ lastRead' # lastRead =>
          /\ lastRead' = lastRead + 1
          /\ ReaderCycle = CycleFor(Head(queue).at) + cf.Latency]_vars

\* "Make sure to have the lock when accessing the port": because Clock and Read
\* lock the port no item is ever passed over, not even in a configuration that
\* is late.  Write does not lock it, so this excludes its bypass with threads.
NothingPassedOver ==
    [][~(cf.zeroLatencyBypass /\ cf.threaded) /\ lastRead' # lastRead =>
          lastRead' = lastRead + 1]_vars
=============================================================================
