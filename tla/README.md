# A TLA+ model of the Asim core library

Asim is a framework for building performance models of processors. A model is a
set of modules that are clocked; modules talk to each other through ports that
have a bandwidth and a latency. The core library (`src/lib/libasim`) supplies the
clock server that calls the modules, the ports and rate matchers that carry their
data, and the containers, caches, memory pools and tracing they use.

The models here cover the parts of the library on which the correctness of every
simulation rests: **who is clocked, when and how often** (the clock server in its
sequential version and in all four threaded ones), **what a port delivers** (the ring
of rows behind every port, and the rate matchers between two clock domains), **who
owns an object** (the reference counted memory pools), and **which line a cache
holds** (lookup, warming and replacement).

Contents: [inventory](#inventory), [modules](#modules-and-the-code-they-model),
[runs](#runs), [bounds](#bounds), [fairness](#fairness), [proofs](#proofs),
[where the code and its comments disagree](#where-the-code-and-its-comments-disagree),
[limits](#limits-of-the-guarantees), [not modelled](#what-is-not-modelled),
[plan](#plan).

To check a run: `tlc -workers 2 -config fuzzy.cfg MCFuzzyClockServer`. To check
the proofs of a component: `tlapm FuzzyClockServer_proofs.tla`.

## Inventory

### Clock server (`clockserver.h`, `clockserver.cpp`)

State: a list of clock *domains*, each with a list of allowed frequencies and a
current one; per domain a list of clock *registries*, one for each skew, with its
modules, its writer rate matchers, its period (`nStep`), the base cycle at which it
is due (`nBaseCycle`) and the cycles it has completed (`nCycle`); a list of time
events ordered by `nBaseCycle`; a reference clock; the threads.

Operations: `NewClockDomain`, `RegisterClock`, `RegisterRateMatcherWriter`,
`SetReferenceClockDomain`, `SetRandomClockingSeed`, `InitClockServer`, `Clock`
(which goes to `UniqueDomainClock`, `RandomClock` or `ThreadedClock`),
`SetDomainFrequency`, `StopClockServer`, `UnregisterAll`.

`ThreadedClock` has four implementations, one of which is linked into a model:

| implementation | how it synchronises |
|---|---|
| basic (`clockserver_threaded_basic.cpp`) | task lists and a barrier for each base cycle |
| fuzzy (`clockserver_threaded_fuzzy.cpp`) | workers may run ahead up to a lookahead; event list under a lock |
| lock-free (`clockserver_threaded_lockfree.cpp`, `time_events_ring.h`) | as fuzzy, with a ring of event instances read without a lock |
| dynamic (`clockserver_threaded_dynamic.cpp`) | work queues, schedulers that skip work that is not ready |

What makes it correct: each callback is called exactly once for each cycle of its
registry, in order and with the number of that cycle; registries complete their
cycles in the order of time; writer rate matchers run after all modules of the same
base cycle; no thread is ahead of another by more than the lookahead; domains keep
the ratio of their frequencies; `Clock()` and `StopClockServer()` return.

What is hard: modules change frequencies in the middle of a cycle, while other
threads read the same registries; workers read published times and ring indices
without a lock; a thread object is used before its constructor or its start code has
set all its members; the server is one static object that is initialised again for
every simulation in a process; frequencies become integers by rounding, truncation,
and a least common multiple in 64 bits.

### Ports (`port.h`, `port.cpp`)

State: `BufferStorage`, a ring of rows, one for each cycle in which something was
written, with a read index, a write index and a peek index, and counters that the
ASSERTs use. Operations: `Write`, `Read`, `Look`, `SomethingToRead`, `Stall`,
`Delay`, `Clear`, `Deactivate`, `PeekReset`, `PeekNext`; connection by name at
configuration time. Read ports must be read in the very cycle an item arrives; skid
ports may be read later; stall ports can be delayed by the reader.

What makes it correct: items arrive in order, once, and `Latency` cycles after they
were written; an ASSERT fires only for a misuse by an endpoint. What is hard: the
wrap-around of the ring against a late reader, rows that are read in parts, rows
that a stall moves in time, and a peek index that nobody moves when rows are
drained.

### Rate matchers (`rate_matcher.h`)

A writer in one clock domain fills an internal buffer; the clock server moves it
into the port at the reader's clock. With latency 0 the writer may write into the port
directly, in a cycle number it predicts. State shared by two threads: the port, under
a mutex that the direct write does not take.

What makes it correct: items arrive in order, at the reader's cycle a sequential
simulation gives them. What is hard: the two threads drift apart by the lookahead, so
that the rows, the latency and the internal buffer must absorb the drift.

### Memory pools (`mm.h`, `mmptr.h`, `freelist.h`)

State: per class of objects a free list for each thread (a lock-free stack of objects
whose head carries a transaction number), the number of objects allocated and allowed,
and in each object its reference count and its link. Operations: `new` (pop from the
own list, then steal from those of the others, then allocate), `PreAllocateMemory`,
copying and dropping an `mmptr`, `SetMaxObjs`.

What makes it correct: an object is on one list, in the hands of one thread, or in use,
and in use exactly as long as someone has a reference; `new` fails only when all objects
are in use. What is hard: every access is a step of its own among those of other
threads, and heads come back to values they had before (ABA).

### Caches (`cache.h`, `cache_manager.h`, `cache_manager_smp.h`)

State: per set the tags and states of its ways and the replacement information (a
hand-linked list from the most to the least recently used way, the bits of the EV7
scheme, or the bits of pseudo LRU trees); a manager that knows which cache of a level
holds a line. Operations: `GetLineState` and the `FindWay` under it, which turns a cold
miss into a hit by chance ("warm" lines), `WarmUpFill`, `SetStatus`, `GetVictim`,
`MakeMRU`, `MakeLRU`, `ClearAllLines`, and the manager's `Deactivate` and
`setClearLines`.

What makes it correct: a line is in a cache at most once, in one cache of a level at
most (the manager's purpose), and a victim is a way that is not reserved. What is hard:
clients may call the operations in any order, and tags stay behind in invalid and
reserved ways.

### The controller and the system (`controller/classic`, `single_chip_clockserver_system.cpp`)

State: the controller's work list of commands, the schedule (six lists of actions that
wait for a cycle, a nanosecond, a number of instructions, macro instructions or packets,
or the occurrence of an SSC mark), the flags `pmStopped`, `pmExiting` and `sysBreak`, and
the counters of the system. Operations: the `CMD_...` functions, which add a command and
break the execution; `CMD_SchedulerLoop`, which schedules the commands, performs the
actions that are due, informs the workbench and has the system execute up to the next
action; `SYS_Execute`, which calls `Clock()` of the clock server until then.

What makes it correct: actions happen at their time, periodic ones at every multiple of
their period; starting, stopping and exiting take effect in the order they were told.
What is hard: commands come from the command line, from the workbench in the middle of
the loop and from the model inside `Clock()`; a flag that breaks the execution is set
and cleared at different places; the tests of what is due and of when to stop are written
twice, for each kind of counter.

### The rest

Containers, events and traces, statistics, the DRAL event library, the graphical
toolkit. See [what is not modelled](#what-is-not-modelled).

## Modules and the code they model

| module | models | refines |
|---|---|---|
| `ClockContract` | what every clock server promises (abstract) | |
| `ClockServer` | `clockserver.cpp` without worker threads | `ClockContract`, lookahead 0 |
| `ClockServer_proofs` | the theorems about it and about `BaseFrequency` | |
| `FuzzyClockServer` | `clockserver_threaded_fuzzy.cpp`, thread life cycle, `SetDomainFrequency` | `ClockContract` |
| `FuzzyClockServer_proofs` | the theorems about it and about `BasicClockServer` | |
| `TimeEventsRing` | `time_events_ring.h` and the server's side of it | |
| `LockFreeClockServer` | `clockserver_threaded_lockfree.cpp`, on `TimeEventsRing` | |
| `LockFreeClockServer_proofs` | the theorems about it, and one about `DynamicClockServer` | |
| `DynamicClockServer` | `clockserver_threaded_dynamic.cpp`, on `TimeEventsRing` | `ClockContract` |
| `BasicClockServer` | `clockserver_threaded_basic.cpp` | `ClockContract`, lookahead 0 |
| `BaseFrequency` | `gcd`, `lcm` and the fold in `InitClockServer`, as functions | |
| `PortContract` | what every port promises (abstract) | |
| `PortBuffer` | `BufferStorage` and the port classes that use it | `PortContract` |
| `PortBuffer_proofs` | the theorems about it | |
| `RateMatcher` | `rate_matcher.h`, a port and two threads of a clock server | |
| `RateMatcher_proofs` | the theorems about it | |
| `MemoryPool` | `mm.h`, `mmptr.h`, `freelist.h` | |
| `MemoryPool_proofs` | the theorems about it | |
| `ReplacementPolicy` | the replacement policies of `cache.h`, as operators | |
| `GenCache` | `gen_cache_class` and `CACHE_MANAGER`, on `ReplacementPolicy` | |
| `GenCache_proofs` | the theorems about it | |
| `Controller` | `control.cpp`, `schedule.cpp` and `SYS_Execute` | |
| `Controller_proofs` | the theorems about it | |
| `MC...` | the instances that TLC checks | |

**ClockContract.** A registry is due at `nBaseCycle` and has completed `nCycle`
cycles; `calls` counts the calls of each callback. `Call(c)` calls a callback for the
cycle its registry has not completed; `Tick(t)` completes the cycle of all registries
due at `t`, which must be the earliest, once their callbacks have all been called;
`Restart` begins again.

**ClockServer.** One action per operation of the configuration, and the three loops
split wherever a module runs: every callback is a step (`RunCallback`), after which a
module may call `SetDomainFrequency`. `ClockBegin`, `NextEvent`, `BeginWriters` and
`ReaddEvent` are the two loops of `Clock`; the `Unique...` actions are
`UniqueDomainClock`; `RandomClock` is `Clock` with any order of the callbacks of a
registry. `AddTimeEvent` is the sorted insertion of the code. Frequencies are floats
in the code: here they are hundredths of the normalised unit, so that the difference
between the rounding in `NewClockDomain` and the truncation in `SetDomainFrequency` is
kept. Which domains exist is up to the configuration actions, so that one instance
covers programs with one domain and with two.

In the refinement mapping the registries one `Clock()` has put back into the list
already count as completed only when the last of them is, because the contract
completes all registries of one time together.

**FuzzyClockServer.** The server thread (`CreatePthread`, `ClockBegin`, `ClockEnd`,
`StopClockServer`, `DestroyPthread`, `InitClockServer`) and, per worker, the steps of
`ThreadWork`: publish `threadActive`, initialise `localDoneTime`, wait for
`GlobalReadyTime`, search for an event under the lock, call callbacks, publish the
finished time. `SetDomainFrequency` updates the registries of a domain one by one,
without a lock, as the code does. The event list is represented by `nBaseCycle`
itself, since its order is that of `nBaseCycle` (`ClockServer` models the list).

**TimeEventsRing.** The ring with `head`, `limit` and `tail`, the instances of every
registry, and what the server does with them: `AdvanceCycle`, the search for the place
of an event and the elements `insert` moves, each of which is a step. One registry per
domain. It is extended by the two servers that use the ring.

**LockFreeClockServer.** The workers of the ring. Each read of an index by `is_ready`
is a step of its own. `is_ready` is asked in the loop that waits
(`clockserver_threaded_lockfree.cpp:153`), and again, from the first event on, in the loop
that collects (`:173`): `FirstTime` reads the time between the two, `collecting` says in which
of them a worker is, and `Collected` leaves the second with whatever it has found, also with
nothing. A scenario says which frequencies modules may set and whether
the server is initialised a second time.

**DynamicClockServer.** Tasks outnumber pthreads; a pthread that finds no event ready
for its task switches to another. `algorithm` is one of the four schedulers
(`SwitchBySearch` is that of the three which walk the tasks, `SwitchEarliest` and
`SwitchEarliestMaster` those of the task queue), `isWorker` says whether the main thread
works too. A `TaskSwitch` is one step because it holds the scheduler's mutex or takes a
task's with a try-lock. The schedulers that walk the tasks test whether one is ready
before they try its lock; here both are one step. A task that has ceased to be ready in
between would be looked at and left again, as one whose events are all skipped.
`next_event_valid()` has no return statement, so what it yields is nondeterministic
(`skips`). `InitialQueue` is what the constructors of the AlwaysEarliest schedulers put
into the one queue they share: each task once, or twice if the main thread works too. In
the latter case two threads may get one task (`Shared`); what they then do to its
`next_event` is undefined, and the model ends there. `OneThreadPerTask` and what is
promised of calls leave these builds out (`QueuedOnce`, `Sound`).

**BasicClockServer.** The queues, conditions and flags of the workers. A variant
fixes the three compile-time parameters; the two ways of waiting are
`WaitForWork` (a condition) and `SpinForWork`. The loop that pops events tests the
front of the list without asking whether it is empty (`clockserver_threaded_basic.cpp:243`),
as it is when all registries are due at once; the sequential server asks.
`FrontOfEmpty` lets the program fail there, since a build may do either.

**BaseFrequency.** The loop of `gcd`, the overflow test of `lcm` and the fold over the
frequencies, on words of a given width. `ClockServer` extends it and computes its `Bf`
with it.

**PortBuffer.** The ring of rows. `kind` says which port classes are involved (an
ordinary read port, a skid port, a stall port, with or without a peek port), and how
its reader behaves. Items are numbers in the order of writing. A failed ASSERT ends
the simulation, and `failed` says which one it was. Reader and writer share a clock,
as the two ends of a port that is not a rate matcher do.

**RateMatcher.** The threads of writer and reader advance in base cycles of their own,
at most `lookahead` apart. `ClockBegin`, `Move` and `ClockEnd` are the matcher's
`Clock`, and `ReadBegin` and `ReadEnd` the reader's `Read`, split where the other
thread may come in: the mutex keeps two of them apart but not the direct `Write` of a
zero-latency matcher. Without threads the modules of a base cycle are clocked before the
matcher, and the writer before the reader only if the matcher has a bypass, which
needs it. The port is a queue, as `PortBuffer` shows it is, except that `Read`, when it
has emptied the row that is still being written, moves its index past it, so that what is
written to that row later is lost (`Passed`, `ReadEnd`).

**MemoryPool.** One step for each access to a list head, a link or a counter, in the
order of the code. `Observe` maintains the one history variable: whether all lists
have been empty since a thread's `new` began.

**ReplacementPolicy, GenCache.** One index of each cache. What is random in the code
(a victim, the chance of a warm hit) is a set of outcomes. A variant fixes policy,
number of ways, warming and the manager's registration.

**Controller.** A command is its effect on the controller (`START`, `STOP`, `EXIT`, a
progress report, `CLEAR`, or `OTHER`) with its trigger; statistics, traces, threads and
profilers are `OTHER`. `GiveCommand` may happen wherever code of others runs: while the
arguments are parsed, while an action of the schedule that has code of the model to run is
performed (`PerformsForeignCode`), while the workbench is informed, and inside `Clock()`, which
is therefore two steps. A command given in an action comes after the actions that are due with
it, and `lastTold` counts it so (`ToldSince`). `ScheduleItem`, `ClearBreak`, `ProcessEvent`, `EventsDone` and
`InformDone` are the parts of `CMD_SchedulerLoop` in their order, `Clock` and `ExecuteEnd`
those of `SYS_Execute`; `stop` holds its arguments, which are computed once. The clock
server is its environment here: a `Clock()` advances the counters by one of the
scenario's steps. Nothing is concurrent in it, since a clock server's worker threads run
inside `Clock()`; two of them that give commands at once would meet in the unlocked
`ctrlWorkList`, which is not modelled.

The definitions named "Mutant" in comments are wrong variants of the definition that
follows them. They show that a property notices the error: put in place of the right
definition, they make TLC report the property.

## Runs

| run | expects | what it shows |
|---|---|---|
| `fuzzy` | pass, 583 175 states | two threads, three registries in two domains, a frequency that changes from a callback: the fuzzy barrier implements the contract, calls every callback in order, keeps threads within the lookahead, leaves no callback behind, and keeps the inductive invariant used in the proofs |
| `fuzzy_live` | pass, 14 131 | starting, clocking, stopping and starting again all finish |
| `clock` | pass, 63 024 | one or two domains, two skews, a rate matcher, frequency changes in the middle of a cycle, random clocking switched on and off, a second initialisation: all three loops implement the contract; no event is lost or doubled and the list is in order whenever its front is used; writer rate matchers come last; domains do not drift; `Bf` is the least common multiple of all frequencies whenever that fits a word |
| `lockfree` | pass, 946 691 | lookahead longer than the periods, less than half of the ring in use: no ASSERT fires, callbacks are in order and within the lookahead, although instances are renumbered while workers hold them; with frequency changes and a second initialisation workers still never read an element that is being moved, and the server's calls return or end in an ASSERT |
| `basic` | pass, 39 436 | every combination of the compile-time parameters, with frequency changes and a second initialisation: the contract is implemented, queues are filled without their mutex only while no worker is inside its own, and no signal is lost |
| `dynamic` | pass, 712 416 | three tasks for two pthreads and the main thread, all four schedulers: a task has one thread, no task is lost, the contract is implemented, no task starves, stopping ends, and no ASSERT of the ring fires; of builds that skip events the first of these only, and of AlwaysEarliest with a working main thread none |
| `port` | pass, 363 050 | read, skid, stall and peek ports are FIFO channels of fixed latency, whatever the endpoints do; the read index stands on the oldest item; polling and reading agree; the ASSERT about overruns fires only for a late reader |
| `ratematcher` | pass, 201 737 | as long as the lookahead fits latency and rows, no ASSERT fires and every item arrives in the cycle a sequential simulation gives it; nothing is ever passed over, except between a bypass and another thread |
| `pool` | pass, 244 734 | two threads that allocate, share, drop and steal objects: each object is in one place, references are counted, totals stay exact |
| `controller` | pass, 545 882 | the model is never clocked past an action that is due or a command that waits, periodic actions happen once per period, starting and stopping take effect in the order told, and a command to exit ends the program |
| `pool_exhausted` | violation | see [below](#where-the-code-and-its-comments-disagree) |
| `cache` | pass, 159 715 | no line twice in a cache, nor in two caches of a level while the manager is active and forgets none; the list is in order of use; the victim of a policy is a free way, and not the one just used |

### Bounds

Simulated time is unbounded, so every model stops at a bound: `MaxTime` base cycles
(all threaded servers and `RateMatcher`), `MaxCycle` cycles (`ClockServer`,
`PortBuffer`), `MaxItems`/`ItemBound` items (`PortBuffer`), `MaxRestarts`
initialisations. The pools and caches need no such bound: their state is finite.

* `fuzzy`: periods 2 and 4 (or 3), lookahead 1, `MaxTime` 6. The pattern of
  coincidences of the two domains repeats after 4 base cycles (after 6 with period
  3), so each combination of due registries occurs, with a frequency change before and
  after it. Two threads suffice for every interleaving of a worker with the server and
  with another worker: the barrier treats threads alike. The proofs remove this bound.
* `clock`: frequencies 2 and 3 with a change of the latter to 1, skew 50 %,
  `MaxCycle` 3. That covers the common period of the two frequencies. 0.29 is
  among the frequencies because its hundredfold, as a float, is below 29.
  `BaseFrequencyExact` tries all sequences of up to three frequencies up to 12 with words
  of 8 bits, so that many multiples fit and many do not.
* `lockfree`: lookahead 3 with periods 2 and 3, so that every registry has several
  instances in the ring. There are 6 of them, in a ring of 13, the smallest of which
  they are less than half (`RoomToSpare`, the assumption of the theorems), and 14 base
  cycles, so that head, limit and tail all wrap around. A ring of 7 is [not
  enough](#where-the-code-and-its-comments-disagree) (16). With changing frequencies and
  a second initialisation, 2 base cycles: the ASSERT that ends such a run comes early.
* `basic`: two threads, periods 1 and 2 or 3, four base cycles: there are cycles at which
  one worker has nothing to do, and cycles at which both have. The barrier treats workers
  alike, so a third adds no wait of a new kind.
* `dynamic`: three tasks for two pthreads, so that a task has to wait for a pthread;
  periods 2 and 3 coincide within the six base cycles. Lookahead 1 is the
  largest below every period; the 4 instances are less than half of the ring of 9, for which
  `is_ready` is as good as one step (`ComparisonIsAtomic`). Each scheduler runs with the
  main thread serving only; with `ReadyToRun` and `AlwaysEarliest` it also works.
* `port`: latency 1, bandwidth 2, hence a ring of 5 rows; 6 cycles, so that the ring
  wraps around and a late reader is overrun. The stall port gets 3 items: enough for
  a full row, a merged row and one more.

* `ratematcher`: clocks 1:2, 2:3, 3:2 and 2:2 (the ratios of the unit tests and equal
  ones), lookaheads 0 to 2, latency 0 with and without bypass and with one thread or two,
  bandwidth 2, 6 items, 8 base cycles (the pattern of two clocks repeats after 6).
* `pool`: two threads, up to four objects, `mmMaxObjs` 3 at first and set to any number.
  `pool_exhausted` needs three threads, since a thread passes over one list while two
  others act, and two objects.
* `cache`: two caches of two ways under the manager, with one or two tags; one cache of
  three ways by itself, so that a list has a middle; each policy by itself with up to
  eight ways, which covers every depth of the trees up to three and groups of leaves. The
  trees of 12, 16 and 24 leaves are in the proofs only: `VictimIsFree` looks at every set of
  reserved ways, and the states of their nodes are too many.

* `controller`: three commands in any order and at any place, so that two wait while a
  third is given, beyond the start of a run without workbench; counters up to 4, with
  periods 1 and 2, so that an action happens several times. Four scenarios separate the
  kinds that interact: cycles with instructions, nanoseconds with cycles and a marker,
  marks with macro instructions, packets with exits of threads.

Symmetry is used for the objects of `pool` only: their memory is alike, and no
definition picks one. Threads and callbacks of the other runs differ in what they are
assigned to.

### Fairness

`FairSpec` of the four threaded servers states weak fairness of the server's steps and
of each worker's steps, and nothing about the caller: whether `Clock()` or
`StopClockServer()` is called, or a module changes a frequency, is not assumed. That
each thread keeps being scheduled is what the code relies on, and does its part for:
all waiting is done in loops that call `sched_yield`
(`clockserver_threaded_fuzzy.cpp:165`, `:294`) or on a condition that is tested again.
Locks are held for single steps of the models, or are tried and given up, so no strong
fairness is needed. `BasicClockServer` leaves `SpinForWork` out of the fair steps: it is
a worker that spins once more.

`Controller` is fair to the steps of the one thread there is, and assumes nothing about
the commands.

`MemoryPool` has no liveness property because there is none to state: a `Pop` retries
when another has begun in between (`freelist.h:150-161`), so two of them may defeat
each other forever whatever the scheduler does. The other modules are sequential, or
their properties are about what has happened.

The liveness runs bound time too, but no property is about reaching the bound: every
call that has been made must return.

## Proofs

Each component with theorems has a module `..._proofs` that extends it; the basic and the
dynamic server are instances in the modules of the fuzzy and the lock-free one. The theorems
hold for every value of the constants that satisfies the stated assumptions: any sets
of threads, registries, objects or caches, any periods, latencies and bounds. The bounds
of simulated time and of items are constants like others, so these runs are arbitrarily long.

| module | theorem | states |
|---|---|---|
| `FuzzyClockServer_proofs` | `Inductive` | `Spec => []IInv` |
| | `TypeCorrect` | `Spec => []TypeOK` |
| | `WithinLookahead` | `Spec => []ThreadsWithinLookahead` |
| | `LeavesNothingBehind` | `Spec => []NothingLeftBehind` |
| | `IdleFirst` | `Spec => []IdleUntilFirstClock` |
| | `InOrder` | `Spec => CallbacksInOrder` |
| | `Refinement` | `Spec => Contract!Spec` |
| | `BasicInductive` | the basic server: `Spec => []BasicIInv` |
| | `AssignTaskNeedsNoLock` | the basic server: `Spec => []UnlockedAssignIsSafe` |
| | `BasicRefinement` | the basic server: `Spec => Contract!Spec` |
| `ClockServer_proofs` | `BaseFrequencyIsLcm` | `ExactIfRepresentable`: `Bf` is the least common multiple when that fits |
| | `Inductive` | `Spec => []IInv` |
| | `TypeCorrect` | `Spec => []TypeOK` |
| | `BaseFrequencyCorrect` | `Spec => []BaseFrequencyExact` |
| | `RatesMatch` | `Spec => []RatesMatchFrequencies` |
| | `EventsStayComplete` | `Spec => []EventsComplete` |
| | `WritersComeLater` | `Spec => WritersAfterModules` |
| | `Refinement` | `Spec => Contract!Spec` |
| `MemoryPool_proofs` | `Inductive` | `Spec => []IInv` |
| | `OnePlace` | `Spec => []ObjectsInOnePlace` |
| | `CountsAreRight` | `Spec => []ReferencesCounted` |
| | `TotalKept` | `Spec => []TotalIsExact` |
| `PortBuffer_proofs` | `Inductive` | `Spec => []IInv` |
| | `OldestIsRead` | `Spec => []ReadIndexOnOldest` |
| | `OverrunIsLate` | `Spec => []OverrunMeansLateReader` |
| | `DiligenceIsEnough` | `Spec => []DiligentReaderIsSafe` |
| | `PollAndReadAgree` | `Spec => []PollAgreesWithRead` |
| | `KeepsContract` | `Spec => PortKeepsContract` |
| `RateMatcher_proofs` | `Inductive` | `Spec => []IInv` |
| | `NoFailure` | `Spec => []SoundConfigsDoNotFail` |
| | `NoneIsPassedOver` | `Spec => NothingPassedOver` |
| | `AlwaysOnTime` | `Spec => DeliveredOnTime` |
| `GenCache_proofs` | `Inductive` | `Spec => []IInv` |
| | `NoWayTwice` | `Spec => []NoLineTwice` |
| | `NoLineShared` | `Spec => []OneOwner` |
| | `InfoInductive` | `Spec => []InfoInv` |
| | `ListKeepsOrder` | `Spec => []ListIsRecency` |
| | `VictimsAreFree` | `Spec /\ []TablesSuffice(p) => []VictimIsFree` |
| | `VictimsFollowUse` | `Spec /\ []TablesSuffice(p) => VictimFollowsUse` |
| `LockFreeClockServer_proofs` | `TypesKept` | `Spec => []TypeOK` |
| | `ReadsInside` | `Spec => [](FixedPeriods => ReadsInsideWindow)` |
| | `CalledInOrder` | `Spec => CallbacksInOrder` |
| | `ComparisonIsAtomic` | `is_ready` answers as one comparison of `head` and `limit` |
| | `AssertsHold` | no VERIFYX or ASSERT fails without a second initialisation |
| | `TasksAreApart` | the dynamic server: `Spec => []OneThreadPerTask`, where each task is queued once |
| `Controller_proofs` | `Inductive` | `Spec => []IInv` |
| | `OverdueNever` | `Spec => []NothingOverdue` |
| | `OncePerPeriod` | `Spec => []EveryPeriodOnce` |
| | `ClockedAsTold` | `Spec => StoppedAsTold` |

In each module there is one lemma for each action (or for each group of actions that do
the same to the invariant), with one step for each part of the invariant, and lemmas about
the operators and data structures the actions use. Each invariant `IInv` was checked by TLC on the
instance of the component's run before it was proved; none of the properties is inductive
without it, except for `IInv` of the fuzzy server, which is a property of its run.

### The fuzzy barrier

The theorems rest on `FuzzyConstants` (the types of the parameters) and on `SafeParameters`,
which collects what the code relies on without checking it: the server is
initialised once, the memory of a new thread object holds a negative `localDoneTime`,
and every allowed period is longer than the lookahead. Each of the three is needed:
dropping any of them gives a counterexample (below).

That a callback is called once per cycle depends
on what a worker has finished in relation to events that the server is moving at the
same time, so `IInv` has to say:

* `StepInv`: no period is within the lookahead, also one that is being installed;
* `TimeInv`: `GlobalReadyTime` is not past any event, and is that of an event while
  the server waits;
* `StartInv`: a thread that has not initialised `localDoneTime` keeps the barrier
  closed, and until the first `Clock()` nobody has anything to do;
* `DoneInv`: a finished time is within the window, and has reached `GlobalReadyTime`
  unless the server is waiting for it;
* `ReadyInv`: a `GlobalReadyTime` that was read before the lock was taken is stale
  only if the thread had already finished that time (this is the core of the
  argument why the read outside the lock is harmless);
* `CallInv`: the number of calls of a callback is given by its registry's `nCycle`
  and by whether its thread has passed the event.

With `IInv`, a step of the server that advances registries is a `Tick` of the
contract, since `DoneInv` and `CallInv` say that all due callbacks have been called; a
callback is a `Call`, since `ReadyInv` bounds its time; all else is a stutter.
`TypeCorrect` and `IdleFirst` are parts of the argument; no run lists their properties,
which `IInv` contains or implies.

### The barrier of the basic server

The basic server is the instance `B` of `FuzzyClockServer_proofs`: it has the constants and
registries of the fuzzy one, and its definitions there begin with `Basic`. Its assumptions are
hypotheses of the theorems: `BasicConstants`, the types of the parameters and a finite set of
threads, and `SingleSignalOnce`: a server that is to be initialised again does not use the single
signal ([why](#limits-of-the-guarantees)). The proof covers all eight combinations of the
other parameters at once: *signalled* means that the phases differ with the single signal and
that `tasks_completed` is false without it. `BasicIInv` says where every worker is in its life
as far as the server has come in creating or destroying threads (`BasicLifeInv`); that a worker
runs, or has tasks, only while it is signalled, and is signalled only while the server may
wait for it (`BasicSignalInv`); that `BarrierCount` is the number of workers still signalled
(`BasicBarrierInv`); that queues hold callbacks of clocked events only (`BasicEventInv`); and how many
calls each callback has had (`BasicCallInv`). `UnlockedAssignIsSafe` is then immediate, because
nobody is signalled between two clocks; and the last worker to report, or the last insertion
after it, is the contract's `Tick`.

### The base frequency

`BaseFrequencyIsLcm` is about words of any width, any number of frequencies and any order of
them. Since the library's induction theorems are out of reach, each induction is an argument about a
least counterexample (`Least`). `gcd` is a recursive function, and the definition of one says something
only if there is such a function: the greatest common divisor is one, because `a % b` and `b` have the
common divisors of `a` and `b` (`SameDivisors`), so `gcd` obeys its equation (`GcdLoop`). By it,
`gcd` is a common divisor that is a combination of the operands (`IsGcd`), which makes the cofactors
prime to each other. `LcmWorks` then says that `lcm` of two numbers divides each of their common multiples that
fits a word: no product wraps, and the overflow test stays silent (`ProductFits`). So the fold over the
frequencies divides every common multiple of all of them (`BaseFrequencyWorks`).

### The sequential server

Assumption: `ClockServerConstants`. It says that all frequencies have a common multiple that
fits a word, since the VERIFY of `lcm` ends a program that has others; TLC evaluates it in
`clock`. `IInv` has two parts. The first holds whatever the frequencies do:

* `StaticInv`, `ConfigInv`: what the configuration and `InitClockServer` have set up (each
  registry once in the list of its domain, each callback in the list of its registry, steps
  that agree with the frequencies);
* `LoopTypes`, `PhaseInv`, `PlaceInv`: the types of what the loops use, and where they are;
* `EventsInv`: each registry is in the list of events, or taken off and still to be put back,
  and never twice;
* `CallInv`: the number of calls of each callback, given by the cycles of its registry and by
  how far the loop has come.

`AddTimeEvent` is read as an insertion at a place (`TimeEventAdded`), so what it does to the
elements, to the absence of doubles and to the order is a lemma about places. The second part,
`OrderInv`, is about time: the list is in order (`SortedInv`), what is being clocked is the
earliest there is (`TurnInv`), no time reaches the `Never` of the registries that do not exist (`BoundInv`),
and as long as no frequency has changed each registry is due at exactly the time its
cycle, frequency and skew give (`ExactInv`) and no registry is a period ahead (`SpreadInv`).

`OrderInv` is limited to runs that are `Trusted`: no frequency has changed, or
`SkewsKeepFrequency` holds. The latter is a hypothesis of the last three theorems. It says
that, if `uniqueDomainOptimization` is on, a domain with two skews has one frequency only. Without it the
theorems are false: `UniqueDomainClock` never sorts its list again
([below](#limits-of-the-guarantees), "One domain, two skews, a changing frequency"). In `clock` it holds:
the domain with two skews keeps its frequency, the one that changes has one registry. `BaseFrequencyExact` and
`RatesMatchFrequencies` are proved without it. The refinement has the mapping of the run, in which what one
`Clock()` has done counts when the last registry is done; a `Call` is a `RunCallback` of a registry that is still
due, and the step that completes the last registry is the contract's `Tick`.

### The free lists of the pools

Assumption: `PoolConstants` (at least one thread, a finite memory, and room in it for the
objects allowed at first). A list is given by `Chain`, which follows the links without recursion: the
objects that are in every set that holds the first one and is closed under the links. `ListInv` says that chains are
disjoint and acyclic, `HandInv` and `HeapInv` that an object is on a list, carried or in use,
and `CountInv` and `TotalInv` relate the counters to that. The heart is `ReadInv`: a thread
that is about to exchange a head has read of the list what is still so, *provided `latest` still
names it*. A transaction number that another `Pop` has replaced makes the
exchange fail; a push of another thread leaves the number but changes the head; and the
object a `Pop` has read cannot leave the list and come back without a `Pop`. This is why the number has
to be written before the link is read.

### The ring of rows

Assumptions: `PortConstants` (the types), and `Latency >= 1` in each theorem. With latency 0
three of the four invariants fail (below), so the theorems say nothing about such ports. `Age` is
the place of a row in ring order, counted from the row that will be written next. `RowsInv`
says that either everything has been read (`AllRead`), or the rows from the read index
to the row being written are those with unread items (`SomeUnread`), and
that the cycles of two such rows are at least as far apart as their ages. The gap is what
makes the rows suffice: when the writer comes round to a row that still has data, the
ring spans more cycles than latency and lookahead together, which is
`OverrunMeansLateReader`. `StallInv` keeps the case in which a stall has moved a row to the
current cycle; `ItemsInv` has the order of items, and `DiligentInv` what a reader that
reads all it can has left.

`KeepsContract` is that the ring is a FIFO channel of fixed latency: `inflight` is the unread items
of the rows, row by row from the oldest (`Rows`), joined by `FlattenSeq`. What `FlattenSeq` yields is shown to be the
last of the sequences got by joining the first place, the first two, and so on (`Joins`), an induction by
least counterexample over the number of places. Then each kind of step changes `Rows` in one
way, and a lemma says what this does to the joined sequence: a Read takes the first item of the
first row that is not empty, which is the row at `ReadIndex` (`JoinedTail`); a Write adds an
item to the last row (`JoinedAppend`), or moves all rows one place on, whereby the first one is
given up and a row of one item comes last (`JoinedShift`); a Stall moves each item by a
cycle (`JoinedEach`); a Clear leaves only empty rows (`JoinedEmpty`). That a row given up holds
nothing unless nobody reads, and that no item is read early, comes from `IInv`. The instance
has the `ASSERT`s that end the simulation as stutters.

### Two clocks and a queue

Assumption: `RateMatcherConstants`. The proof is for any two periods, any latency, bandwidth
and lookahead, and with or without threads and bypass; `Ceil(t, p)` is the first cycle of
period `p` that does not precede base cycle `t`, and three facts about it carry the
arithmetic. `ThreadInv` has the window of the threads and the mutual exclusion of `Clock`
and `Read`. `CycleInv` says that the writer's thread counts the cycles of the reader:
`nextReaderCycle` is `Ceil` of its time. `RowInv` bounds what has been written to the current
row by what was in `internalBuffer`, hence by the bandwidth. `OrderInv` says that the rows in the queue are in
order, that the first item of each is marked, and that `CycleRowRead` tells whether the first
of them has been begun, and `ItemsInv` that the numbers of the items are consecutive. These two
hold also in configurations that are late, and are all that `NothingPassedOver` needs; they
do not hold for a bypass between threads. `DueInv` is for the sound configurations: no item
is overdue for the reader. From it, the rows in use belong to the last `Latency + 3` cycles, so
one of the `Latency + 4` rows is free; and an item that may be read is due exactly now.

### Lines and their owners

Assumption: `CacheConstants`. For the lines the policies are not looked into: a victim may be any way, so the
first three theorems hold for every policy, also one that is wrong. `OneWay` says that at most one way of a
cache has a line, valid or reserved (a reserved way counts because it may become valid
at any time), and `OwnerKnown` that the manager knows the cache of each valid
line, and that there is one only. `OneOwner` does not follow without the second: a cache
takes a line when the manager knows no owner.

### What a set of a cache remembers

`InfoInv` says for each cache that the list of `lru_info` gives the ways in the order `order`
(`Ordering`, `Linked`), that the bits of the EV7 scheme are those of ways, and that each tree
has a LRU leaf (`Decides`). A way made MRU or LRU permutes the order (`MovedToHead`,
`MovedToTail`), and the pointers that the code changes are the ones that differ in the new
order (`ListHead`, `ListTail`; the way may be at either end or be the only one).

`getLRU` and the trees look for a free way in a loop of as many turns as there are ways or leaves.
For the list the way after i turns is the one i places from the tail or the first free one
(`FreeWay`). For a tree `Distances` counts, for each leaf, how many others become the LRU one before
it when the LRU leaf is made MRU again and again; each turn takes one off for every other leaf
(`Nearer`), so a free leaf is reached in time (`FreeLeaf`).

The theorems are about all nine sizes that `plru_masks.h` has tables for. Up to eight leaves
(`SmallLeafs`) the lemmas go through the tables case by case. The tables for 12, 16 and 24 leaves
(`LargeLeafs`) are not read that way: they are those of three, four or six groups of four
leaves, in which one tree chooses the group and a tree of four, with bits of its own, the leaf
(`LargeTables`, `TwoTrees`, `AsTwoTrees`). The distance of a leaf is then that of its group in
the upper tree, plus the number of groups times its distance within the group.

Trees of three and six leaves, hence also of 12 and 24, are not trees throughout: three nodes
compare leaves or groups two by two, and `Decides` excludes the two states in which they go in
a circle. Both are unreachable as long as `setLRU` finds its leaf in the tables, which
`TablesSuffice` says: with 3, 6 or 12 leaves, one way at each (24 leaves have no more than one
each within 31 ways). It is the hypothesis of the last two theorems because without it the
code reads past the tables ([below](#where-the-code-and-its-comments-disagree), 10) and any
state may follow.

### The work list and the schedule

Assumption: `ControllerConstants`, which also says that no `Clock()` steps over a whole
period, nor over two marks. `Good` says what an item of a list may be; for a periodic one, that it waits
for the multiple of its period after the ones at which it has happened, and that this is
at most a period away in either direction. `ListsInv` adds that four of the lists are in
the order of time, so that the head of a list speaks for all of it. `InformInv` then says that
nothing is due when the workbench is informed, `StopInv` that `SYS_Execute` has been told
to stop before anything would be, one macro instruction at a time while a mark is waited
for. `StoppedAsTold` needs to know where the last command to start or stop is: `ToldInv`
says that it is the last one of the work list, or else of the list of cycles, or else `pmStopped` shows it.
It is kept because such a command goes behind all others for now (`InsertOrdered` is stable) and leaves from
the head. The lemmas about lists speak of a list with an item put in at a place
(`Spliced`), which is what appending, inserting in order, and taking out (read backwards) all do;
and that a nonempty set of numbers has a least one (`Least`), on which `SelectInSeq` rests,
comes from the library's theorem about well-founded orders.

### The ring as a line

Assumptions: `RingConstants` and `LockFreeConstants` (the types, and a ring that all instances
fit into), `UninitBlocks` (the memory of a new thread object holds a negative `localDoneTime`)
and `RoomToSpare`: less than half of the ring is in use. The code checks only that the ring is
not full; [below](#where-the-code-and-its-comments-disagree) (16) is what happens
beyond the half. `IInv` holds as long as the frequencies do not change, which is what
`FixedPeriods` says of a scenario; `CallbacksInOrder` is about these scenarios anyway.

`Line` is the sequence of the events from `head` on. While `insert` moves elements it is
the sequence that will be there afterwards: the elements up to the iterator, the displaced one
and the rest (`Opened`). So the moves do not change the line, and only the pop and the search
for a place do (`LinePopped`, `LinePut`). `CycleInv` says that the instances of a
registry stand for successive cycles at their times, from which it follows that the
one at `head` is the oldest and that a popped one comes back past the window. `LineInv` says
that the line is complete and sorted, and that `limit` separates the events up to some time
(`Edge`). `ReaderInv` places each worker in the line: what is behind it has been done or
collected, what is before it is later (`Reader`), and it has not passed `limit`. The part about
`snapshotHead` says that the server has not popped the event at a worker's index since the
worker read `head`, so that both distances add up to less than the ring. `CollectInv` is about
the second question: a worker that has read the time of the first event, and has none of
it yet (`Opening`), finds that event still at its index and before `limit`, so the loop that
asks `is_ready` again (`clockserver_threaded_lockfree.cpp:173`) takes it. `CallInv` counts the
calls of a callback by the times its thread has done (`Mark`); it needs that the next call is
for a cycle some instance in the line stands for, which is why the span of the instances
(`while span <= lookahead + nStep`) matters.

With changing frequencies a VERIFYX ends the program sooner or later (below), and until then
`ReadsInsideWindow` is model-checked only.

### Tasks and their threads

`TasksAreApart` is about `DynamicClockServer` and stands in `LockFreeClockServer_proofs`,
because both servers work on `TimeEventsRing` and the types of the ring (`SameRing`) are
needed for both. The dynamic server is an instance there, so its `DynamicConstants` is a
hypothesis of the theorem: among other things there are no more pthreads than tasks, as
`InitClockServerThreaded` creates at most one for each. The other hypothesis is
`EarliestRunsOn`: no variant stops the server under AlwaysEarliest, which does not survive it
(below). `OneThreadPerTask` itself is claimed where `QueuedOnce` holds, that is, unless
AlwaysEarliest is combined with a working main thread: the code queues each task twice then
([below](#where-the-code-and-its-comments-disagree), 17). `DynamicInv` says that two threads
never have the same task (`Apart`) and, under AlwaysEarliest, that the queue holds each task
that no thread has, and holds it once (`Queued`), except in that combination, of which it says
the types only. That it holds no task twice is what `OneThreadPerTask` lacks: of a task that
is in the queue twice, two threads would each take one. The lemmas behind it are about putting
a task at any place of a queue (`PutIn`) and taking off the first (`TakenOff`); where `qins`
puts it does not matter.

### What is only model-checked

* Liveness (`ServerCallsReturn` of the four threaded servers, `ExitIsReached`), which depends on fairness and
  `ENABLED`.
* The contract of `DynamicClockServer`, and `ReadsInsideWindow` when frequencies change.

## Where the code and its comments disagree

The first has a run of its own, in which TLC finds it. The others were met while
modelling; where the model shows one, the change of an instance that does is named.

1. `pool_exhausted`. "MM classes must declare the maximum number of objects of their
   type that can be in use" (`mm.h:190`). `Pop` looks through the lists of the threads
   one after the other (`mm.h:956-978`). If meanwhile one thread pushes an object on a
   list already looked at and another pops the last one of a list still to come, `new`
   finds nothing, allocates beyond `mmMaxObjs` and ends the simulation (`mm.h:743`),
   although at no moment all lists were empty.
2. The constructor of the fuzzy server's thread class leaves `localDoneTime` unset
   (`clockserver.h:408`), and `ThreadWork` publishes `threadActive` before setting it
   (`clockserver_threaded_fuzzy.cpp:141`). `Clock()` may read the word in between; if it
   happens to be large, the barrier opens too early and the first cycle of that worker's
   modules is skipped: with a large `UninitTime` in `fuzzy`, `CallbacksInOrder` fails.
3. `UnregisterAll` clears the reference registry but not the reference domain
   (`clockserver.cpp:1240`), so the next `InitClockServer` does not set a default although
   its comment says that it makes sure it is set (`:780`).
4. `SetDomainFrequency` is allowed during clocking, but the instances in the ring keep
   the times of the old frequency; the VERIFYX of `AdvanceCycle`
   (`time_events_ring.h:116`) or the ASSERT of `insert` fails. In `lockfree` the
   scenario with frequency changes contains these states.
5. `lcm` tests the product of the reduced operands for overflow and returns that product
   times their gcd (`clockserver.h:796`).
6. A skid port may be read late according to its documentation, but a read after
   `Latency + 1` rows fails an ASSERT whose comment says that it makes sense for stall
   ports only (`port.h:1234`); `t/port_test.h:666` knows of it.
7. The dynamic server's `ReadyOrEarliest` scheduler never switches to the earliest task
   when none is ready, which its comment promises
   (`clockserver_threaded_dynamic.cpp:384-388`).
8. A zero-latency matcher without `SetFastWrite` fails the "wrong cycle" ASSERT, while
   the comment says that its effective latency is then at least 1 (`rate_matcher.h:394`).
   `Write` does not take the mutex (`:502`) that `Clock`'s comment asks for (`:523`).
9. With `setClearLines` two caches of a level do get the same line, against
   `cache_manager_smp.h:41`: a cold lookup leaves the tag in an invalid way, `WarmUpFill`
   puts the line into another, and when the stale way is replaced the manager is told
   that the cache no longer has the line (a FIXME at `cache_manager.cpp:76` doubts the
   clearing). `OneOwner` is about managers that do not clear lines.
10. `setLRU` of the pseudo LRU trees has `way & NumLeafs` where `setMRU` has
    `way % NumLeafs` (`cache.h:891`). The leaf is another one, or past the tables; with
    six ways and three leaves the ASSERT "No possible way" can then fail. `MakeLRU` of
    the EV7 scheme has no effect on the victim, and its `MakeMRU` none on the list.
11. `FindWay` returns before the statement that restores the random state
    (`cache.h:1577`).
12. `packetList` is not sorted although a comment says that all lists are (`control.h:259`;
    `Schedule` appends at `schedule.cpp:300` and `ReadyEvent` reads only the head), and
    `SYS_Execute` does not test `stop_packet` (`single_chip_clockserver_system.cpp:280`).
    An action for packets may therefore be late; `NothingOverdue` leaves packets out.
13. A periodic or single action at a nanosecond that a `Clock()` steps over fails the VERIFYX
    at `schedule.cpp:133`. The same test for cycles was relaxed "to support clock servers
    that do not have fine control" (`schedule.cpp:99`). In `controller` such states occur
    (`pc = "failed"`), and `NothingOverdue` says that nothing else fails.
14. "ACTION_NOW: Action occurs in the next cycle" (`control.h:60`), but
    `CheckExitConditions` adds its exit without a break (`control.cpp:77`), so it waits
    until the next action of the schedule or the next command. `ExitIsReached` is about
    `CMD_Exit`.
15. `WarmUpFill` asks the manager for the whole level and returns its own MRU way when
    the line is in any cache of it (`cache.h:1624`), also in this one.

16. "The snapshot is necessary to guarantee an atomic comparison"
    (`time_events_ring.h:185`), but `head` and `limit` are two reads, and `ThreadWork` asks
    `is_ready` of the same event twice, to wait for it
    (`clockserver_threaded_lockfree.cpp:153`) and to collect it (`:173`). If `head` has been
    read and the server pops events before `limit` is read, the limit may have come round to
    the old head once more than half of the 256 elements are in use. The answer to the second question
    is then no: the worker collects none of the events of a time, or only the first of them,
    publishes that time as done nevertheless (`:222`), and the server pops an event whose
    callbacks nobody has called. In `lockfree` with `RingSize = 7` for its 6 instances TLC
    finds `ReadsInsideWindow` and `CallbacksInOrder` violated. `RoomToSpare`, an assumption of the run
    and of the proofs, excludes it: less than half of the ring is in use.
17. "We just need to copy them into the time-ordered list", says the constructor of the
    AlwaysEarliest schedulers of all tasks (`clockserver_threaded_dynamic.cpp:448`). With
    `CLOCKSERVER_THREAD_IS_WORKER` two schedulers are constructed, one for the workers and one for the
    main thread (`:662-667`), and the list is the same static `taskq` (`:199`, `:209`). Every task
    is in it twice, and two threads may work on one at once. `dynamic` has this variant; without
    the guard `QueuedOnce`, TLC finds `OneThreadPerTask` violated.

## Limits of the guarantees

The properties hold under conditions the code does not enforce. Changing an instance
as described shows what happens without them.

* *A period within the lookahead.* `InitClockServerThreaded` compares the lookahead
  with the initial periods only. With `Steps` of the fast domain `{1, 2}` in `fuzzy`,
  `CallbacksInOrder` fails: an event is inserted at a time a worker has passed.
* *A second initialisation of the fuzzy server.* `GlobalReadyTime` is static and keeps
  its value. With `MaxRestarts = 1` in `fuzzy`, `IdleUntilFirstClock` fails: workers
  find events before the first `Clock()`.
* *A second initialisation of the lock-free server.* The ring is a global that is
  never cleared (`InitAgain`); the ASSERT of `insert` fails. The scenario `MCChange` has it.
* *A second initialisation of the basic server.* `BarrierCurPhase` is static, and a worker
  that has exited has flipped its own phase (`clockserver_threaded_basic.cpp:342`). With
  the single signal a second set of workers is out of step and runs before the first
  `Clock()`, so `MCRestarts` gives those variants one initialisation. Conditions
  together with the single signal are left out, since nobody would broadcast.
* *Events inserted concurrently.* With `CLOCKSERVER_READDS_EVENTS_CONCURRENTLY` an event
  gets its period while modules that may change it run
  (`clockserver_threaded_basic.cpp:304`). The contract allows any period of the domain.
* *Skipping tasks.* In the dynamic server a task without work at an event skips it by
  walking the ring up to the tail while `insert` moves elements, which the comment at
  `time_events_ring.h:255` excludes for workers. If `next_event_valid()` yields what
  `is_valid()` returned, a task may miss an event, or wait for one it has passed, so that `Clock()`
  does not return; with the guard `Sound` dropped, TLC finds both in the instance of
  the run. The builds in which it yields so are explored, but the contract and
  `ServerCallsReturn` are claimed only where `Sound` holds. That `is_ready` and the walk are one step each
  here needs less than half of the ring in use, as in the lock-free server.
* *Stopping under AlwaysEarliest.* An exiting task stays in the queue, its `thread` may be
  a pthread that does not exit, so `pthread_join` waits for the wrong one, and
  `taskq.front()` is called on an empty queue
  (`clockserver_threaded_dynamic.cpp:500`, `:511`, `:599`). The run does not stop the
  server under that scheduler. The code also calls member functions of a null `this`.
* *Lookahead against latency.* `Sound` in `RateMatcher` is exact about rows: with latency 5
  and bandwidth 1 a lookahead of 3 is fine, one of 4 overruns the rows.
* *Long steps.* The steps of a scenario of `controller` are not longer than a period, and
  commit at most one SSC mark. A `Clock()` that passes several multiples of a period
  performs the action once; one that passes two marks may pass the occurrence an action
  waits for, which then never comes (`schedule.cpp:207`), as one that had passed when
  it was given. A period of 0 divides by zero (`schedule.cpp:241`).
* *Many ways.* A way is an `INT8` in a list and shifts an `int` in `getLRU`, so the
  policies are modelled up to 31 ways.
* *One domain, two skews, a changing frequency.* `UniqueDomainClock` keeps the order of
  the list. With a second frequency for `d1` in `clock`, `EventsComplete` fails.
  The skews of such a domain may also drift apart, because each takes the frequency in
  force when it completes its own cycle.
* *Frequencies that are not exact.* In `clock` the frequency 0.29 is accepted by
  `NewClockDomain` and refused by `SetDomainFrequency`, which ends the program
  (`pc = "failed"`).
* *`InitClockServer` without `UnregisterAll`* registers the writer rate matchers a
  second time; the model always calls `UnregisterAll` in between.
* *Latency 0.* With `Latency = 0` in `port`, `ReadIndexOnOldest` fails: `Read` moves past
  the row of the current cycle, and a later write of that cycle is behind it.
* *Peeking.* `PeekNext` steps onto items that have been read and fails its VERIFYX; in
  `port` such states occur (`failed = "peek"`), and the other properties hold in spite
  of them.
* *Stalls and bandwidth.* After a stall, the row of one cycle is merged with that of the
  next, and the bandwidth ASSERT counts both, so a writer within its bandwidth may fail it.

## What is not modelled

* Output: DRAL events, traces, statistics, profiles, state dumps.
* Memory ordering below sequential consistency. Reads and writes of shared words are
  atomic steps in program order; the code uses plain words and `volatile` on x86.
* Parts of modelled components: `CLOCKSERVER_THREAD_RUNS_FIRST_TASK` of the basic server;
  frequency changes and a second initialisation of the dynamic one; `Look`, `Delay`, `LatestWrite` and
  dumps of ports; fan-out of rate matchers to several readers; destructors, the end of the
  run and the debug checks of the memory pools, and the older pointer classes of
  `mpointer.h`; of the caches data, valid and dirty bits (no decision depends on them),
  saving and restoring, statistics, `pseudo_lru_info` and address mapping.
  `RestoreCacheState` does not advance one of its loop counters, and does not tell
  the manager: a model of it would say nothing else.
* `cache_dyn.h` and `cache_mesi.h` repeat `cache.h` with sizes set at run time and with
  another set of states; the policies behind them are those of `ReplacementPolicy`.
* The lookahead parameter: a string with a unit is parsed into base cycles once.
* Port connection: ports are matched by name, node and instance once, in one thread,
  before the simulation starts. Port threads and phase ports use the same storage with
  other owners.
* Containers, registers, instruction utilities: sequential data structures without
  callbacks or failures of their own, which a unit test reaches.
* Of the controller: the command line, the Tcl interpreter, the threads of the feeder on
  hardware contexts, warmup, and what actions other than start, stop and exit do. The
  controller without Tcl (`control-notcl.cpp`) repeats the classic one; the minimal and
  null controllers have no schedule. The other systems.
* Thread handles and atomic primitives (`atomic.h`, `smp.h`): the atomic steps of the
  models.
* The cross checker compares two streams in one thread and reports.
* The graphical toolkit, the DRAL event files and database, XML-RPC and feeders: input and
  output. They are most of the lines of the repository.

## Plan

Done, with proofs: `ClockServer` and `BaseFrequency`, `FuzzyClockServer`, `BasicClockServer`,
`LockFreeClockServer` on `TimeEventsRing`, `PortBuffer`, `RateMatcher`, `MemoryPool`, `GenCache` on
`ReplacementPolicy`, `Controller`. `DynamicClockServer` has one theorem; `ClockContract`
and `PortContract` are the abstract specifications.

What could still be modelled with profit: fan-out of rate matchers, ports between
threads, and the MESI states of `cache_mesi.h`. What adds most now is proofs.

Theorems worth proving next:

1. The contract of `DynamicClockServer`: `IInv` of the lock-free server with tasks in the place
   of threads, once `next_event_valid()` yields something definite.
2. `ReadsInsideWindow` of the lock-free server when frequencies change: the invariant has
   to tell registries whose next `AdvanceCycle` fails from the others.
