------------------------- MODULE DynamicClockServer -------------------------
(***************************************************************************)
(* The threaded clock server with dynamic scheduling                       *)
(* (clockserver_threaded_dynamic.cpp): a task per clocking thread, and a   *)
(* pool of pthreads, joined by the main thread while it waits, that take   *)
(* tasks, execute the events of TimeEventsRing that are ready for them and *)
(* switch to another task when none is.                                    *)
(*                                                                         *)
(* A task's mutex is held by the pthread (or main thread) whose task it is *)
(* and an exited pthread keeps it; a TaskSwitch is one step, and so are    *)
(* is_ready and the walk over the events of one time, whose reads          *)
(* LockFreeClockServer separates.  Periods do not change here.             *)
(***************************************************************************)
EXTENDS TimeEventsRing

CONSTANTS
    Pthread,      \* pthreads created, at most CLOCKSERVER_MAX_WORKER_PTHREADS
    Main,         \* the main thread
    NTasks,       \* tasks are numbered in the order of AllTasks
    Callback, cbReg, cbTask, WriterRM,
    Variants,     \* scheduling algorithms and options explored (Variant)
    MaxTime       \* bound: Clock() is not called past this base cycle

Task == 1..NTasks
NoTask == 0
Actor == Pthread \cup {Main}
Never == 1000     \* INT64_MAX, the time of no task

Variant == [algorithm : {"Simple", "ReadyToRun", "ReadyOrEarliest", "AlwaysEarliest"},
            isWorker : BOOLEAN,   \* CLOCKSERVER_THREAD_IS_WORKER
            skips : BOOLEAN,      \* may next_event_valid(), which returns nothing, yield TRUE?
            stops : BOOLEAN]      \* is the server stopped at the end?

ASSUME DynamicConstants ==
    /\ Main \notin Pthread /\ Pthread # {} /\ NTasks \in Nat \ {0}
    /\ IsFiniteSet(Pthread) /\ Cardinality(Pthread) <= NTasks
    /\ cbReg \in [Callback -> Registry] /\ cbTask \in [Callback -> Task]
    /\ WriterRM \subseteq Callback /\ Variants \subseteq Variant /\ MaxTime \in Nat

VARIABLES
    variant,
    stopping,         \* the task DestroyPthread is called for (NTasks + 1 at the end)
    \* the pthreads and the main thread
    workPc,           \* "loop", "run", "skip", "exiting" or "exited"
    task,             \* the task it owns
    clocked, todo,    \* the event instances of DoWork and their callbacks still to be called
    localReadyTime,
    \* the tasks
    index,            \* next_event
    localDoneTime,
    threadForceExit,
    thread,           \* the pthread a task was last assigned to
    \* the schedulers
    seed, taskq, exiting, nextime,
    currentCycle, calls

schedVars == <<seed, taskq, exiting, nextime>>
doVars    == <<clocked, todo, localReadyTime>>
vars == <<ringVars, serverPc, variant, stopping, workPc, task, doVars, index, localDoneTime,
          threadForceExit, thread, schedVars, currentCycle, calls>>

-----------------------------------------------------------------------------
(* A task *)

IsReady(k) == k # NoTask /\ Between(index[k], head, limit)
IsDone(k)  == k # NoTask /\ threadForceExit[k]
Time(k)    == IF k = NoTask THEN Never ELSE TimeAt(index[k])
Owned(k)   == \E p \in Actor : task[p] = k

\* qins: before the first task of the queue that is not earlier.
Qins(q, k) ==
    IF k = NoTask THEN q
    ELSE LET i == CHOOSE i \in 1..Len(q) + 1 :
                     /\ i <= Len(q) => Time(q[i]) >= Time(k)
                     /\ \A j \in 1..i - 1 : Time(q[j]) < Time(k)
         IN  InsertAt(q, i, k)

\* The constructor of the AlwaysEarliest scheduler puts every task into the
\* queue, before those that are not earlier; all schedulers have one queue, so
\* that the scheduler of a working main thread puts them in again.
InitialQueue ==
    LET once == [k \in Task |-> NTasks + 1 - k]
    IN  IF variant.algorithm # "AlwaysEarliest" THEN <<>>
        ELSE IF variant.isWorker THEN once \o once ELSE once

Init ==
    /\ RingInit /\ serverPc = "idle"
    /\ variant \in Variants /\ stopping = 0
    /\ workPc = [p \in Actor |-> "loop"] /\ task = [p \in Actor |-> NoTask]
    /\ clocked = [p \in Actor |-> {}] /\ todo = [p \in Actor |-> {}]
    /\ localReadyTime = [p \in Actor |-> 0]
    /\ index = [k \in Task |-> 0] /\ localDoneTime = [k \in Task |-> -1]
    /\ threadForceExit = [k \in Task |-> FALSE] /\ thread = [k \in Task |-> Main]
    /\ seed = 0 /\ nextime = -1 /\ exiting = NoTask
    /\ taskq = InitialQueue
    /\ currentCycle = [c \in Callback |-> 0] /\ calls = [c \in Callback |-> 0]

-----------------------------------------------------------------------------
(* DoWork, executed by a pthread or by the waiting main thread *)

MayWork(p) == workPc[p] = "loop" /\ (p = Main => serverPc = "wait")

\* The ready events of the task's next time, and the callbacks of its own.
ReadyEvents(k) ==
    LET at(n) == (index[k] + n) % RingSize
        count == CHOOSE n \in 0..RingSize :
                    /\ ~(Between(at(n), head, limit) /\ TimeAt(at(n)) = Time(k))
                    /\ \A m \in 0..n - 1 : Between(at(m), head, limit) /\ TimeAt(at(m)) = Time(k)
    IN  [events |-> {element[at(m)] : m \in 0..count - 1}, next |-> at(count)]

BeginWork(p) ==
    LET k == task[p]
        found == ReadyEvents(k)
    IN  /\ MayWork(p) /\ IsReady(k) /\ (p # Main => ~IsDone(k))
        /\ clocked' = [clocked EXCEPT ![p] = found.events]
        /\ todo' = [todo EXCEPT ![p] = {c \in Callback : cbTask[c] = k
                                           /\ \E e \in found.events : Parent(e) = cbReg[c]}]
        /\ localReadyTime' = [localReadyTime EXCEPT ![p] = Time(k)]
        /\ index' = [index EXCEPT ![k] = found.next]
        /\ workPc' = [workPc EXCEPT ![p] = "run"]
        /\ UNCHANGED <<ringVars, serverPc, variant, stopping, task, localDoneTime,
                       threadForceExit, thread, schedVars, currentCycle, calls>>

\* One callback is called; the writer rate matchers after all the modules.
RunCallback(p, c) ==
    /\ workPc[p] = "run" /\ c \in todo[p]
    /\ c \in WriterRM => todo[p] \subseteq WriterRM
    /\ \E e \in clocked[p] :
          /\ Parent(e) = cbReg[c]
          /\ currentCycle' = [currentCycle EXCEPT ![c] = instCycle[e]]
    /\ calls' = [calls EXCEPT ![c] = @ + 1]
    /\ todo' = [todo EXCEPT ![p] = @ \ {c}]
    /\ UNCHANGED <<ringVars, serverPc, variant, stopping, workPc, task, clocked,
                   localReadyTime, index, localDoneTime, threadForceExit, thread, schedVars>>

\* Mutant: the time is published before its callbacks have been called.
WorkDoneEarly(p) == \A c \in todo[p] : c \in WriterRM

WorkDone(p) == todo[p] = {}

\* localDoneTime is published; a build in which next_event_valid() yields what
\* is_valid() returned then looks at the events that follow.
PublishDone(p) ==
    /\ workPc[p] = "run" /\ WorkDone(p)
    /\ localDoneTime' = [localDoneTime EXCEPT ![task[p]] = localReadyTime[p]]
    /\ clocked' = [clocked EXCEPT ![p] = {}] /\ todo' = [todo EXCEPT ![p] = {}]
    /\ workPc' = [workPc EXCEPT ![p] = IF variant.skips THEN "skip" ELSE "loop"]
    /\ UNCHANGED <<ringVars, serverPc, variant, stopping, task, localReadyTime, index,
                   threadForceExit, thread, schedVars, currentCycle, calls>>

\* ThreadActiveOnEvent
ThreadActiveOnEvent(k, e) == \E c \in Callback : cbTask[c] = k /\ cbReg[c] = Parent(e)

SkipEvent(p) ==
    LET k == task[p]
    IN  /\ workPc[p] = "skip"
        /\ IF Between(index[k], head, tail) /\ ~ThreadActiveOnEvent(k, element[index[k]])
           THEN /\ localDoneTime' = [localDoneTime EXCEPT ![k] = TimeAt(index[k])]
                /\ index' = [index EXCEPT ![k] = Succ(@)]
                /\ UNCHANGED workPc
           ELSE /\ workPc' = [workPc EXCEPT ![p] = "loop"]
                /\ UNCHANGED <<localDoneTime, index>>
        /\ UNCHANGED <<ringVars, serverPc, variant, stopping, task, doVars, threadForceExit,
                       thread, schedVars, currentCycle, calls>>

-----------------------------------------------------------------------------
(* TaskSwitch, called when the own task is not ready *)

MaySwitch(p) ==
    /\ MayWork(p) /\ ~IsReady(task[p])
    /\ IF p = Main THEN variant.isWorker ELSE ~IsDone(task[p])

Assign(p, k) ==
    /\ task' = [task EXCEPT ![p] = k]
    /\ thread' = IF k = NoTask THEN thread ELSE [thread EXCEPT ![k] = p]

\* Mutant: a task is taken although another pthread runs it.
AvailableOwned(p, k) == variant.algorithm = "Simple" \/ IsReady(k) \/ IsDone(k)

\* Mutant: a task that has to exit is not looked for.
AvailableReady(p, k) == ~Owned(k) /\ (variant.algorithm = "Simple" \/ IsReady(k))

\* A task another thread does not hold, and that the algorithm accepts.
Available(p, k) ==
    /\ ~Owned(k)
    /\ variant.algorithm = "Simple" \/ IsReady(k) \/ IsDone(k)

\* The i-th task of a search from the seed.
SearchOrder(i) == ((seed + i) % NTasks) + 1

\* Simple and ReadyToRun take the first available task from the seed on.
\* ReadyOrEarliest takes a ready task only, too: it searches again from the
\* earliest other task, but never accepts one that is not ready.
SwitchBySearch(p) ==
    /\ MaySwitch(p) /\ variant.algorithm \in {"Simple", "ReadyToRun", "ReadyOrEarliest"}
    /\ seed' = (seed + 1) % NTasks
    /\ \/ /\ \A k \in Task : ~Available(p, k)
          /\ UNCHANGED <<task, thread>>
       \/ \E k \in Task : Available(p, k) /\ Assign(p, k) /\
             (variant.algorithm # "ReadyOrEarliest" =>
                 \E i \in 0..NTasks - 1 :
                    SearchOrder(i) = k /\ \A j \in 0..i - 1 : ~Available(p, SearchOrder(j)))
    /\ UNCHANGED <<ringVars, serverPc, variant, stopping, workPc, doVars, index, localDoneTime,
                   threadForceExit, taskq, exiting, nextime, currentCycle, calls>>

\* AlwaysEarliest puts its task back and takes the first of the queue, or the
\* task that has to exit.  The front of an empty queue is read all the same;
\* what is found there is not a task or is one of them.
SwitchEarliest(p) ==
    LET q == Qins(taskq, task[p])
        exits == exiting # NoTask
        rest == IF exits \/ q = <<>> THEN q ELSE Tail(q)
    IN  /\ MaySwitch(p) /\ variant.algorithm = "AlwaysEarliest" /\ p # Main
        /\ nextime <= Time(task[p]) \/ exits
        /\ Assign(p, IF exits THEN exiting ELSE IF q = <<>> THEN NoTask ELSE Head(q))
        /\ exiting' = NoTask
        /\ taskq' = rest
        /\ nextime' \in IF rest = <<>> THEN {Never} \cup {Time(k) : k \in Task} ELSE {Time(Head(rest))}
        /\ UNCHANGED <<ringVars, serverPc, variant, stopping, workPc, doVars, index,
                       localDoneTime, threadForceExit, seed, currentCycle, calls>>

\* The main thread takes the first task if it is ready at the current time.
SwitchEarliestMaster ==
    LET q == Qins(taskq, task[Main])
        takes == q # <<>> /\ IsReady(Head(q)) /\ Time(Head(q)) = TimeAt(head)
    IN  /\ MaySwitch(Main) /\ variant.algorithm = "AlwaysEarliest"
        /\ Assign(Main, IF takes THEN Head(q) ELSE NoTask)
        /\ taskq' = IF takes THEN Tail(q) ELSE q
        /\ UNCHANGED <<ringVars, serverPc, variant, stopping, workPc, doVars, index, localDoneTime,
                       threadForceExit, seed, exiting, nextime, currentCycle, calls>>

-----------------------------------------------------------------------------
(* ThreadedClock *)

ClockBegin ==
    /\ TimeAt(head) <= MaxTime /\ AdvanceTime
    /\ UNCHANGED <<variant, stopping, workPc, task, doVars, index, localDoneTime,
                   threadForceExit, thread, schedVars, currentCycle, calls>>

\* Past the barrier; MainThreadTaskRelease gives up the task.
Barrier ==
    /\ serverPc = "wait" /\ workPc[Main] = "loop"
    /\ \A k \in Task : localDoneTime[k] >= currentBaseCycle
    /\ serverPc' = "pop"
    /\ task' = [task EXCEPT ![Main] = NoTask]
    /\ taskq' = IF variant.algorithm = "AlwaysEarliest" THEN Qins(taskq, task[Main]) ELSE taskq
    /\ UNCHANGED <<ringVars, variant, stopping, workPc, doVars, index, localDoneTime,
                   threadForceExit, thread, seed, exiting, nextime, currentCycle, calls>>

AddEventsAgain ==
    /\ ReInsert
    /\ UNCHANGED <<variant, stopping, workPc, task, doVars, index, localDoneTime,
                   threadForceExit, thread, schedVars, currentCycle, calls>>

-----------------------------------------------------------------------------
(* Stopping: DestroyPthread and ExitPthread *)

\* StopClockServer calls DestroyPthread for task after task; the first calls,
\* as many as there are pthreads, ask the task to exit.
DestroyPthread ==
    /\ \/ serverPc = "idle" /\ variant.stops /\ stopping' = 1
       \/ serverPc = "next" /\ stopping < Cardinality(Pthread) /\ stopping' = stopping + 1
    /\ serverPc' = "kill"
    /\ threadForceExit' = [threadForceExit EXCEPT ![stopping'] = TRUE]
    /\ UNCHANGED <<ringVars, variant, workPc, task, doVars, index, localDoneTime, thread,
                   schedVars, currentCycle, calls>>

\* NotifyExiting: the scheduler is told of a task no pthread runs.
NotifyExiting ==
    /\ serverPc = "kill"
    /\ serverPc' = "join"
    /\ exiting' = IF variant.algorithm = "AlwaysEarliest" /\ ~Owned(stopping) THEN stopping
                  ELSE exiting
    /\ UNCHANGED <<ringVars, variant, stopping, workPc, task, doVars, index, localDoneTime,
                   threadForceExit, thread, seed, taskq, nextime, currentCycle, calls>>

\* The pthread that has acknowledged is joined.
Joined ==
    /\ serverPc = "join" /\ ~threadForceExit[stopping]
    /\ workPc[thread[stopping]] = "exited"
    /\ serverPc' = IF stopping < Cardinality(Pthread) THEN "next" ELSE "off"
    /\ UNCHANGED <<ringVars, variant, stopping, workPc, task, doVars, index, localDoneTime,
                   threadForceExit, thread, schedVars, currentCycle, calls>>

\* ExitPthread acknowledges first and exits then, holding the task's mutex.
ExitPthread(p) ==
    /\ p # Main /\ workPc[p] = "loop" /\ IsDone(task[p])
    /\ threadForceExit' = [threadForceExit EXCEPT ![task[p]] = FALSE]
    /\ workPc' = [workPc EXCEPT ![p] = "exiting"]
    /\ UNCHANGED <<ringVars, serverPc, variant, stopping, task, doVars, index, localDoneTime,
                   thread, schedVars, currentCycle, calls>>

Exited(p) ==
    /\ workPc[p] = "exiting"
    /\ localDoneTime' = [localDoneTime EXCEPT ![task[p]] = TimeAt(head)]
    /\ workPc' = [workPc EXCEPT ![p] = "exited"]
    /\ UNCHANGED <<ringVars, serverPc, variant, stopping, task, doVars, index,
                   threadForceExit, thread, schedVars, currentCycle, calls>>

-----------------------------------------------------------------------------
Server == Barrier \/ AddEventsAgain \/ NotifyExiting \/ Joined
          \/ (serverPc = "next" /\ DestroyPthread)

Worker(p) ==
    \/ BeginWork(p) \/ PublishDone(p) \/ SkipEvent(p)
    \/ \E c \in Callback : RunCallback(p, c)
    \/ SwitchBySearch(p) \/ SwitchEarliest(p) \/ (p = Main /\ SwitchEarliestMaster)
    \/ ExitPthread(p) \/ Exited(p)

\* Two threads have one task.  Both execute DoWork and move its next_event: what
\* the program does from here on is undefined, and the model ends.
Shared == \E p, q \in Actor : p # q /\ task[p] = task[q] /\ task[p] # NoTask

\* The simulation is over, or an ASSERT has ended it, or the model ends.
Finished == (serverPc \in {"idle", "off", "failed"} \/ Shared) /\ UNCHANGED vars

Next ==
    \/ Finished
    \/ /\ ~Shared
       /\ \/ ClockBegin \/ Server
          \/ serverPc = "idle" /\ DestroyPthread
          \/ \E p \in Actor : Worker(p)

Spec == Init /\ [][Next]_vars

\* Every pthread, and the main thread within a call, keeps being scheduled.
FairSpec ==
    /\ Spec
    /\ WF_vars(~Shared /\ Server) /\ \A p \in Actor : WF_vars(~Shared /\ Worker(p))

-----------------------------------------------------------------------------
(* Properties *)

TypeOK ==
    /\ RingTypeOK /\ variant \in Variants /\ stopping \in 0..NTasks
    /\ serverPc \in {"idle", "wait", "pop", "find", "shift", "failed", "kill", "join", "next", "off"}
    /\ workPc \in [Actor -> {"loop", "run", "skip", "exiting", "exited"}]
    /\ task \in [Actor -> Task \cup {NoTask}] /\ thread \in [Task -> Actor]
    /\ clocked \in [Actor -> SUBSET Instance] /\ todo \in [Actor -> SUBSET Callback]
    /\ localReadyTime \in [Actor -> Int]
    /\ index \in [Task -> Index] /\ localDoneTime \in [Task -> Int]
    /\ threadForceExit \in [Task -> BOOLEAN]
    /\ seed \in 0..NTasks - 1 /\ taskq \in Seq(Task) /\ exiting \in Task \cup {NoTask}

\* AlwaysEarliest does not stand a working main thread: see InitialQueue.
QueuedOnce == ~(variant.algorithm = "AlwaysEarliest" /\ variant.isWorker)

\* "a lock so only one pthread owns it": a task is run by one thread at a time,
\* and none is lost: a task nobody runs can be found by a scheduler.
OneThreadPerTask ==
    /\ TypeOK
    /\ QueuedOnce =>
          /\ ~Shared
          /\ variant.algorithm = "AlwaysEarliest" /\ serverPc \notin {"kill", "join", "next", "off"} =>
                \A k \in Task : Owned(k) <=> \A i \in DOMAIN taskq : taskq[i] # k

\* The registries as a caller of Clock() sees them: all those of the current
\* time move on together, when Clock() returns.
Advanced(r) == serverPc \in {"pop", "find", "shift"} /\ nBaseCycle[r] - nStep[r] = currentBaseCycle

Contract == INSTANCE ClockContract WITH
    Lookahead  <- lookahead,
    nBaseCycle <- [r \in Registry |-> IF Advanced(r) THEN currentBaseCycle ELSE nBaseCycle[r]],
    nCycle     <- [r \in Registry |-> IF Advanced(r) THEN nCycle[r] - 1 ELSE nCycle[r]]

\* What is promised of a call is promised where no task is queued twice and none
\* skips: one that skips may look at an element that the server is moving, and
\* then misses its own event or is left with an index behind the head.
Sound == QueuedOnce /\ ~variant.skips

\* Dynamic scheduling is a clock server like the others, as long as the
\* lookahead is shorter than every period.
ImplementsContract ==
    /\ Contract!Init
    /\ [][Sound => Contract!Next]_(Contract!contractVars)

\* "To avoid starvation, we need to guarantee that all tasks will eventually be
\* switched into": with fewer pthreads than tasks every Clock() and every
\* StopClockServer() still return, and no ASSERT of the ring ("Event insertion
\* attempted into lookahead window!", "Event list overflow!") ends them.
ServerCallsReturn ==
    Sound /\ serverPc \in {"wait", "pop", "find", "shift", "kill", "join", "next"}
        ~> serverPc \in {"idle", "off"}
=============================================================================
