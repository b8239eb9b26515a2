-------------------------- MODULE BasicClockServer --------------------------
(***************************************************************************)
(* The basic threaded clock server (clockserver_threaded_basic.cpp, with   *)
(* the thread life cycle of clockserver.cpp): the server pops the events   *)
(* of the earliest base cycle, hands each worker its callbacks, starts the *)
(* workers, waits for all of them and inserts the events again.            *)
(*                                                                         *)
(* Three compile-time parameters choose the barrier: pthread conditions or *)
(* spinning, a flag per worker or one counter and phase for all, and       *)
(* whether the events are inserted again before or after the wait.         *)
(* The time-event list is represented by nBaseCycle, and a worker's queue  *)
(* by the set of its callbacks with the writer rate matchers last; the     *)
(* list fixes one order among those this leaves open.                      *)
(***************************************************************************)
EXTENDS Integers, FiniteSets

CONSTANTS
    Thread, NoThread,
    Registry, Domain, regDomain,
    Callback, cbReg, cbThread,
    WriterRM,     \* the callbacks in lWriterRM; the others are in lModules
    InitStep,     \* period of each domain at its initial frequency
    Steps,        \* periods of each domain's allowed frequencies
    Variants,     \* records of the compile-time parameters (Variant)
    MaxTime,      \* bound: Clock() is not called past this base cycle
    MaxRestarts   \* bound: how often each variant is initialised again

Variant == [signalling : BOOLEAN,  \* CLOCKSERVER_USES_PTHREADS_SIGNALLING
            single : BOOLEAN,      \* CLOCKSERVER_SINGLE_WORKER_SIGNAL
            readds : BOOLEAN]      \* CLOCKSERVER_READDS_EVENTS_CONCURRENTLY

ASSUME BasicConstants ==
    /\ Thread # {} /\ IsFiniteSet(Thread) /\ NoThread \notin Thread
    /\ regDomain \in [Registry -> Domain]
    /\ cbReg \in [Callback -> Registry] /\ cbThread \in [Callback -> Thread]
    /\ WriterRM \subseteq Callback
    /\ Steps \in [Domain -> SUBSET (Nat \ {0})]
    /\ \A d \in Domain : InitStep[d] \in Steps[d]
    /\ Variants \subseteq Variant
    /\ MaxTime \in Nat /\ MaxRestarts \in [Variants -> Nat]

\* A worker that exits flips its barrierPhase, and the next InitClockServer does
\* not bring it back in step: the single signal is initialised once.
ASSUME SingleSignalOnce == \A v \in Variants : v.single => MaxRestarts[v] = 0

VARIABLES
    variant,
    nBaseCycle, nCycle, nStep,   \* the clock registries
    lClockedEvents,   \* registries popped by this ThreadedClock()
    currentBaseCycle, \* the time they were due
    serverPc,         \* "create", "idle", "start", "flip", "wait", "asleep", "readd",
                      \* "stop", "force", "off" or "failed"
    target,           \* thread being created or joined
    pending,          \* threads this loop over lThreads has still to visit
    restarts,
    BarrierCount, BarrierCurPhase,
    workerPc,         \* "none", "boot", "lock", "test", "asleep", "run", "exited"
    threadActive, threadForceExit, tasks_completed, barrierPhase,
    tasks,            \* callbacks queued for each worker
    calls             \* number of calls of each callback (history)

regVars     == <<nBaseCycle, nCycle>>
barrierVars == <<BarrierCount, BarrierCurPhase>>
clockVars   == <<lClockedEvents, currentBaseCycle>>
flagVars    == <<threadActive, threadForceExit>>
vars == <<variant, regVars, nStep, clockVars, serverPc, target, pending, restarts,
          barrierVars, workerPc, flagVars, tasks_completed, barrierPhase, tasks, calls>>

Init ==
    /\ variant \in Variants
    /\ nStep = [r \in Registry |-> InitStep[regDomain[r]]]
    /\ nBaseCycle = [r \in Registry |-> 0] /\ nCycle = [r \in Registry |-> 0]
    /\ lClockedEvents = {} /\ currentBaseCycle = 0
    /\ serverPc = "create" /\ target = NoThread /\ pending = Thread /\ restarts = 0
    /\ BarrierCount = 0 /\ BarrierCurPhase = FALSE
    /\ workerPc = [t \in Thread |-> "none"]
    /\ threadActive = [t \in Thread |-> FALSE] /\ threadForceExit = [t \in Thread |-> FALSE]
    /\ tasks_completed = [t \in Thread |-> TRUE]
    /\ barrierPhase = [t \in Thread |-> FALSE]
    /\ tasks = [t \in Thread |-> {}]
    /\ calls = [c \in Callback |-> 0]

-----------------------------------------------------------------------------
(* Thread life cycle *)

\* CreatePthread spins until the new thread is active.
CreatePthread(t) ==
    /\ serverPc = "create" /\ target = NoThread /\ t \in pending
    /\ target' = t /\ pending' = pending \ {t}
    /\ threadForceExit' = [threadForceExit EXCEPT ![t] = FALSE]
    /\ workerPc' = [workerPc EXCEPT ![t] = "boot"]
    /\ UNCHANGED <<variant, regVars, nStep, clockVars, serverPc, restarts, barrierVars,
                   threadActive, tasks_completed, barrierPhase, tasks, calls>>

PthreadCreated ==
    /\ serverPc = "create" /\ target # NoThread /\ threadActive[target]
    /\ target' = NoThread
    /\ serverPc' = IF pending = {} THEN "idle" ELSE "create"
    /\ UNCHANGED <<variant, regVars, nStep, clockVars, pending, restarts, barrierVars,
                   workerPc, flagVars, tasks_completed, barrierPhase, tasks, calls>>

\* StopClockServer calls DestroyPthread for every thread: it raises
\* threadForceExit ...
DestroyPthread(t) ==
    /\ \/ serverPc = "idle"
       \/ serverPc = "stop" /\ target = NoThread /\ t \in pending
    /\ target' = t
    /\ pending' = (IF serverPc = "idle" THEN Thread ELSE pending) \ {t}
    /\ serverPc' = "force"
    /\ threadForceExit' = [threadForceExit EXCEPT ![t] = TRUE]
    /\ UNCHANGED <<variant, regVars, nStep, clockVars, restarts, barrierVars, workerPc,
                   threadActive, tasks_completed, barrierPhase, tasks, calls>>

\* A worker holds its task_list_mutex except while it sleeps.
MutexFree(t) == variant.signalling => workerPc[t] \notin {"test", "run"}

\* The broadcast of wait_condition: the sleeper has to lock the mutex again.
Wake(t) == workerPc' = [workerPc EXCEPT ![t] = IF @ = "asleep" THEN "lock" ELSE @]

\* ... and wakes the thread under the mutex.
ForceExit ==
    /\ serverPc = "force" /\ MutexFree(target)
    /\ tasks_completed' = [tasks_completed EXCEPT ![target] = FALSE]
    /\ Wake(target)
    /\ serverPc' = "stop"
    /\ UNCHANGED <<variant, regVars, nStep, clockVars, target, pending, restarts,
                   barrierVars, flagVars, barrierPhase, tasks, calls>>

PthreadJoined ==
    /\ serverPc = "stop" /\ target # NoThread /\ workerPc[target] = "exited"
    /\ threadActive' = [threadActive EXCEPT ![target] = FALSE]
    /\ target' = NoThread
    /\ serverPc' = IF pending = {} THEN "off" ELSE "stop"
    /\ UNCHANGED <<variant, regVars, nStep, clockVars, pending, restarts, barrierVars,
                   workerPc, threadForceExit, tasks_completed, barrierPhase, tasks, calls>>

\* Another InitClockServer.  The thread objects and the static barrier
\* variables keep their values.
InitClockServer ==
    /\ serverPc = "off" /\ restarts < MaxRestarts[variant]
    /\ restarts' = restarts + 1
    /\ serverPc' = "create" /\ pending' = Thread
    /\ nBaseCycle' = [r \in Registry |-> 0] /\ nCycle' = [r \in Registry |-> 0]
    /\ calls' = [c \in Callback |-> 0]
    /\ UNCHANGED <<variant, nStep, clockVars, target, barrierVars, workerPc, flagVars,
                   tasks_completed, barrierPhase, tasks>>

-----------------------------------------------------------------------------
(* ThreadedClock *)

Earliest(t) == (\E r \in Registry : nBaseCycle[r] = t) /\ \A r \in Registry : t <= nBaseCycle[r]

CallbacksOf(t, events) == {c \in Callback : cbThread[c] = t /\ cbReg[c] \in events}

\* The events are popped and their callbacks assigned, modules then rate
\* matchers, without taking a lock.
PopAndAssign(t) ==
    LET due == {r \in Registry : nBaseCycle[r] = t}
    IN  /\ serverPc = "idle" /\ t <= MaxTime /\ Earliest(t)
        /\ lClockedEvents' = due /\ currentBaseCycle' = t
        /\ tasks' = [u \in Thread |-> tasks[u] \cup CallbacksOf(u, due)]
        /\ serverPc' = "start" /\ pending' = Thread
        /\ UNCHANGED <<variant, regVars, nStep, target, restarts, barrierVars, workerPc,
                       flagVars, tasks_completed, barrierPhase, calls>>

\* The loop that pops the events looks at the front of the list even when the
\* list is empty, that is when all registries are due: it reads whatever is
\* there.  The loop ends as it should, or the program does.
FrontOfEmpty ==
    /\ serverPc = "idle" /\ \A r \in Registry : nBaseCycle[r] <= MaxTime /\ Earliest(nBaseCycle[r])
    /\ serverPc' = "failed"
    /\ UNCHANGED <<variant, regVars, nStep, clockVars, target, pending, restarts, barrierVars,
                   workerPc, flagVars, tasks_completed, barrierPhase, tasks, calls>>

NothingToRun(t) == tasks[t] = {}

AfterStart == IF variant.readds THEN "readd" ELSE "wait"

\* A flag per worker: tasks_completed is cleared under the worker's mutex.
PerformTasksThreaded(t) ==
    /\ serverPc = "start" /\ ~variant.single /\ t \in pending
    /\ NothingToRun(t) \/ MutexFree(t)
    /\ tasks_completed' = [tasks_completed EXCEPT ![t] = NothingToRun(t)]
    /\ IF NothingToRun(t) THEN UNCHANGED workerPc ELSE Wake(t)
    /\ pending' = IF pending = {t} THEN Thread ELSE pending \ {t}
    /\ serverPc' = IF pending = {t} THEN AfterStart ELSE "start"
    /\ UNCHANGED <<variant, regVars, nStep, clockVars, target, restarts, barrierVars,
                   flagVars, barrierPhase, tasks, calls>>

\* Mutants: the counter leaves one worker out, or counts the server as well.
BarrierSizeLess == Cardinality(Thread) - 1
BarrierSizeMore == Cardinality(Thread) + 1

BarrierSize == Cardinality(Thread)

\* One signal for all: the counter is set first ...
SetBarrierCount ==
    /\ serverPc = "start" /\ variant.single
    /\ BarrierCount' = BarrierSize
    /\ serverPc' = "flip"
    /\ UNCHANGED <<variant, regVars, nStep, clockVars, target, pending, restarts,
                   BarrierCurPhase, workerPc, flagVars, tasks_completed, barrierPhase,
                   tasks, calls>>

\* ... the phase flipped after a memory barrier.
FlipPhase ==
    /\ serverPc = "flip"
    /\ BarrierCurPhase' = ~BarrierCurPhase
    /\ serverPc' = AfterStart
    /\ UNCHANGED <<variant, regVars, nStep, clockVars, target, pending, restarts,
                   BarrierCount, workerPc, flagVars, tasks_completed, barrierPhase,
                   tasks, calls>>

\* WaitForAllWorkerThreads: CheckAllTasksCompleted for each thread; with
\* signalling the server sleeps on finish_condition.
CheckAllTasksCompleted(t) ==
    /\ serverPc = "wait" /\ ~variant.single /\ t \in pending
    /\ IF tasks_completed[t]
       THEN /\ pending' = pending \ {t}
            /\ serverPc' = IF pending # {t} THEN "wait"
                           ELSE IF variant.readds THEN "idle" ELSE "readd"
            /\ UNCHANGED target
       ELSE /\ variant.signalling
            /\ target' = t /\ serverPc' = "asleep" /\ UNCHANGED pending
    /\ UNCHANGED <<variant, regVars, nStep, clockVars, restarts, barrierVars, workerPc,
                   flagVars, tasks_completed, barrierPhase, tasks, calls>>

BarrierEmpty ==
    /\ serverPc = "wait" /\ variant.single /\ BarrierCount <= 0
    /\ serverPc' = IF variant.readds THEN "idle" ELSE "readd"
    /\ UNCHANGED <<variant, regVars, nStep, clockVars, target, pending, restarts,
                   barrierVars, workerPc, flagVars, tasks_completed, barrierPhase,
                   tasks, calls>>

\* The clocked events are inserted again, one after the other, with the period
\* their domain has at that moment.
ReAddEvent(r) ==
    LET done == ~\E q \in Registry : q # r /\ q \in lClockedEvents /\ nBaseCycle[q] = currentBaseCycle
    IN  /\ serverPc = "readd"
        /\ r \in lClockedEvents /\ nBaseCycle[r] = currentBaseCycle
        /\ nCycle' = [nCycle EXCEPT ![r] = @ + 1]
        /\ nBaseCycle' = [nBaseCycle EXCEPT ![r] = @ + nStep[r]]
        /\ serverPc' = IF ~done THEN "readd" ELSE IF variant.readds THEN "wait" ELSE "idle"
        /\ UNCHANGED <<variant, nStep, clockVars, target, pending, restarts, barrierVars,
                       workerPc, flagVars, tasks_completed, barrierPhase, tasks, calls>>

-----------------------------------------------------------------------------
(* ThreadWork *)

ThreadStart(t) ==
    /\ workerPc[t] = "boot"
    /\ threadActive' = [threadActive EXCEPT ![t] = TRUE]
    /\ workerPc' = [workerPc EXCEPT ![t] = "lock"]
    /\ UNCHANGED <<variant, regVars, nStep, clockVars, serverPc, target, pending, restarts,
                   barrierVars, threadForceExit, tasks_completed, barrierPhase, tasks, calls>>

LockTaskList(t) ==
    /\ workerPc[t] = "lock"
    /\ workerPc' = [workerPc EXCEPT ![t] = "test"]
    /\ UNCHANGED <<variant, regVars, nStep, clockVars, serverPc, target, pending, restarts,
                   barrierVars, flagVars, tasks_completed, barrierPhase, tasks, calls>>

\* SPIN_WAIT_CONDITION
MustWait(t) ==
    IF variant.single THEN BarrierCurPhase = barrierPhase[t] /\ ~threadForceExit[t]
    ELSE tasks_completed[t]

WaitForWork(t) ==
    /\ workerPc[t] = "test" /\ MustWait(t) /\ variant.signalling
    /\ workerPc' = [workerPc EXCEPT ![t] = "asleep"]
    /\ UNCHANGED <<variant, regVars, nStep, clockVars, serverPc, target, pending, restarts,
                   barrierVars, flagVars, tasks_completed, barrierPhase, tasks, calls>>

SpinForWork(t) ==
    /\ workerPc[t] = "test" /\ MustWait(t) /\ ~variant.signalling
    /\ UNCHANGED vars

\* NOTIFY_DONE, and with signalling the broadcast of finish_condition.
NotifyDone(t) ==
    /\ tasks_completed' = [tasks_completed EXCEPT ![t] = TRUE]
    /\ IF variant.single
       THEN /\ barrierPhase' = [barrierPhase EXCEPT ![t] = ~@]
            /\ BarrierCount' = BarrierCount - 1
       ELSE UNCHANGED <<barrierPhase, BarrierCount>>

ThreadExit(t) ==
    /\ workerPc[t] = "test" /\ ~MustWait(t) /\ threadForceExit[t]
    /\ NotifyDone(t)
    /\ workerPc' = [workerPc EXCEPT ![t] = "exited"]
    /\ UNCHANGED <<variant, regVars, nStep, clockVars, serverPc, target, pending, restarts,
                   BarrierCurPhase, flagVars, tasks, calls>>

StartTasks(t) ==
    /\ workerPc[t] = "test" /\ ~MustWait(t) /\ ~threadForceExit[t]
    /\ workerPc' = [workerPc EXCEPT ![t] = "run"]
    /\ UNCHANGED <<variant, regVars, nStep, clockVars, serverPc, target, pending, restarts,
                   barrierVars, flagVars, tasks_completed, barrierPhase, tasks, calls>>

\* One work item; the module may call SetDomainFrequency on a domain (the
\* loop over its registries is one step here).
RunTask(t, c, d, s) ==
    /\ workerPc[t] = "run" /\ c \in tasks[t]
    /\ c \in WriterRM => tasks[t] \subseteq WriterRM
    /\ tasks' = [tasks EXCEPT ![t] = @ \ {c}]
    /\ calls' = [calls EXCEPT ![c] = @ + 1]
    /\ nStep' = [r \in Registry |-> IF regDomain[r] = d THEN s ELSE nStep[r]]
    /\ UNCHANGED <<variant, regVars, clockVars, serverPc, target, pending, restarts,
                   barrierVars, workerPc, flagVars, tasks_completed, barrierPhase>>

\* Mutant: the worker reports before its queue is empty.
TasksDoneEarly(t) == \A c \in tasks[t] : c \in WriterRM

TasksDone(t) == tasks[t] = {}

FinishTasks(t) ==
    /\ workerPc[t] = "run" /\ TasksDone(t)
    /\ NotifyDone(t)
    /\ serverPc' = IF serverPc = "asleep" /\ target = t THEN "wait" ELSE serverPc
    /\ target' = IF serverPc = "asleep" /\ target = t THEN NoThread ELSE target
    /\ workerPc' = [workerPc EXCEPT ![t] = "test"]
    /\ UNCHANGED <<variant, regVars, nStep, clockVars, pending, restarts, BarrierCurPhase,
                   flagVars, tasks, calls>>

-----------------------------------------------------------------------------
LifeCycle ==
    \/ PthreadCreated \/ ForceExit \/ PthreadJoined
    \/ \E t \in Thread : CreatePthread(t) \/ (serverPc = "stop" /\ DestroyPthread(t))

ThreadedClock ==
    \/ SetBarrierCount \/ FlipPhase \/ BarrierEmpty
    \/ \E t \in Thread : PerformTasksThreaded(t) \/ CheckAllTasksCompleted(t)
    \/ \E r \in Registry : ReAddEvent(r)

Controller ==
    \/ \E r \in Registry : PopAndAssign(nBaseCycle[r])
    \/ serverPc = "idle" /\ \E t \in Thread : DestroyPthread(t)
    \/ InitClockServer \/ FrontOfEmpty

Worker(t) ==
    \/ ThreadStart(t) \/ LockTaskList(t) \/ WaitForWork(t) \/ ThreadExit(t) \/ StartTasks(t)
    \/ FinishTasks(t)
    \/ \E c \in Callback, d \in Domain : \E s \in Steps[d] : RunTask(t, c, d, s)

\* The server has been stopped, or the program has ended.
Stopped == serverPc \in {"off", "failed"} /\ UNCHANGED vars

Next == LifeCycle \/ ThreadedClock \/ Controller \/ Stopped \/ \E t \in Thread : Worker(t) \/ SpinForWork(t)

Spec == Init /\ [][Next]_vars

\* The server and every worker run in threads of the operating system; calling
\* Clock() and StopClockServer() is the controller's choice.
FairSpec == Spec /\ WF_vars(LifeCycle) /\ WF_vars(ThreadedClock) /\ \A t \in Thread : WF_vars(Worker(t))

-----------------------------------------------------------------------------
(* Properties *)

TypeOK ==
    /\ variant \in Variants
    /\ serverPc \in {"create", "idle", "start", "flip", "wait", "asleep", "readd",
                    "force", "stop", "off", "failed"}
    /\ workerPc \in [Thread -> {"none", "boot", "lock", "test", "asleep", "run", "exited"}]
    /\ nBaseCycle \in [Registry -> Nat] /\ nCycle \in [Registry -> Nat]
    /\ nStep \in [Registry -> Nat \ {0}]
    /\ lClockedEvents \subseteq Registry /\ currentBaseCycle \in Nat
    /\ target \in Thread \cup {NoThread} /\ pending \subseteq Thread
    /\ BarrierCount \in Int /\ BarrierCurPhase \in BOOLEAN
    /\ threadActive \in [Thread -> BOOLEAN] /\ threadForceExit \in [Thread -> BOOLEAN]
    /\ tasks_completed \in [Thread -> BOOLEAN] /\ barrierPhase \in [Thread -> BOOLEAN]
    /\ tasks \in [Thread -> SUBSET Callback] /\ restarts \in Nat /\ calls \in [Callback -> Nat]

\* "It is not necessary to get the lock since we are using a cycle-by-cycle
\* barrier" (AssignTask): while the server is between two clocks no worker is
\* inside its queue, and none has been left with a task.
UnlockedAssignIsSafe ==
    TypeOK /\ (serverPc = "idle" => \A t \in Thread : tasks[t] = {} /\ workerPc[t] # "run")

\* The registries as a caller of Clock() sees them: the clocked events move
\* to their next cycle when the last of the workers and of the insertions is done.
InClock == serverPc \in {"start", "flip", "wait", "asleep", "readd"}
Advanced(r) == InClock /\ r \in lClockedEvents /\ nBaseCycle[r] > currentBaseCycle

Contract == INSTANCE ClockContract WITH
    Lookahead  <- 0,
    nBaseCycle <- [r \in Registry |-> IF Advanced(r) THEN currentBaseCycle ELSE nBaseCycle[r]],
    nCycle     <- [r \in Registry |-> IF Advanced(r) THEN nCycle[r] - 1 ELSE nCycle[r]]

\* Clock() runs the callbacks of one base cycle, each once, all of them before
\* it returns, whichever barrier is compiled in.
ImplementsContract == Contract!Spec

\* InitClockServer, Clock() and StopClockServer() return: neither the server
\* nor a worker sleeps through the other's signal.
ServerCallsReturn ==
    /\ (serverPc = "create") ~> (serverPc = "idle")
    /\ InClock ~> (serverPc = "idle")
    /\ (serverPc \in {"stop", "force"}) ~> (serverPc = "off")
=============================================================================
