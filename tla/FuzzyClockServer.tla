-------------------------- MODULE FuzzyClockServer --------------------------
(***************************************************************************)
(* The threaded clock server with a fuzzy barrier                          *)
(* (clockserver_threaded_fuzzy.cpp, with the thread life cycle and         *)
(* SetDomainFrequency of clockserver.cpp).                                 *)
(*                                                                         *)
(* The server thread publishes a base cycle in GlobalReadyTime and waits   *)
(* until every worker has published a localDoneTime at least as large; it  *)
(* then advances the due registries under GlobalTimeEventsLock.  A worker  *)
(* looks, under the same lock, for the next event within the lookahead     *)
(* window, calls its own callbacks of that event outside the lock, and     *)
(* publishes the time it has finished.                                     *)
(*                                                                         *)
(* The time-event list holds every registry, ordered by nBaseCycle; it is  *)
(* represented by nBaseCycle itself.  What the code reads from the list is *)
(* the earliest time and the events of one time, and a worker may call the *)
(* callbacks of one time in any order here (the list fixes one of them).   *)
(***************************************************************************)
EXTENDS Integers, FiniteSets

CONSTANTS
    Thread,       \* clock server threads (lThreads)
    NoThread,     \* the server is not creating or joining a thread
    Registry,     \* clock registries
    Domain,       \* clock domains
    regDomain,    \* domain of each registry
    nSkew,        \* skew of each registry, in percent of its period
    Callback,     \* module and rate-matcher callbacks
    cbReg,        \* registry of each callback
    cbThread,     \* thread that clocks each callback
    WriterRM,     \* the callbacks in lWriterRM; the others are in lModules
    Lookahead,    \* CLOCKSERVER_FUZZY_BARRIER_LOOKAHEAD
    InitStep,     \* period of each domain at its initial frequency
    Steps,        \* periods of each domain's allowed frequencies
    UninitTime,   \* values a localDoneTime no constructor sets may hold
    MaxTime,      \* bound: Clock() is not called past this base cycle
    MaxRestarts   \* bound: how often the server is initialised again

ASSUME FuzzyConstants ==
    /\ Thread # {} /\ NoThread \notin Thread
    /\ Registry # {} /\ IsFiniteSet(Registry)
    /\ regDomain \in [Registry -> Domain]
    /\ nSkew \in [Registry -> 0..99]
    /\ cbReg \in [Callback -> Registry]
    /\ cbThread \in [Callback -> Thread]
    /\ WriterRM \subseteq Callback
    /\ Lookahead \in Nat
    /\ Steps \in [Domain -> SUBSET (Nat \ {0})]
    /\ InitStep \in [Domain -> Nat]
    /\ \A d \in Domain : InitStep[d] \in Steps[d]
    /\ UninitTime \subseteq Int /\ UninitTime # {}
    /\ MaxTime \in Nat /\ MaxRestarts \in Nat

VARIABLES
    \* the time-event list and the clock domains
    nBaseCycle,       \* base cycle at which each registry is due
    nCycle,           \* cycles completed by each registry
    nStep,            \* period of each registry in base cycles
    currentStep,      \* period of each domain's currentFrequency
    \* the server thread
    serverPc,         \* "create", "idle", "clock", "stop" or "off"
    target,           \* the thread being created or joined
    GlobalReadyTime,  \* base cycle the workers may execute
    restarts,         \* how often the server was initialised again
    \* the worker threads
    workerPc,         \* "none", "boot", "init", "wait", "find", "run", "freq", "exited"
    threadActive,
    threadForceExit,
    localReadyTime,   \* time being processed
    localDoneTime,    \* time published as finished
    lastTimeFailed,   \* last GlobalReadyTime at which no work was found
    todo,             \* callbacks of the collected events still to be called
    workDone,         \* was a callback called at localReadyTime?
    \* SetDomainFrequency, called from a callback
    mayChange,        \* the callback being run has not changed a frequency
    newStep,          \* period being installed
    left,             \* registries of the domain still to be updated
    \* the callbacks
    currentCycle,     \* cycle number passed to the last call
    calls             \* number of calls (history)

eventVars  == <<nBaseCycle, nCycle, nStep, currentStep>>
serverVars == <<serverPc, target, GlobalReadyTime, restarts>>
threadVars == <<threadActive, threadForceExit>>
timeVars   == <<localReadyTime, localDoneTime, lastTimeFailed>>
workVars   == <<todo, workDone>>
freqVars   == <<mayChange, newStep, left>>
cbVars     == <<currentCycle, calls>>
vars == <<eventVars, serverVars, workerPc, threadVars, timeVars, workVars,
          freqVars, cbVars>>

-----------------------------------------------------------------------------
\* nBaseCycle computed by InitClockServer: nSkew * Bf / nFrequency.
SkewTime(r, step) == (nSkew[r] * step) \div 100

\* The VERIFY of InitClockServerThreaded, over the current frequencies.
LookaheadFits(step) == \A r \in Registry : Lookahead < step[regDomain[r]]

IsEarliest(t) == /\ \E r \in Registry : nBaseCycle[r] = t
                 /\ \A r \in Registry : t <= nBaseCycle[r]

Due(t) == {r \in Registry : nBaseCycle[r] = t}

Init ==
    /\ LookaheadFits(InitStep)
    /\ currentStep = InitStep
    /\ nStep = [r \in Registry |-> InitStep[regDomain[r]]]
    /\ nBaseCycle = [r \in Registry |-> SkewTime(r, InitStep[regDomain[r]])]
    /\ nCycle = [r \in Registry |-> 0]
    /\ serverPc = "create" /\ target = NoThread
    /\ GlobalReadyTime = -1
    /\ restarts = 0
    /\ workerPc = [t \in Thread |-> "none"]
    /\ threadActive = [t \in Thread |-> FALSE]
    /\ threadForceExit = [t \in Thread |-> FALSE]
    /\ localReadyTime = [t \in Thread |-> -1]
    /\ localDoneTime \in [Thread -> UninitTime]
    /\ lastTimeFailed = [t \in Thread |-> -1]
    /\ todo = [t \in Thread |-> {}]
    /\ workDone = [t \in Thread |-> FALSE]
    /\ mayChange = [t \in Thread |-> FALSE]
    /\ newStep = [t \in Thread |-> 0]
    /\ left = [t \in Thread |-> {}]
    /\ currentCycle = [c \in Callback |-> 0]
    /\ calls = [c \in Callback |-> 0]

-----------------------------------------------------------------------------
(* The server thread: thread life cycle *)

\* CreatePthread starts the pthread and spins until it is active.
CreatePthread(t) ==
    /\ serverPc = "create" /\ target = NoThread
    /\ workerPc[t] = "none"
    /\ target' = t
    /\ threadForceExit' = [threadForceExit EXCEPT ![t] = FALSE]
    /\ workerPc' = [workerPc EXCEPT ![t] = "boot"]
    /\ UNCHANGED <<eventVars, serverPc, GlobalReadyTime, restarts, threadActive,
                   timeVars, workVars, freqVars, cbVars>>

PthreadCreated ==
    /\ serverPc = "create" /\ target # NoThread
    /\ threadActive[target]
    /\ target' = NoThread
    /\ serverPc' = IF \A t \in Thread : workerPc[t] # "none" THEN "idle" ELSE "create"
    /\ UNCHANGED <<eventVars, GlobalReadyTime, restarts, workerPc, threadVars,
                   timeVars, workVars, freqVars, cbVars>>

StopClockServer ==
    /\ serverPc = "idle"
    /\ serverPc' = "stop"
    /\ UNCHANGED <<eventVars, target, GlobalReadyTime, restarts, workerPc, threadVars,
                   timeVars, workVars, freqVars, cbVars>>

\* DestroyPthread asks the thread to exit and joins it.
DestroyPthread(t) ==
    /\ serverPc = "stop" /\ target = NoThread
    /\ threadActive[t]
    /\ target' = t
    /\ threadForceExit' = [threadForceExit EXCEPT ![t] = TRUE]
    /\ UNCHANGED <<eventVars, serverPc, GlobalReadyTime, restarts, workerPc, threadActive,
                   timeVars, workVars, freqVars, cbVars>>

PthreadJoined ==
    /\ serverPc = "stop" /\ target # NoThread
    /\ workerPc[target] = "exited"
    /\ threadActive' = [threadActive EXCEPT ![target] = FALSE]
    /\ target' = NoThread
    /\ serverPc' = IF \A t \in Thread \ {target} : ~threadActive[t] THEN "off" ELSE "stop"
    /\ UNCHANGED <<eventVars, GlobalReadyTime, restarts, workerPc, threadForceExit,
                   timeVars, workVars, freqVars, cbVars>>

\* UnregisterAll followed by the registration of the same clocks and another
\* InitClockServer.  The domains keep their current frequency, the thread
\* objects their localDoneTime; GlobalReadyTime is a static nothing resets.
InitClockServer ==
    /\ serverPc = "off" /\ restarts < MaxRestarts
    /\ LookaheadFits(currentStep)
    /\ restarts' = restarts + 1
    /\ serverPc' = "create"
    /\ nStep' = [r \in Registry |-> currentStep[regDomain[r]]]
    /\ nBaseCycle' = [r \in Registry |-> SkewTime(r, currentStep[regDomain[r]])]
    /\ nCycle' = [r \in Registry |-> 0]
    /\ workerPc' = [t \in Thread |-> "none"]
    /\ currentCycle' = [c \in Callback |-> 0]
    /\ calls' = [c \in Callback |-> 0]
    /\ UNCHANGED <<currentStep, target, GlobalReadyTime, threadVars, timeVars,
                   workVars, freqVars>>

-----------------------------------------------------------------------------
(* The server thread: ThreadedClock *)

ClockBegin(t) ==
    /\ serverPc = "idle"
    /\ IsEarliest(t) /\ t <= MaxTime
    /\ GlobalReadyTime' = t
    /\ serverPc' = "clock"
    /\ UNCHANGED <<eventVars, target, restarts, workerPc, threadVars, timeVars,
                   workVars, freqVars, cbVars>>

\* Mutant: the barrier opens for the first thread that is done.
GlobalDoneFirst == \E t \in Thread : localDoneTime[t] >= GlobalReadyTime

\* GetGlobalDoneTime() >= currentBaseCycle.  localDoneTime only grows while the
\* threads run, so the scan over the threads is one step.
GlobalDone == \A t \in Thread : localDoneTime[t] >= GlobalReadyTime

\* Past the barrier: every event of the current time is popped, advanced by
\* its current step and inserted again, under the lock.
AdvanceEvents ==
    /\ nCycle' = [r \in Registry |->
                    IF r \in Due(GlobalReadyTime) THEN nCycle[r] + 1 ELSE nCycle[r]]
    /\ nBaseCycle' = [r \in Registry |->
                    IF r \in Due(GlobalReadyTime) THEN nBaseCycle[r] + nStep[r] ELSE nBaseCycle[r]]

ClockEnd ==
    /\ serverPc = "clock" /\ GlobalDone
    /\ AdvanceEvents
    /\ serverPc' = "idle"
    /\ UNCHANGED <<nStep, currentStep, target, GlobalReadyTime, restarts, workerPc,
                   threadVars, timeVars, workVars, freqVars, cbVars>>

-----------------------------------------------------------------------------
(* A worker thread: ThreadWork *)

\* threadActive is set first ...
ThreadStart(t) ==
    /\ workerPc[t] = "boot"
    /\ threadActive' = [threadActive EXCEPT ![t] = TRUE]
    /\ workerPc' = [workerPc EXCEPT ![t] = "init"]
    /\ UNCHANGED <<eventVars, serverVars, threadForceExit, timeVars, workVars,
                   freqVars, cbVars>>

\* Mutant: localDoneTime starts at the first base cycle.
ThreadInitAtZero(t) ==
    /\ workerPc[t] = "init"
    /\ localReadyTime' = [localReadyTime EXCEPT ![t] = -1]
    /\ localDoneTime' = [localDoneTime EXCEPT ![t] = 0]
    /\ lastTimeFailed' = [lastTimeFailed EXCEPT ![t] = -1]
    /\ workerPc' = [workerPc EXCEPT ![t] = "wait"]
    /\ UNCHANGED <<eventVars, serverVars, threadVars, workVars, freqVars, cbVars>>

\* ... and localDoneTime after it.
ThreadInit(t) ==
    /\ workerPc[t] = "init"
    /\ localReadyTime' = [localReadyTime EXCEPT ![t] = -1]
    /\ localDoneTime' = [localDoneTime EXCEPT ![t] = -1]
    /\ lastTimeFailed' = [lastTimeFailed EXCEPT ![t] = -1]
    /\ workerPc' = [workerPc EXCEPT ![t] = "wait"]
    /\ UNCHANGED <<eventVars, serverVars, threadVars, workVars, freqVars, cbVars>>

MustWait(t) == \/ localDoneTime[t] >= GlobalReadyTime + Lookahead
               \/ GlobalReadyTime = lastTimeFailed[t]

\* Mutant: the exit request is seen only by a thread that has used its lookahead.
ThreadExitAhead(t) ==
    /\ workerPc[t] = "wait" /\ localDoneTime[t] >= GlobalReadyTime + Lookahead
    /\ threadForceExit[t]
    /\ localDoneTime' = [localDoneTime EXCEPT ![t] = GlobalReadyTime]
    /\ workerPc' = [workerPc EXCEPT ![t] = "exited"]
    /\ UNCHANGED <<eventVars, serverVars, threadVars, localReadyTime, lastTimeFailed,
                   workVars, freqVars, cbVars>>

ThreadExit(t) ==
    /\ workerPc[t] = "wait" /\ MustWait(t) /\ threadForceExit[t]
    /\ localDoneTime' = [localDoneTime EXCEPT ![t] = GlobalReadyTime]
    /\ workerPc' = [workerPc EXCEPT ![t] = "exited"]
    /\ UNCHANGED <<eventVars, serverVars, threadVars, localReadyTime, lastTimeFailed,
                   workVars, freqVars, cbVars>>

\* The wait ends and GlobalReadyTime is read, before the lock is taken.
EndWait(t) ==
    /\ workerPc[t] = "wait" /\ ~MustWait(t)
    /\ localReadyTime' = [localReadyTime EXCEPT ![t] = GlobalReadyTime]
    /\ lastTimeFailed' = [lastTimeFailed EXCEPT ![t] = GlobalReadyTime]
    /\ workerPc' = [workerPc EXCEPT ![t] = "find"]
    /\ UNCHANGED <<eventVars, serverVars, threadVars, localDoneTime, workVars,
                   freqVars, cbVars>>

\* Mutants: the window is one cycle too long, or includes the time just done.
WindowTooLong(t) == {e \in {nBaseCycle[r] : r \in Registry} :
                 localDoneTime[t] < e /\ e <= GlobalReadyTime + Lookahead + 1}

WindowOfDone(t) == {e \in {nBaseCycle[r] : r \in Registry} :
                 localDoneTime[t] <= e /\ e <= GlobalReadyTime + Lookahead}

\* The times after localDoneTime that lie in the lookahead window.
Window(t) == {e \in {nBaseCycle[r] : r \in Registry} :
                 localDoneTime[t] < e /\ e <= GlobalReadyTime + Lookahead}

\* Mutant: the search takes any event of the window, not the first.
IsAnyTime(t, e) ==
    \/ localReadyTime[t] > localDoneTime[t] /\ e = localReadyTime[t]
    \/ /\ localReadyTime[t] <= localDoneTime[t]
       /\ \/ Window(t) = {} /\ e = localDoneTime[t] + 1
          \/ e \in Window(t)

\* The time to process next, as the search under the lock finds it.
IsNextTime(t, e) ==
    \/ localReadyTime[t] > localDoneTime[t] /\ e = localReadyTime[t]
    \/ /\ localReadyTime[t] <= localDoneTime[t]
       /\ \/ Window(t) = {} /\ e = localDoneTime[t] + 1
          \/ e \in Window(t) /\ \A w \in Window(t) : e <= w

CallbacksAt(t, e) == {c \in Callback : cbThread[c] = t /\ nBaseCycle[cbReg[c]] = e}

FindEvents(t, e) ==
    /\ workerPc[t] = "find"
    /\ IsNextTime(t, e)
    /\ localReadyTime' = [localReadyTime EXCEPT ![t] = e]
    /\ todo' = [todo EXCEPT ![t] = CallbacksAt(t, e)]
    /\ workDone' = [workDone EXCEPT ![t] = FALSE]
    /\ workerPc' = [workerPc EXCEPT ![t] = "run"]
    /\ UNCHANGED <<eventVars, serverVars, threadVars, localDoneTime, lastTimeFailed,
                   freqVars, cbVars>>

\* One callback is called; the writer rate matchers after all the modules.
RunCallback(t, c) ==
    /\ workerPc[t] = "run" /\ c \in todo[t]
    /\ c \in WriterRM => todo[t] \subseteq WriterRM
    /\ currentCycle' = [currentCycle EXCEPT ![c] = nCycle[cbReg[c]]]
    /\ calls' = [calls EXCEPT ![c] = @ + 1]
    /\ todo' = [todo EXCEPT ![t] = @ \ {c}]
    /\ workDone' = [workDone EXCEPT ![t] = TRUE]
    /\ mayChange' = [mayChange EXCEPT ![t] = TRUE]
    /\ UNCHANGED <<eventVars, serverVars, workerPc, threadVars, timeVars, newStep, left>>

\* The time is published as done; a thread that worked may look again at once.
FinishTime(t) ==
    /\ workerPc[t] = "run" /\ todo[t] = {}
    /\ lastTimeFailed' = [lastTimeFailed EXCEPT ![t] = IF workDone[t] THEN -1 ELSE @]
    /\ localDoneTime' = [localDoneTime EXCEPT ![t] = localReadyTime[t]]
    /\ mayChange' = [mayChange EXCEPT ![t] = FALSE]
    /\ workerPc' = [workerPc EXCEPT ![t] = "wait"]
    /\ UNCHANGED <<eventVars, serverVars, threadVars, localReadyTime, workVars,
                   newStep, left, cbVars>>

-----------------------------------------------------------------------------
(* SetDomainFrequency, called by a module from its callback.  It holds no   *)
(* lock, so each registry of the domain is a step of its own.               *)

SetDomainFrequency(t, d, s) ==
    /\ workerPc[t] = "run" /\ mayChange[t]
    /\ s \in Steps[d] /\ s # currentStep[d]
    /\ currentStep' = [currentStep EXCEPT ![d] = s]
    /\ newStep' = [newStep EXCEPT ![t] = s]
    /\ left' = [left EXCEPT ![t] = {r \in Registry : regDomain[r] = d}]
    /\ mayChange' = [mayChange EXCEPT ![t] = FALSE]
    /\ workerPc' = [workerPc EXCEPT ![t] = "freq"]
    /\ UNCHANGED <<nBaseCycle, nCycle, nStep, serverVars, threadVars, timeVars,
                   workVars, cbVars>>

SetRegistryStep(t, r) ==
    /\ workerPc[t] = "freq" /\ r \in left[t]
    /\ nStep' = [nStep EXCEPT ![r] = newStep[t]]
    /\ left' = [left EXCEPT ![t] = @ \ {r}]
    /\ UNCHANGED <<nBaseCycle, nCycle, currentStep, serverVars, workerPc, threadVars,
                   timeVars, workVars, mayChange, newStep, cbVars>>

FrequencySet(t) ==
    /\ workerPc[t] = "freq" /\ left[t] = {}
    /\ workerPc' = [workerPc EXCEPT ![t] = "run"]
    /\ UNCHANGED <<eventVars, serverVars, threadVars, timeVars, workVars, freqVars, cbVars>>

-----------------------------------------------------------------------------
Server ==
    \/ \E t \in Thread : CreatePthread(t) \/ DestroyPthread(t)
    \/ PthreadCreated \/ StopClockServer \/ PthreadJoined \/ InitClockServer
    \/ \E r \in Registry : ClockBegin(nBaseCycle[r])
    \/ ClockEnd

\* The candidate times of a search: the ready time, the next base cycle or
\* the time of some event.
Worker(t) ==
    \/ ThreadStart(t) \/ ThreadInit(t) \/ ThreadExit(t) \/ EndWait(t)
    \/ \E e \in {localReadyTime[t], localDoneTime[t] + 1} \cup Window(t) : FindEvents(t, e)
    \/ \E c \in Callback : RunCallback(t, c)
    \/ FinishTime(t)
    \/ \E r \in Registry : SetRegistryStep(t, r)
    \/ FrequencySet(t)

\* The stopped server: nothing runs until it is initialised again.
Stopped == serverPc = "off" /\ UNCHANGED vars

Next ==
    \/ Server
    \/ Stopped
    \/ \E t \in Thread : Worker(t)
    \/ \E t \in Thread, d \in Domain : \E s \in Steps[d] : SetDomainFrequency(t, d, s)

Spec == Init /\ [][Next]_vars

\* Every thread is scheduled again and again (the spin loops call sched_yield);
\* calling Clock() and StopClockServer() is the controller's choice.
FairSpec ==
    /\ Spec
    /\ \A t \in Thread : WF_vars(Worker(t)) /\ WF_vars(CreatePthread(t) \/ DestroyPthread(t))
    /\ WF_vars(PthreadCreated \/ PthreadJoined \/ ClockEnd)
-----------------------------------------------------------------------------
(* Properties *)

Contract == INSTANCE ClockContract

\* The types of the clock server's and its threads' variables.
TypeOK ==
    /\ nBaseCycle \in [Registry -> Nat] /\ nCycle \in [Registry -> Nat]
    /\ nStep \in [Registry -> Nat \ {0}]
    /\ currentStep \in [Domain -> Nat \ {0}]
    /\ serverPc \in {"create", "idle", "clock", "stop", "off"}
    /\ target \in Thread \cup {NoThread}
    /\ GlobalReadyTime \in Nat \cup {-1} /\ restarts \in 0..MaxRestarts
    /\ workerPc \in [Thread -> {"none", "boot", "init", "wait", "find", "run", "freq", "exited"}]
    /\ threadActive \in [Thread -> BOOLEAN] /\ threadForceExit \in [Thread -> BOOLEAN]
    /\ localReadyTime \in [Thread -> Int] /\ localDoneTime \in [Thread -> Int]
    /\ lastTimeFailed \in [Thread -> Int]
    /\ todo \in [Thread -> SUBSET Callback] /\ workDone \in [Thread -> BOOLEAN]
    /\ mayChange \in [Thread -> BOOLEAN]
    /\ newStep \in [Thread -> Nat] /\ left \in [Thread -> SUBSET Registry]
    /\ \A t \in Thread : left[t] # {} => newStep[t] > 0
    /\ currentCycle \in [Callback -> Nat] /\ calls \in [Callback -> Nat]

\* The fuzzy barrier is a clock server: every callback is called once per cycle
\* of its registry, a registry advances only after its callbacks have run, the
\* earliest first, and no thread runs ahead by more than the lookahead.
ImplementsContract == Contract!Spec

\* "verify that we are getting a callback on each cycle, in order"
\* (t/clockserver_test.h): the k-th call of a callback is for cycle k - 1.
CallbacksInOrder ==
    [][\A c \in Callback :
         calls'[c] = calls[c] + 1 => currentCycle'[c] = calls[c]]_vars

Working(t) == workerPc[t] \in {"run", "freq"}

\* Two threads that are clocking modules at the same moment are at most the
\* lookahead apart in simulated time, whatever either of them found to do.
ThreadsWithinLookahead ==
    \A t, u \in Thread :
        Working(t) /\ todo[t] # {} /\ Working(u) /\ todo[u] # {}
            => localReadyTime[t] - localReadyTime[u] <= Lookahead

\* A thread that is clocking an event at time e has already clocked all its
\* callbacks that are due before e.
NothingLeftBehind ==
    \A t \in Thread, c \in Callback :
        Working(t) /\ cbThread[c] = t /\ nBaseCycle[cbReg[c]] < localReadyTime[t]
            => calls[c] = nCycle[cbReg[c]] + 1

\* "They wait for the clock server to advance the simulation time"
\* (ThreadWork): no worker looks for work before the first Clock().
IdleUntilFirstClock ==
    serverPc = "create" => \A t \in Thread : workerPc[t] \notin {"find", "run", "freq"}

\* Starting, clocking and stopping the server all come to an end.
ServerCallsReturn ==
    \A p \in {"create", "clock", "stop"} : (serverPc = p) ~> (serverPc # p)

-----------------------------------------------------------------------------
(* The inductive invariant behind these properties.  It needs what the code *)
(* relies on without checking it.                                           *)

\* The server is initialised once, a new thread object starts out with a
\* negative localDoneTime, and no allowed frequency has a period within the
\* lookahead.
SafeParameters ==
    /\ MaxRestarts = 0
    /\ \A u \in UninitTime : u < 0
    /\ \A d \in Domain : \A s \in Steps[d] : Lookahead < s

Booting(t) == workerPc[t] \in {"none", "boot", "init"}

\* No event is inserted within the lookahead window.
StepInv ==
    /\ \A d \in Domain : Lookahead < currentStep[d]
    /\ \A r \in Registry : Lookahead < nStep[r]
    /\ \A t \in Thread : left[t] # {} => Lookahead < newStep[t]

\* GlobalReadyTime is never past an event, and is that of an event while the
\* server waits at the barrier.
TimeInv ==
    /\ \A r \in Registry : GlobalReadyTime <= nBaseCycle[r]
    /\ serverPc = "clock" => \E r \in Registry : nBaseCycle[r] = GlobalReadyTime

\* A thread that has not set its localDoneTime yet holds the barrier closed;
\* until the first Clock() the others have nothing to do.
StartInv ==
    /\ serverPc = "create" => GlobalReadyTime = -1
    /\ \A t \in Thread :
        /\ Booting(t) => localDoneTime[t] < 0 /\ (serverPc # "clock" => GlobalReadyTime = -1)
        /\ GlobalReadyTime = -1 =>
              Booting(t) \/ workerPc[t] = "exited" \/ (workerPc[t] = "wait" /\ lastTimeFailed[t] = -1)
        /\ threadForceExit[t] => serverPc \in {"stop", "off"}
        /\ workerPc[t] = "exited" => serverPc \in {"stop", "off"}

\* A thread's finished time lies in the lookahead window, and has reached
\* GlobalReadyTime unless the server waits for it.
DoneInv ==
    \A t \in Thread : ~Booting(t) =>
        /\ localDoneTime[t] <= GlobalReadyTime + Lookahead
        /\ serverPc # "clock" => GlobalReadyTime <= localDoneTime[t]

\* A GlobalReadyTime read before the lock was taken is stale only if the
\* thread had already finished it.
ReadyInv ==
    \A t \in Thread :
        /\ workerPc[t] = "find" =>
              /\ localDoneTime[t] < GlobalReadyTime + Lookahead
              /\ localReadyTime[t] <= GlobalReadyTime
              /\ localDoneTime[t] < localReadyTime[t] => localReadyTime[t] = GlobalReadyTime
        /\ Working(t) =>
              /\ localDoneTime[t] < localReadyTime[t]
              /\ localReadyTime[t] <= GlobalReadyTime + Lookahead
              /\ todo[t] \subseteq CallbacksAt(t, localReadyTime[t])

\* What has been called: a thread's finished time, and at the time it is
\* working on the callbacks no longer in todo.
Called(c) ==
    LET t == cbThread[c]
        e == nBaseCycle[cbReg[c]]
    IN  e <= localDoneTime[t] \/ (Working(t) /\ e = localReadyTime[t] /\ c \notin todo[t])

CallInv ==
    \A c \in Callback :
        /\ workerPc[cbThread[c]] = "exited" =>
              calls[c] \in {nCycle[cbReg[c]], nCycle[cbReg[c]] + 1}
        /\ workerPc[cbThread[c]] # "exited" =>
              calls[c] = IF Called(c) THEN nCycle[cbReg[c]] + 1 ELSE nCycle[cbReg[c]]
        /\ Working(cbThread[c]) =>
              \/ nBaseCycle[cbReg[c]] <= localDoneTime[cbThread[c]]
              \/ nBaseCycle[cbReg[c]] >= localReadyTime[cbThread[c]]

IInv == TypeOK /\ StepInv /\ TimeInv /\ StartInv /\ DoneInv /\ ReadyInv /\ CallInv
=============================================================================
