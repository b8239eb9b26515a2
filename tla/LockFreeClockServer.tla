------------------------ MODULE LockFreeClockServer ------------------------
(***************************************************************************)
(* The threaded clock server with a fuzzy barrier and a lock-free event    *)
(* list (clockserver_threaded_lockfree.cpp and time_events_ring.h).        *)
(*                                                                         *)
(* Workers walk TimeEventsRing between head and limit without a lock;      *)
(* every read or write of a shared index is a step.                        *)
(***************************************************************************)
EXTENDS TimeEventsRing

CONSTANTS
    Thread, NoThread,
    Scenarios,    \* sets of behaviours explored together, see Scenario
    Callback, cbReg, cbThread, WriterRM,
    UninitTime    \* what a localDoneTime no constructor sets may hold

\* What the model does: the periods of the frequencies a module may set,
\* whether the server is initialised a second time, and a bound: Clock() is
\* not called past base cycle maxTime.
Scenario == [steps : [Registry -> SUBSET (1..10)], again : BOOLEAN, maxTime : Nat]

ASSUME LockFreeConstants ==
    /\ Thread # {} /\ NoThread \notin Thread
    /\ \A s \in Scenarios : s \in Scenario
    /\ cbReg \in [Callback -> Registry] /\ cbThread \in [Callback -> Thread]
    /\ WriterRM \subseteq Callback
    /\ UninitTime \subseteq Int /\ UninitTime # {}

VARIABLES
    scenario,
    target,           \* the thread being created or joined; serverPc is also "create",
                      \* "stop" or "off" here
    \* the worker threads
    workerPc,         \* "none", "boot", "init", "head", "limit", "read", "run", "exited"
    threadActive, threadForceExit,
    localDoneTime,
    index,            \* myNextEvent
    snapshotHead,     \* the head is_ready has read
    localReadyTime,
    collecting,       \* in the loop that collects the events of localReadyTime
    clocked,          \* lClockedEvents
    todo,             \* callbacks of clocked still to be called
    mayChange,        \* the callback being run has not changed a frequency
    \* the callbacks
    currentCycle,     \* cycle number passed to the last call
    calls             \* number of calls (history)

threadVars   == <<threadActive, threadForceExit>>
workVars     == <<localReadyTime, collecting, clocked, todo, mayChange>>
workerVars   == <<workerPc, threadVars, localDoneTime, index, snapshotHead, workVars>>
cbVars       == <<currentCycle, calls>>
vars == <<scenario, ringVars, serverPc, target, workerVars, cbVars>>

-----------------------------------------------------------------------------
Init ==
    /\ scenario \in Scenarios
    /\ RingInit
    /\ serverPc = "create" /\ target = NoThread
    /\ workerPc = [t \in Thread |-> "none"]
    /\ threadActive = [t \in Thread |-> FALSE]
    /\ threadForceExit = [t \in Thread |-> FALSE]
    /\ localDoneTime \in [Thread -> UninitTime]
    /\ index = [t \in Thread |-> 0]
    /\ snapshotHead = [t \in Thread |-> 0]
    /\ localReadyTime = [t \in Thread |-> -1]
    /\ collecting = [t \in Thread |-> FALSE]
    /\ clocked = [t \in Thread |-> {}]
    /\ todo = [t \in Thread |-> {}]
    /\ mayChange = [t \in Thread |-> FALSE]
    /\ currentCycle = [c \in Callback |-> 0]
    /\ calls = [c \in Callback |-> 0]

-----------------------------------------------------------------------------
(* The server thread: thread life cycle *)

CreatePthread(t) ==
    /\ serverPc = "create" /\ target = NoThread /\ workerPc[t] = "none"
    /\ target' = t
    /\ threadForceExit' = [threadForceExit EXCEPT ![t] = FALSE]
    /\ workerPc' = [workerPc EXCEPT ![t] = "boot"]
    /\ UNCHANGED <<scenario, ringVars, serverPc,
                   threadActive, localDoneTime, index, snapshotHead, workVars, cbVars>>

PthreadCreated ==
    /\ serverPc = "create" /\ target # NoThread /\ threadActive[target]
    /\ target' = NoThread
    /\ serverPc' = IF \A t \in Thread : workerPc[t] # "none" THEN "idle" ELSE "create"
    /\ UNCHANGED <<scenario, ringVars, workerVars, cbVars>>

StopClockServer ==
    /\ serverPc = "idle"
    /\ serverPc' = "stop"
    /\ UNCHANGED <<scenario, ringVars, target,
                   workerVars, cbVars>>

DestroyPthread(t) ==
    /\ serverPc = "stop" /\ target = NoThread /\ threadActive[t]
    /\ target' = t
    /\ threadForceExit' = [threadForceExit EXCEPT ![t] = TRUE]
    /\ UNCHANGED <<scenario, ringVars, serverPc,
                   workerPc, threadActive, localDoneTime, index, snapshotHead, workVars, cbVars>>

PthreadJoined ==
    /\ serverPc = "stop" /\ target # NoThread /\ workerPc[target] = "exited"
    /\ threadActive' = [threadActive EXCEPT ![target] = FALSE]
    /\ target' = NoThread
    /\ serverPc' = IF \A t \in Thread \ {target} : ~threadActive[t] THEN "off" ELSE "stop"
    /\ UNCHANGED <<scenario, ringVars, workerPc,
                   threadForceExit, localDoneTime, index, snapshotHead, workVars, cbVars>>

\* A second initialisation, after UnregisterAll deleted the registries: the
\* ring is a global that still holds their instances.  Once the server has
\* been clocked they are later than the first new event, which is therefore
\* inserted at head, and the ASSERT of insert fails if the window is not empty.
\* (If it is empty the deleted registries are clocked, which is not modelled.)
InitAgain ==
    /\ serverPc = "off" /\ scenario.again /\ Between(head, head, limit)
    /\ serverPc' = "failed"
    /\ UNCHANGED <<scenario, ringVars, target,
                   workerVars, cbVars>>

-----------------------------------------------------------------------------
(* The server thread: ThreadedClock *)

ClockBegin ==
    /\ TimeAt(head) <= scenario.maxTime /\ AdvanceTime
    /\ UNCHANGED <<scenario, target, workerVars, cbVars>>

\* Mutant: the barrier opens for the first thread that is done.
GlobalDoneFirst == \E t \in Thread : localDoneTime[t] >= currentBaseCycle

\* GetGlobalDoneTime.
GlobalDone == \A t \in Thread : localDoneTime[t] >= currentBaseCycle

Barrier ==
    /\ serverPc = "wait" /\ GlobalDone
    /\ serverPc' = "pop"
    /\ UNCHANGED <<scenario, ringVars, target,
                   workerVars, cbVars>>

AddEventsAgain == ReInsert /\ UNCHANGED <<scenario, target, workerVars, cbVars>>

-----------------------------------------------------------------------------
(* A worker thread: ThreadWork *)

ThreadStart(t) ==
    /\ workerPc[t] = "boot"
    /\ threadActive' = [threadActive EXCEPT ![t] = TRUE]
    /\ workerPc' = [workerPc EXCEPT ![t] = "init"]
    /\ UNCHANGED <<scenario, ringVars, serverPc, target, threadForceExit, localDoneTime,
                   index, snapshotHead, workVars, cbVars>>

ThreadInit(t) ==
    /\ workerPc[t] = "init"
    /\ localDoneTime' = [localDoneTime EXCEPT ![t] = -1]
    /\ index' = [index EXCEPT ![t] = head]
    /\ workerPc' = [workerPc EXCEPT ![t] = "head"]
    /\ UNCHANGED <<scenario, ringVars, serverPc, target, threadVars, snapshotHead,
                   workVars, cbVars>>

\* is_ready reads head ...
SnapshotHead(t) ==
    /\ workerPc[t] = "head"
    /\ snapshotHead' = [snapshotHead EXCEPT ![t] = head]
    /\ workerPc' = [workerPc EXCEPT ![t] = "limit"]
    /\ UNCHANGED <<scenario, ringVars, serverPc, target, threadVars, localDoneTime, index,
                   workVars, cbVars>>

\* ... and then limit.
IsReady(t) == Between(index[t], snapshotHead[t], limit)

Ready(t) ==
    /\ workerPc[t] = "limit" /\ IsReady(t)
    /\ workerPc' = [workerPc EXCEPT ![t] = "read"]
    /\ UNCHANGED <<scenario, ringVars, serverPc, target, threadVars, localDoneTime, index,
                   snapshotHead, workVars, cbVars>>

\* Nothing is ready and nothing is being collected: the thread exits or looks
\* again.
Wait(t) ==
    /\ workerPc[t] = "limit" /\ ~IsReady(t) /\ ~collecting[t]
    /\ \/ /\ threadForceExit[t]
          /\ localDoneTime' = [localDoneTime EXCEPT ![t] = TimeAt(head)]
          /\ workerPc' = [workerPc EXCEPT ![t] = "exited"]
       \/ /\ ~threadForceExit[t]
          /\ workerPc' = [workerPc EXCEPT ![t] = "head"]
          /\ UNCHANGED localDoneTime
    /\ UNCHANGED <<scenario, ringVars, serverPc, target, threadVars, index, snapshotHead,
                   workVars, cbVars>>

\* The time of the event that is ready; the loop that collects the events of
\* that time asks again whether it is.
FirstTime(t) ==
    /\ workerPc[t] = "read" /\ ~collecting[t]
    /\ localReadyTime' = [localReadyTime EXCEPT ![t] = TimeAt(index[t])]
    /\ collecting' = [collecting EXCEPT ![t] = TRUE]
    /\ workerPc' = [workerPc EXCEPT ![t] = "head"]
    /\ UNCHANGED <<scenario, ringVars, serverPc, target, threadVars, localDoneTime, index,
                   snapshotHead, clocked, todo, mayChange, cbVars>>

\* The event at index is ready and has the time being collected.
Collect(t) ==
    /\ workerPc[t] = "read" /\ collecting[t]
    /\ TimeAt(index[t]) = localReadyTime[t]
    /\ clocked' = [clocked EXCEPT ![t] = @ \cup {element[index[t]]}]
    /\ index' = [index EXCEPT ![t] = Succ(@)]
    /\ workerPc' = [workerPc EXCEPT ![t] = "head"]
    /\ UNCHANGED <<scenario, ringVars, serverPc, target, threadVars, localDoneTime,
                   snapshotHead, localReadyTime, collecting, todo, mayChange, cbVars>>

\* No event is ready, or the next one has another time: the loop ends, with
\* whatever it has collected.
Collected(t) ==
    /\ collecting[t]
    /\ \/ workerPc[t] = "limit" /\ ~IsReady(t)
       \/ workerPc[t] = "read" /\ TimeAt(index[t]) # localReadyTime[t]
    /\ collecting' = [collecting EXCEPT ![t] = FALSE]
    /\ todo' = [todo EXCEPT ![t] =
                  {c \in Callback : cbThread[c] = t /\ \E e \in clocked[t] : Parent(e) = cbReg[c]}]
    /\ workerPc' = [workerPc EXCEPT ![t] = "run"]
    /\ UNCHANGED <<scenario, ringVars, serverPc, target, threadVars, localDoneTime, index,
                   snapshotHead, localReadyTime, clocked, mayChange, cbVars>>

\* One callback is called; the writer rate matchers after all the modules.
RunCallback(t, c) ==
    /\ workerPc[t] = "run" /\ c \in todo[t]
    /\ c \in WriterRM => todo[t] \subseteq WriterRM
    /\ \E e \in clocked[t] :
          /\ Parent(e) = cbReg[c]
          /\ currentCycle' = [currentCycle EXCEPT ![c] = instCycle[e]]
    /\ calls' = [calls EXCEPT ![c] = @ + 1]
    /\ todo' = [todo EXCEPT ![t] = @ \ {c}]
    /\ mayChange' = [mayChange EXCEPT ![t] = c \notin WriterRM]
    /\ UNCHANGED <<scenario, ringVars, serverPc, target, workerPc, threadVars,
                   localDoneTime, index, snapshotHead, localReadyTime, collecting, clocked>>

\* Mutant: the time after the one just clocked is published.
DoneTimeNext(t) == localReadyTime[t] + 1

\* The time FinishTime publishes.
DoneTime(t) == localReadyTime[t]

FinishTime(t) ==
    /\ workerPc[t] = "run" /\ todo[t] = {}
    /\ localDoneTime' = [localDoneTime EXCEPT ![t] = DoneTime(t)]
    /\ clocked' = [clocked EXCEPT ![t] = {}]
    /\ mayChange' = [mayChange EXCEPT ![t] = FALSE]
    /\ workerPc' = [workerPc EXCEPT ![t] = "head"]
    /\ UNCHANGED <<scenario, ringVars, serverPc, target, threadVars, index, snapshotHead,
                   localReadyTime, collecting, todo, cbVars>>

\* SetDomainFrequency, called by a module.
SetDomainFrequency(t, r, s) ==
    /\ workerPc[t] = "run" /\ mayChange[t]
    /\ s \in scenario.steps[r] /\ s # nStep[r]
    /\ nStep' = [nStep EXCEPT ![r] = s]
    /\ mayChange' = [mayChange EXCEPT ![t] = FALSE]
    /\ UNCHANGED <<scenario, nBaseCycle, nCycle, instVars, element, indexVars, currentBaseCycle,
                   insertVars, serverPc, target, workerPc, threadVars,
                   localDoneTime, index, snapshotHead, localReadyTime, collecting, clocked, todo,
                   cbVars>>

-----------------------------------------------------------------------------
Server ==
    \/ \E t \in Thread : CreatePthread(t) \/ DestroyPthread(t)
    \/ PthreadCreated \/ PthreadJoined
    \/ Barrier \/ AddEventsAgain

Worker(t) ==
    \/ ThreadStart(t) \/ ThreadInit(t)
    \/ SnapshotHead(t) \/ Ready(t) \/ Wait(t)
    \/ FirstTime(t) \/ Collect(t) \/ Collected(t)
    \/ \E c \in Callback : RunCallback(t, c)
    \/ FinishTime(t)

\* The simulation is over, or an ASSERT has ended it.
Finished ==
    /\ serverPc \in {"failed", "off"}
    /\ UNCHANGED vars

Next ==
    \/ Server \/ ClockBegin \/ StopClockServer \/ InitAgain \/ Finished
    \/ \E t \in Thread : Worker(t)
    \/ \E t \in Thread, r \in Registry : \E s \in scenario.steps[r] : SetDomainFrequency(t, r, s)

Spec == Init /\ [][Next]_vars

\* Every thread keeps being scheduled.
FairSpec == Spec /\ WF_vars(Server) /\ \A t \in Thread : WF_vars(Worker(t))

-----------------------------------------------------------------------------
(* Properties *)

\* The types of the variables.
TypeOK ==
    /\ RingTypeOK
    /\ serverPc \in {"create", "idle", "wait", "pop", "find", "shift", "stop", "off", "failed"}
    /\ target \in Thread \cup {NoThread}
    /\ workerPc \in [Thread -> {"none", "boot", "init", "head", "limit", "read", "run", "exited"}]
    /\ {threadActive, threadForceExit, collecting, mayChange} \subseteq [Thread -> BOOLEAN]
    /\ {localDoneTime, localReadyTime} \subseteq [Thread -> Int]
    /\ {index, snapshotHead} \subseteq [Thread -> Index]
    /\ clocked \in [Thread -> SUBSET Instance] /\ todo \in [Thread -> SUBSET Callback]
    /\ {currentCycle, calls} \subseteq [Callback -> Nat]

\* "we assume that the insertion point is past the lookahead limit" (insert):
\* a worker that has found its event ready reads an element the server is not
\* moving, whatever the server did since the worker read head and limit; and
\* the elements are back in order when the server waits for the workers.  (A
\* failed ASSERT ends the program, whatever its workers were at.)
ReadsInsideWindow ==
    /\ TypeOK /\ RingInOrder
    /\ \A t \in Thread : workerPc[t] = "read" /\ serverPc # "failed" =>
           /\ Between(index[t], head, limit)
           /\ serverPc = "shift" => index[t] # ins /\ index[t] # Succ(ins)

FixedPeriods == scenario.steps = [r \in Registry |-> {InitStep[r]}]

\* The time of the next call of a callback.
DueTime(c) == firstTime[cbReg[c]] + calls[c] * InitStep[cbReg[c]]

\* Each callback is called once for every cycle of its registry, in order and
\* with the number of that cycle, although the server renumbers the instances
\* while the workers use them; and never more than lookahead base cycles before
\* the next call of any other, the fuzzy barrier (for frequencies that do not
\* change).
CallbacksInOrder ==
    [][FixedPeriods => \A c \in Callback : calls'[c] > calls[c] =>
         /\ currentCycle'[c] = calls[c]
         /\ \A b \in Callback : DueTime(c) <= DueTime(b) + lookahead]_vars

\* Creating, clocking and stopping all return (every thread being scheduled),
\* and without a change of frequency and a second initialisation none of the
\* ASSERTs of the ring ends the program in between.
ServerCallsReturn ==
    serverPc \in {"create", "wait", "pop", "find", "shift", "stop"}
        ~> \/ serverPc \in {"idle", "off"}
           \/ serverPc = "failed" /\ (~FixedPeriods \/ scenario.again)
=============================================================================
