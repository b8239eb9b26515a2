--------------------------- MODULE TimeEventsRing ---------------------------
(***************************************************************************)
(* The lock-free time event list (time_events_ring.h) and the clock        *)
(* server's side of it, which the lock-free and the dynamic clock servers  *)
(* share: ThreadedClock advances limit, waits (the server's own step), and *)
(* then pops every event of the current time and inserts it again.         *)
(*                                                                         *)
(* The ring holds several instances of each clock registry, enough to span *)
(* the lookahead, so that a worker may run several cycles ahead.  Workers  *)
(* walk the ring between head and limit without a lock; the server moves   *)
(* head and limit and inserts beyond limit.  Every element moved by an     *)
(* insertion is a step.                                                    *)
(*                                                                         *)
(* Every clock domain has one registry here (FuzzyClockServer has domains  *)
(* with several).  The actions leave the variables of the extending module *)
(* open.                                                                   *)
(***************************************************************************)
EXTENDS Integers, Sequences, SequencesExt, FiniteSets

CONSTANTS
    Registry,
    events,       \* lTimeEvents: the registries in the order of their first time
    firstTime,    \* nBaseCycle of each registry after InitClockServer
    InitStep,     \* period of each registry at its initial frequency
    lookahead,    \* in base cycles
    RingSize      \* MAX_TIME_EVENTS_RING_ELEMENTS

\* insert(CLOCK_REGISTRY): instances are made while span <= lookahead + nStep.
Instances(r) == (lookahead + InitStep[r]) \div InitStep[r] + 1

Instance == UNION {{<<r, k>> : k \in 1..Instances(r)} : r \in Registry}
Parent(e) == e[1]

ASSUME RingConstants ==
    /\ Registry # {} /\ IsFiniteSet(Registry)
    /\ events \in Seq(Registry) /\ ToSet(events) = Registry /\ Len(events) = Cardinality(Registry)
    /\ firstTime \in [Registry -> Nat]
    /\ InitStep \in [Registry -> Nat \ {0}]
    /\ lookahead \in Nat
    /\ RingSize \in Nat /\ Cardinality(Instance) < RingSize

VARIABLES
    nBaseCycle, nCycle, nStep,   \* the clock registries
    instBase, instCycle,         \* their instances
    element, head, limit, tail,  \* the ring
    serverPc,         \* here "idle", "wait", "pop", "find", "shift" or "failed"
    currentBaseCycle,
    event,            \* the instance being inserted again
    ins,              \* iterator of insert
    prev              \* instance displaced by it

registryVars == <<nBaseCycle, nCycle, nStep>>
instVars     == <<instBase, instCycle>>
indexVars    == <<head, limit, tail>>
insertVars   == <<event, ins, prev>>
ringVars     == <<registryVars, instVars, element, indexVars, currentBaseCycle, insertVars>>

-----------------------------------------------------------------------------
(* The ring *)

Index == 0..RingSize - 1

\* The iterator's ++.
Succ(i) == (i + 1) % RingSize

\* is_valid (to the tail) and is_ready (to the limit), from a head.
Between(i, from, to) == IF to >= from THEN from <= i /\ i < to ELSE from <= i \/ i < to

TimeAt(i) == instBase[element[i]]

\* The first index from head whose event is later than t, or the tail.
FirstAfter(t) ==
    LET at(n) == (head + n) % RingSize
    IN  at(CHOOSE n \in 0..RingSize - 1 :
              /\ ~(Between(at(n), head, tail) /\ TimeAt(at(n)) <= t)
              /\ \A m \in 0..n - 1 : Between(at(m), head, tail) /\ TimeAt(at(m)) <= t)

\* Mutant: the window ends before the current time.
WindowEndBefore(now) == now - 1

\* The last time of the lookahead window.
WindowEnd(now) == now + lookahead

-----------------------------------------------------------------------------
\* InitClockServerThreaded makes the instances registry by registry and inserts
\* each after those that are not later.  That lines them up by time, and those
\* of one time in the order of their registries.
FirstBase(e) == firstTime[Parent(e)] + (e[2] - 1) * InitStep[Parent(e)]

PlaceOf(r) == CHOOSE i \in DOMAIN events : events[i] = r

InsertedBefore(d, e) ==
    \/ FirstBase(d) < FirstBase(e)
    \/ FirstBase(d) = FirstBase(e) /\ PlaceOf(Parent(d)) < PlaceOf(Parent(e))

Rank(e) == Cardinality({d \in Instance : InsertedBefore(d, e)})

InitialEvent(n) == CHOOSE e \in Instance : Rank(e) = n

RingInit ==
    /\ nBaseCycle = firstTime
    /\ nCycle = [r \in Registry |-> 0]
    /\ nStep = InitStep
    /\ instBase = [e \in Instance |-> FirstBase(e)]
    /\ instCycle = [e \in Instance |-> e[2] - 1]
    /\ element = [i \in Index |-> InitialEvent(IF i < Cardinality(Instance) THEN i ELSE 0)]
    /\ tail = Cardinality(Instance)
    /\ head = 0 /\ limit = 0
    /\ currentBaseCycle = 0
    /\ event = element[0] /\ ins = 0 /\ prev = element[0]

-----------------------------------------------------------------------------
(* ThreadedClock on the ring *)

\* advance_time: the assignment to limit lets the workers go.
AdvanceTime ==
    /\ serverPc = "idle"
    /\ currentBaseCycle' = TimeAt(head)
    /\ limit' = FirstAfter(WindowEnd(TimeAt(head)))
    /\ serverPc' = "wait"
    /\ UNCHANGED <<registryVars, instVars, element, head, tail, insertVars>>

\* The VERIFYXs of AdvanceCycle: this is the oldest instance.
IsOldest(e) == nBaseCycle[Parent(e)] = instBase[e] /\ nCycle[Parent(e)] = instCycle[e]

\* The number of instances (nEventInstances) an instance skips.
Stride(e) == Instances(Parent(e))

\* pop_front and AdvanceCycle.
PopFront ==
    LET e == element[head]
    IN  /\ serverPc = "pop" /\ TimeAt(head) = currentBaseCycle
        /\ head' = Succ(head)
        /\ event' = e
        /\ \/ /\ IsOldest(e)
              /\ instCycle' = [instCycle EXCEPT ![e] = @ + Stride(e)]
              /\ instBase' = [instBase EXCEPT ![e] = @ + Stride(e) * nStep[Parent(e)]]
              /\ nCycle' = [nCycle EXCEPT ![Parent(e)] = @ + 1]
              /\ nBaseCycle' = [nBaseCycle EXCEPT ![Parent(e)] = @ + nStep[Parent(e)]]
              /\ serverPc' = "find"
           \/ /\ ~IsOldest(e)
              /\ serverPc' = "failed"
              /\ UNCHANGED <<instVars, nCycle, nBaseCycle>>
        /\ UNCHANGED <<nStep, element, limit, tail, currentBaseCycle, ins, prev>>

\* insert finds its place, which must be outside the lookahead window.
InsertBegin ==
    LET i == FirstAfter(instBase[event])
    IN  /\ serverPc = "find"
        /\ \/ /\ ~Between(i, head, limit)
              /\ ins' = i
              /\ prev' = element[i]
              /\ element' = [element EXCEPT ![i] = event]
              /\ serverPc' = "shift"
           \/ /\ Between(i, head, limit)
              /\ serverPc' = "failed"
              /\ UNCHANGED <<ins, prev, element>>
        /\ UNCHANGED <<registryVars, instVars, head, limit, tail, currentBaseCycle, event>>

\* The element the next move displaces.
Displaced == element[Succ(ins)]

\* The elements after it move up by one, one at a time.
InsertShift ==
    /\ serverPc = "shift" /\ Between(ins, head, tail)
    /\ ins' = Succ(ins)
    /\ element' = [element EXCEPT ![Succ(ins)] = prev]
    /\ prev' = Displaced
    /\ UNCHANGED <<registryVars, instVars, head, limit, tail, serverPc, currentBaseCycle,
                   event>>

\* The tail moves last; the ASSERT is about a full ring.
InsertEnd ==
    /\ serverPc = "shift" /\ ~Between(ins, head, tail)
    /\ tail' = Succ(ins)
    /\ serverPc' = IF tail' = head THEN "failed" ELSE "pop"
    /\ UNCHANGED <<registryVars, instVars, element, head, limit, currentBaseCycle,
                   insertVars>>

ClockEnd ==
    /\ serverPc = "pop" /\ TimeAt(head) # currentBaseCycle
    /\ serverPc' = "idle"
    /\ UNCHANGED ringVars

ReInsert == PopFront \/ InsertBegin \/ InsertShift \/ InsertEnd \/ ClockEnd

-----------------------------------------------------------------------------
(* Properties *)

RingTypeOK ==
    /\ {nBaseCycle, nCycle, nStep} \subseteq [Registry -> Nat]
    /\ {instBase, instCycle} \subseteq [Instance -> Nat]
    /\ element \in [Index -> Instance] /\ {head, limit, tail, ins} \subseteq Index
    /\ {event, prev} \subseteq Instance /\ currentBaseCycle \in Nat

\* Between two insertions the ring holds every instance once, in order of time.
RingInOrder ==
    serverPc \in {"idle", "wait"} =>
        LET at == [n \in 0..Cardinality(Instance) - 1 |-> (head + n) % RingSize]
        IN  /\ {element[at[n]] : n \in DOMAIN at} = Instance
            /\ tail = (head + Cardinality(Instance)) % RingSize
            /\ \A m, n \in DOMAIN at : m < n => TimeAt(at[m]) <= TimeAt(at[n])
=============================================================================
