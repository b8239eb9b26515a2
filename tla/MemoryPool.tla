----------------------------- MODULE MemoryPool -----------------------------
(***************************************************************************)
(* Reference counted objects of one class (mm.h), the smart pointers that  *)
(* hold them (mmptr.h) and the lock-free free lists (freelist.h), one for  *)
(* each thread, that objects come from and go back to.                     *)
(*                                                                         *)
(* Every access to a list head, a link or an atomic counter is a step.  A  *)
(* txnId is only ever compared with the one a Pop has got by incrementing  *)
(* it, and that is equal to it as long as no other Pop has done so: latest *)
(* is the thread that did so last.  A thread's constructors, destructors   *)
(* and the end of the run, when the pools are destroyed, are left out.     *)
(***************************************************************************)
EXTENDS Integers, FiniteSets

CONSTANTS
    N,            \* threads 0..N-1 (GetMaxRunningThreadNumber() + 1)
    Object,       \* the memory
    NULL,
    Max           \* initial mmMaxObjs

Thread == 0..N - 1

ASSUME PoolConstants ==
    /\ N \in Nat \ {0} /\ IsFiniteSet(Object) /\ NULL \notin Object
    /\ Max \in 1..Cardinality(Object)

VARIABLES
    mmMaxObjs, mmTotalObjs, prealloc_done,
    heap,             \* objects whose memory has been allocated
    mmCnt,
    next,             \* _freelist_next
    list, latest,     \* head of each free list
    lastStolenThreadNum,
    \* the threads
    pc,               \* where in new, PreAllocateMemory, Push, Pop or LastRefDropped
    at,               \* the free list it is pushing to or popping from
    phase,            \* popping: "own", "steal" or "last"; pushing: where to go on
    obj,              \* the object it pushes or has popped
    oldList, newList, \* what it has read
    refs,             \* mmptrs: the objects it has a reference to
    failed,           \* the ASSERT that ended the run, or "none"
    sawEmpty          \* history: have all the lists been empty since its new began?

poolVars   == <<mmMaxObjs, mmTotalObjs, prealloc_done, heap>>
listVars   == <<next, list, latest>>
threadVars == <<pc, at, phase, obj, oldList, newList>>
vars == <<poolVars, mmCnt, listVars, lastStolenThreadNum, threadVars, refs, failed, sawEmpty>>

ON_FREELIST_AND_DELETED == -2

Init ==
    /\ mmMaxObjs = Max /\ mmTotalObjs = 0 /\ prealloc_done = FALSE /\ heap = {}
    /\ mmCnt = [o \in Object |-> ON_FREELIST_AND_DELETED]
    /\ next = [o \in Object |-> NULL]
    /\ list = [l \in Thread |-> NULL] /\ latest = [l \in Thread |-> NULL]
    /\ lastStolenThreadNum = [t \in Thread |-> 0]
    /\ pc = [t \in Thread |-> "idle"] /\ at = [t \in Thread |-> t]
    /\ phase = [t \in Thread |-> "own"]
    /\ obj = [t \in Thread |-> NULL]
    /\ oldList = [t \in Thread |-> NULL] /\ newList = [t \in Thread |-> NULL]
    /\ refs = [t \in Thread |-> {}]
    /\ failed = "none" /\ sawEmpty = [t \in Thread |-> FALSE]

At(t, where) == failed = "none" /\ pc[t] = where
Goto(t, where) == pc' = [pc EXCEPT ![t] = where]

AllEmpty == \A l \in Thread : list[l] = NULL

Observe == sawEmpty' = [t \in Thread |-> pc'[t] # "idle" /\ (sawEmpty[t] \/ AllEmpty')]

-----------------------------------------------------------------------------
(* ASIM_FREE_LIST_CLASS *)

\* Push reads the head, links the object to it and replaces the head.
PushRead(t) ==
    /\ At(t, "push")
    /\ oldList' = [oldList EXCEPT ![t] = list[at[t]]]
    /\ next' = [next EXCEPT ![obj[t]] = list[at[t]]]
    /\ Goto(t, "push_cas")
    /\ UNCHANGED <<poolVars, mmCnt, list, latest, lastStolenThreadNum, at, phase, obj, newList,
                   refs, failed>>
    /\ Observe

PushCas(t) ==
    /\ At(t, "push_cas")
    /\ \/ /\ list[at[t]] = oldList[t]
          /\ list' = [list EXCEPT ![at[t]] = obj[t]]
          /\ Goto(t, phase[t])
          /\ obj' = [obj EXCEPT ![t] = NULL] /\ oldList' = [oldList EXCEPT ![t] = NULL]
          /\ phase' = [phase EXCEPT ![t] = "own"]
       \/ /\ list[at[t]] # oldList[t]
          /\ Goto(t, "push")
          /\ UNCHANGED <<list, obj, oldList, phase>>
    /\ UNCHANGED <<poolVars, mmCnt, next, latest, lastStolenThreadNum, at, newList, refs, failed>>
    /\ Observe

\* Pop takes a transaction, reads the head and its link and replaces both.
PopBegin(t) ==
    /\ At(t, "pop")
    /\ latest' = [latest EXCEPT ![at[t]] = t]
    /\ Goto(t, "pop_head")
    /\ UNCHANGED <<poolVars, mmCnt, next, list, lastStolenThreadNum, at, phase, obj, oldList,
                   newList, refs, failed>>
    /\ Observe

PopHead(t) ==
    /\ At(t, "pop_head") /\ list[at[t]] # NULL
    /\ oldList' = [oldList EXCEPT ![t] = list[at[t]]]
    /\ Goto(t, "pop_next")
    /\ UNCHANGED <<poolVars, mmCnt, listVars, lastStolenThreadNum, at, phase, obj, newList, refs,
                   failed>>
    /\ Observe

PopNext(t) ==
    /\ At(t, "pop_next")
    /\ newList' = [newList EXCEPT ![t] = next[oldList[t]]]
    /\ Goto(t, "pop_cas")
    /\ UNCHANGED <<poolVars, mmCnt, listVars, lastStolenThreadNum, at, phase, obj, oldList, refs,
                   failed>>
    /\ Observe

\* Mutant: the transaction is not compared.
HeadUnchangedList(t) == list[at[t]] = oldList[t]

\* The double-word comparison of CompareAndExchange.
HeadUnchanged(t) == list[at[t]] = oldList[t] /\ latest[at[t]] = t

PopCas(t) ==
    /\ At(t, "pop_cas")
    /\ oldList' = [oldList EXCEPT ![t] = NULL] /\ newList' = [newList EXCEPT ![t] = NULL]
    /\ \/ /\ HeadUnchanged(t)
          /\ list' = [list EXCEPT ![at[t]] = newList[t]]
          /\ obj' = [obj EXCEPT ![t] = oldList[t]]
          /\ Goto(t, "popped")
       \/ /\ ~HeadUnchanged(t)
          /\ Goto(t, "pop")
          /\ UNCHANGED <<list, obj>>
    /\ UNCHANGED <<poolVars, mmCnt, next, latest, lastStolenThreadNum, at, phase, refs, failed>>
    /\ Observe

-----------------------------------------------------------------------------
(* ASIM_MM_CLASS_PER_THREAD_FREE_LISTS::Pop: the own list, then the others
   from the one after the last that had an object, and that one at last *)

Following(l) == IF l + 1 > N - 1 THEN 0 ELSE l + 1

PopEmpty(t) ==
    LET s == lastStolenThreadNum[t]
        l == Following(IF phase[t] = "own" THEN s ELSE at[t])
    IN  /\ At(t, "pop_head") /\ list[at[t]] = NULL
        /\ \/ /\ phase[t] # "last"
              /\ at' = [at EXCEPT ![t] = l]
              /\ phase' = [phase EXCEPT ![t] = IF l = s THEN "last" ELSE "steal"]
              /\ Goto(t, "pop")
           \/ /\ phase[t] = "last"
              /\ Goto(t, "demand")
              /\ UNCHANGED <<at, phase>>
        /\ UNCHANGED <<poolVars, mmCnt, listVars, lastStolenThreadNum, obj, oldList, newList,
                       refs, failed>>
        /\ Observe

-----------------------------------------------------------------------------
(* operator new *)

New(t) ==
    /\ At(t, "idle")
    /\ Goto(t, IF prealloc_done THEN "pop" ELSE "prealloc")
    /\ at' = [at EXCEPT ![t] = t] /\ phase' = [phase EXCEPT ![t] = "own"]
    /\ UNCHANGED <<poolVars, mmCnt, listVars, lastStolenThreadNum, obj, oldList, newList, refs,
                   failed>>
    /\ Observe

\* PreAllocateMemory, which several threads may be in.
PreAllocate(t) ==
    /\ At(t, "prealloc")
    /\ mmTotalObjs' = mmTotalObjs + 1
    /\ \/ /\ mmTotalObjs < mmMaxObjs
          /\ \E o \in Object \ heap :
                /\ heap' = heap \cup {o}
                /\ obj' = [obj EXCEPT ![t] = o]
          /\ at' = [at EXCEPT ![t] = 0] /\ phase' = [phase EXCEPT ![t] = "prealloc"]
          /\ Goto(t, "push")
       \/ /\ mmTotalObjs >= mmMaxObjs
          /\ Goto(t, "fixup")
          /\ UNCHANGED <<heap, obj, at, phase>>
    /\ UNCHANGED <<mmMaxObjs, prealloc_done, mmCnt, listVars, lastStolenThreadNum, oldList,
                   newList, refs, failed>>
    /\ Observe

\* Mutant: the overshoot is not corrected.
CorrectedNot == mmTotalObjs

Corrected == mmTotalObjs - 1

PreAllocateDone(t) ==
    /\ At(t, "fixup")
    /\ mmTotalObjs' = Corrected
    /\ prealloc_done' = TRUE
    /\ at' = [at EXCEPT ![t] = t]
    /\ Goto(t, "pop")
    /\ UNCHANGED <<mmMaxObjs, heap, mmCnt, listVars, lastStolenThreadNum, phase, obj, oldList,
                   newList, refs, failed>>
    /\ Observe

\* The object is unlinked, constructed and given to a first mmptr.
Construct(t) ==
    LET o == obj[t]
    IN  /\ At(t, "popped")
        /\ failed' = IF mmCnt[o] = ON_FREELIST_AND_DELETED THEN "none" ELSE "not destructed"
        /\ mmCnt' = [mmCnt EXCEPT ![o] = 1]
        /\ next' = [next EXCEPT ![o] = NULL]
        /\ refs' = [refs EXCEPT ![t] = @ \cup {o}]
        /\ lastStolenThreadNum' = IF phase[t] = "steal" THEN [lastStolenThreadNum EXCEPT ![t] = at[t]]
                                  ELSE lastStolenThreadNum
        /\ obj' = [obj EXCEPT ![t] = NULL]
        /\ at' = [at EXCEPT ![t] = t] /\ phase' = [phase EXCEPT ![t] = "own"]
        /\ Goto(t, "idle")
        /\ UNCHANGED <<poolVars, list, latest, oldList, newList>>
        /\ Observe

\* No object was found: another is allocated, if the maximum allows it.
Demand(t) ==
    /\ At(t, "demand")
    /\ mmTotalObjs' = mmTotalObjs + 1
    /\ Goto(t, "check")
    /\ UNCHANGED <<mmMaxObjs, prealloc_done, heap, mmCnt, listVars, lastStolenThreadNum, at, phase,
                   obj, oldList, newList, refs, failed>>
    /\ Observe

Check(t) ==
    /\ At(t, "check")
    /\ \/ /\ mmTotalObjs > mmMaxObjs
          /\ failed' = "exhausted"
          /\ UNCHANGED <<heap, obj, pc>>
       \/ /\ mmTotalObjs <= mmMaxObjs
          /\ \E o \in Object \ heap :
                /\ heap' = heap \cup {o}
                /\ obj' = [obj EXCEPT ![t] = o]
          /\ Goto(t, "popped")
          /\ UNCHANGED failed
    /\ UNCHANGED <<mmMaxObjs, mmTotalObjs, prealloc_done, mmCnt, listVars, lastStolenThreadNum, at,
                   phase, oldList, newList, refs>>
    /\ Observe

\* SetMaxObjs, while the pool is not in use otherwise.
SetMaxObjs(max) ==
    /\ \A t \in Thread : At(t, "idle")
    /\ max # mmMaxObjs
    /\ \/ mmTotalObjs > max /\ failed' = "max" /\ UNCHANGED mmMaxObjs
       \/ mmTotalObjs <= max /\ mmMaxObjs' = max /\ UNCHANGED failed
    /\ UNCHANGED <<mmTotalObjs, prealloc_done, heap, mmCnt, listVars, lastStolenThreadNum,
                   threadVars, refs>>
    /\ Observe

-----------------------------------------------------------------------------
(* mmptr *)

\* A thread copies a reference another thread has passed to it.
Copy(t, o) ==
    /\ At(t, "idle") /\ o \notin refs[t]
    /\ \E u \in Thread : o \in refs[u]
    /\ mmCnt' = [mmCnt EXCEPT ![o] = @ + 1]
    /\ refs' = [refs EXCEPT ![t] = @ \cup {o}]
    /\ UNCHANGED <<poolVars, listVars, lastStolenThreadNum, threadVars, failed>>
    /\ Observe

\* Mutant: the count before the decrement is taken for the one after it.
IsLastEarly(o) == mmCnt[o] - 2 <= 0

\* del(): DecrRef returned that no reference is left.
IsLast(o) == mmCnt[o] - 1 <= 0

Drop(t, o) ==
    /\ At(t, "idle") /\ o \in refs[t]
    /\ mmCnt' = [mmCnt EXCEPT ![o] = @ - 1]
    /\ refs' = [refs EXCEPT ![t] = @ \ {o}]
    /\ IF IsLast(o) THEN Goto(t, "dropped") /\ obj' = [obj EXCEPT ![t] = o]
                    ELSE UNCHANGED <<pc, obj>>
    /\ UNCHANGED <<poolVars, listVars, lastStolenThreadNum, at, phase, oldList, newList, failed>>
    /\ Observe

LastRefDropped(t) ==
    LET o == obj[t]
    IN  /\ At(t, "dropped")
        /\ failed' = IF mmCnt[o] = 0 /\ next[o] = NULL THEN "none" ELSE "on free list"
        /\ mmCnt' = [mmCnt EXCEPT ![o] = ON_FREELIST_AND_DELETED]
        /\ at' = [at EXCEPT ![t] = t] /\ phase' = [phase EXCEPT ![t] = "idle"]
        /\ Goto(t, "push")
        /\ UNCHANGED <<poolVars, listVars, lastStolenThreadNum, obj, oldList, newList, refs>>
        /\ Observe

-----------------------------------------------------------------------------
Step(t) ==
    \/ PushRead(t) \/ PushCas(t)
    \/ PopBegin(t) \/ PopHead(t) \/ PopNext(t) \/ PopCas(t) \/ PopEmpty(t)
    \/ New(t) \/ PreAllocate(t) \/ PreAllocateDone(t) \/ Construct(t) \/ Demand(t) \/ Check(t)
    \/ LastRefDropped(t)
    \/ \E o \in Object : Copy(t, o) \/ Drop(t, o)

Failed == failed # "none" /\ UNCHANGED vars

Next ==
    \/ \E t \in Thread : Step(t)
    \/ \E max \in 1..Cardinality(Object) : SetMaxObjs(max)
    \/ Failed

Spec == Init /\ [][Next]_vars

-----------------------------------------------------------------------------
(* Properties *)

TypeOK ==
    /\ mmMaxObjs \in Nat /\ mmTotalObjs \in Nat /\ heap \subseteq Object
    /\ mmCnt \in [Object -> Int] /\ next \in [Object -> Object \cup {NULL}]
    /\ list \in [Thread -> Object \cup {NULL}] /\ latest \in [Thread -> Thread \cup {NULL}]
    /\ lastStolenThreadNum \in [Thread -> Thread] /\ at \in [Thread -> Thread]
    /\ refs \in [Thread -> SUBSET Object]
    /\ \A v \in {obj, oldList, newList} : v \in [Thread -> Object \cup {NULL}]

\* The objects linked by nx from x on: they are in every set that has x and
\* whatever its members are linked to.
Chain(nx, x) ==
    {o \in Object : \A S \in SUBSET Object :
        (x = NULL \/ x \in S) /\ (\A s \in S : nx[s] \in S \cup {NULL}) => o \in S}

\* The objects on a free list.
OnList(l) == Chain(next, list[l])

InUse(o) == \E t \in Thread : o \in refs[t]

\* The threads that are putting an object on a list or have taken it from one.
Carriers(o) == {t \in Thread : obj[t] = o}

\* "list isn't modified and replaced with the same value by some other thread
\* in the middle of a transaction" (HEAD): every object is in exactly one
\* place, on one free list, in the hands of one thread, or in use; none is lost
\* and none is given out twice.
ObjectsInOnePlace ==
    /\ TypeOK
    /\ \A o \in heap :
          Cardinality({l \in Thread : o \in OnList(l)}) + Cardinality(Carriers(o))
              + (IF InUse(o) THEN 1 ELSE 0) = 1

\* An object that somebody has a reference to has that many references, and the
\* ASSERTs on mmCnt and on the links hold.
ReferencesCounted ==
    /\ \A o \in Object : InUse(o) => mmCnt[o] = Cardinality({t \in Thread : o \in refs[t]})
    /\ failed \in {"none", "exhausted", "max"}

\* "multiple threads could get here at the same time" (PreAllocateMemory):
\* once nobody is allocating, mmTotalObjs is the number of objects and not more
\* than mmMaxObjs.
TotalIsExact ==
    (\A t \in Thread : pc[t] \notin {"prealloc", "fixup", "check"}) =>
        mmTotalObjs = Cardinality(heap) /\ mmTotalObjs <= mmMaxObjs

\* "MM classes must declare the maximum number of objects of their type that
\* can be in use an any time": a new that fails has found the pool empty.
ExhaustedMeansEmpty ==
    failed = "exhausted" => \A t \in Thread : pc[t] = "check" => sawEmpty[t]
=============================================================================
