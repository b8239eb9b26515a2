-------------------------- MODULE MemoryPool_proofs --------------------------
(***************************************************************************)
(* Proofs about MemoryPool, for any number of threads and any memory: the  *)
(* lock-free free lists lose no object and give none out twice, references *)
(* are counted, and the number of objects is kept exactly.                 *)
(***************************************************************************)
EXTENDS MemoryPool, FiniteSetTheorems, TLAPS

-----------------------------------------------------------------------------
(* The inductive invariant *)

Carrying == {"push", "push_cas", "popped", "dropped"}

\* The points a thread can be at, and where it goes on after pushing.
PcInv ==
    /\ pc \in [Thread -> {"idle", "push", "push_cas", "pop", "pop_head", "pop_next", "pop_cas",
                          "prealloc", "fixup", "popped", "demand", "check", "dropped"}]
    /\ \A t \in Thread : pc[t] \in {"push", "push_cas"} => phase[t] \in {"prealloc", "idle"}
    /\ phase \in [Thread -> {"own", "steal", "last", "prealloc", "idle"}]

\* The free lists share no object and have no cycle.
ListInv ==
    /\ \A l, m \in Thread : l # m => OnList(l) \cap OnList(m) = {}
    /\ \A l \in Thread : \A o \in OnList(l) : o \notin Chain(next, next[o])

\* A thread carries an object from its pop or its last reference to its push,
\* no other thread does, and the object is on no list and in no use; neither
\* is an object in use on a list.
HandInv ==
    /\ \A t \in Thread : obj[t] # NULL <=> pc[t] \in Carrying
    /\ \A t, u \in Thread : t # u /\ obj[t] = obj[u] => obj[t] = NULL
    /\ \A t, l \in Thread : obj[t] \notin OnList(l) /\ obj[t] \notin refs[l]
    /\ \A t, l \in Thread : refs[t] \cap OnList(l) = {}

\* An object has a place once its memory has been allocated, and not before.
HeapInv ==
    \A o \in Object : o \in heap <=> \E t \in Thread : o \in OnList(t) \/ obj[t] = o \/ o \in refs[t]

\* What a thread has read of a list is still so when it replaces the head: its
\* object is linked to the head it has read, and as long as no other thread has
\* begun a Pop the head it has read is on the list and linked to the same object.
ReadInv ==
    \A t \in Thread :
        /\ pc[t] = "push_cas" => next[obj[t]] = oldList[t]
        /\ pc[t] \in {"pop_next", "pop_cas"} => oldList[t] \in Object
        /\ pc[t] \in {"pop_next", "pop_cas"} /\ latest[at[t]] = t => oldList[t] \in OnList(at[t])
        /\ pc[t] = "pop_cas" /\ latest[at[t]] = t => next[oldList[t]] = newList[t]

Holders(o) == {t \in Thread : o \in refs[t]}

\* mmCnt is the number of references, 0 when the last has been dropped, and
\* tells any other object to be free; only free objects are linked.
CountInv ==
    /\ \A o \in Object :
          mmCnt[o] = IF \E t \in Thread : pc[t] = "dropped" /\ obj[t] = o THEN 0
                     ELSE IF Holders(o) # {} THEN Cardinality(Holders(o))
                     ELSE ON_FREELIST_AND_DELETED
    /\ \A o \in Object : Holders(o) # {} => next[o] = NULL
    /\ \A t \in Thread : pc[t] = "dropped" => next[obj[t]] = NULL
    /\ failed \in {"none", "exhausted", "max"}

\* The threads that have counted an object they have not allocated.
Counted == {t \in Thread : pc[t] \in {"fixup", "check"}}

TotalInv ==
    /\ mmTotalObjs = Cardinality(heap) + Cardinality(Counted)
    /\ Cardinality(heap) <= mmMaxObjs

IInv == TypeOK /\ PcInv /\ ListInv /\ HandInv /\ HeapInv /\ ReadInv /\ CountInv /\ TotalInv

-----------------------------------------------------------------------------
(* Linked objects *)

Links == [Object -> Object \cup {NULL}]

\* Nothing is linked to NULL.
LEMMA ChainOfNull == ASSUME NEW nx \in Links PROVE Chain(nx, NULL) = {}
<1>1. {} \in SUBSET Object /\ \A s \in {} : nx[s] \in {} \cup {NULL}
  OBVIOUS
<1> QED BY <1>1 DEF Chain

\* The chain from an object has the object and what its members are linked to ...
LEMMA ChainClosed ==
    ASSUME NEW nx \in Links, NEW x \in Object \cup {NULL}
    PROVE  /\ Chain(nx, x) \subseteq Object
           /\ x = NULL \/ x \in Chain(nx, x)
           /\ \A o \in Chain(nx, x) : nx[o] \in Chain(nx, x) \cup {NULL}
BY DEF Chain, Links

\* ... and is the least such set.
LEMMA ChainLeast ==
    ASSUME NEW nx \in Links, NEW x \in Object \cup {NULL}, NEW S \in SUBSET Object,
           x = NULL \/ x \in S, \A s \in S : nx[s] \in S \cup {NULL}
    PROVE  Chain(nx, x) \subseteq S
BY DEF Chain

\* The chain from an object is the object and the chain from the next one.
LEMMA ChainStep ==
    ASSUME NEW nx \in Links, NEW x \in Object
    PROVE  Chain(nx, x) = {x} \cup Chain(nx, nx[x])
<1>1. nx[x] \in Object \cup {NULL} /\ x # NULL
  BY PoolConstants DEF Links
<1>2. Chain(nx, nx[x]) \subseteq Chain(nx, x)
  <2>1. nx[x] = NULL \/ nx[x] \in Chain(nx, x)
    BY <1>1, ChainClosed
  <2>2. Chain(nx, x) \in SUBSET Object /\ \A s \in Chain(nx, x) : nx[s] \in Chain(nx, x) \cup {NULL}
    BY ChainClosed
  <2> QED BY <1>1, <2>1, <2>2, ChainLeast
<1>3. Chain(nx, x) \subseteq {x} \cup Chain(nx, nx[x])
  <2> DEFINE S == {x} \cup Chain(nx, nx[x])
  <2>1. S \in SUBSET Object /\ \A s \in S : nx[s] \in S \cup {NULL}
    BY <1>1, ChainClosed
  <2>2. x \in S
    OBVIOUS
  <2> HIDE DEF S
  <2>3. Chain(nx, x) \subseteq S
    BY <2>1, <2>2, ChainLeast
  <2> QED BY <2>3 DEF S
<1>4. x \in Chain(nx, x)
  BY <1>1, ChainClosed
<1> QED BY <1>2, <1>3, <1>4

\* A chain does not depend on the link of an object that is not on it.
LEMMA ChainFrame ==
    ASSUME NEW nx \in Links, NEW x \in Object \cup {NULL},
           NEW o \in Object, NEW y \in Object \cup {NULL}, o \notin Chain(nx, x)
    PROVE  Chain([nx EXCEPT ![o] = y], x) = Chain(nx, x)
<1> DEFINE ny == [nx EXCEPT ![o] = y]
<1>1. ny \in Links /\ \A s \in Object \ {o} : ny[s] = nx[s]
  BY DEF Links
<1> HIDE DEF ny
<1>2. Chain(ny, x) \subseteq Chain(nx, x)
  <2>1. \A s \in Chain(nx, x) : ny[s] \in Chain(nx, x) \cup {NULL}
    BY <1>1, ChainClosed
  <2> QED BY <1>1, <2>1, ChainClosed, ChainLeast
<1>3. Chain(nx, x) \subseteq Chain(ny, x)
  <2>1. \A s \in Chain(ny, x) : nx[s] \in Chain(ny, x) \cup {NULL}
    BY <1>1, <1>2, ChainClosed
  <2> QED BY <1>1, <2>1, ChainClosed, ChainLeast
<1> QED BY <1>2, <1>3 DEF ny

\* What an object on a list is linked to is on the list.
LEMMA ChainSuffix ==
    ASSUME NEW nx \in Links, NEW x \in Object \cup {NULL}, NEW o \in Chain(nx, x)
    PROVE  Chain(nx, nx[o]) \subseteq Chain(nx, x)
<1>1. nx[o] \in Object \cup {NULL} /\ (nx[o] = NULL \/ nx[o] \in Chain(nx, x))
  BY ChainClosed DEF Links
<1>2. Chain(nx, x) \in SUBSET Object /\ \A s \in Chain(nx, x) : nx[s] \in Chain(nx, x) \cup {NULL}
  BY ChainClosed
<1> QED BY <1>1, <1>2, ChainLeast

-----------------------------------------------------------------------------
(* The steps *)

\* The number of threads that have counted an object they have not allocated ...
LEMMA CountedType == IsFiniteSet(Counted) /\ Cardinality(Counted) \in Nat
<1>1. IsFiniteSet(Thread)
  BY PoolConstants, FS_Interval DEF Thread
<1>2. IsFiniteSet(Counted)
  BY <1>1, FS_Subset DEF Counted
<1> QED BY <1>2, FS_CardinalityType

\* ... when one thread counts an object ...
LEMMA CountedEnter ==
    ASSUME PcInv, NEW t \in Thread, pc[t] \notin {"fixup", "check"},
           NEW where \in {"fixup", "check"}, pc' = [pc EXCEPT ![t] = where]
    PROVE  Cardinality(Counted') = Cardinality(Counted) + 1
<1>1. Counted' = Counted \cup {t} /\ t \notin Counted
  BY DEF Counted, PcInv
<1> QED BY <1>1, CountedType, FS_AddElement

\* ... and when one is done with it.
LEMMA CountedLeave ==
    ASSUME PcInv, NEW t \in Thread, pc[t] \in {"fixup", "check"},
           NEW where, where \notin {"fixup", "check"},
           pc' = [pc EXCEPT ![t] = where]
    PROVE  Cardinality(Counted') = Cardinality(Counted) - 1
<1>1. Counted' = Counted \ {t} /\ t \in Counted
  BY DEF Counted, PcInv
<1> QED BY <1>1, CountedType, FS_RemoveElement

\* Linking an object that is on no list leaves the lists as they are.
LEMMA RelinkFrame ==
    ASSUME TypeOK, ListInv, NEW o \in Object, NEW y \in Object \cup {NULL},
           \A l \in Thread : o \notin OnList(l), next' = [next EXCEPT ![o] = y], list' = list
    PROVE  /\ \A l \in Thread : OnList(l)' = OnList(l)
           /\ ListInv'
<1>1. next \in Links /\ \A l \in Thread : list[l] \in Object \cup {NULL}
  BY DEF TypeOK, Links
<1>2. \A l \in Thread : OnList(l)' = OnList(l)
  BY <1>1, ChainFrame DEF OnList
<1>3. ASSUME NEW l \in Thread, NEW x \in OnList(l)
      PROVE  x \notin Chain(next', next'[x])
  <2>1. x \in Object /\ x # o
    BY <1>1, <1>3, ChainClosed DEF OnList
  <2>2. next'[x] = next[x] /\ next[x] \in Object \cup {NULL}
    BY <1>1, <2>1 DEF Links
  <2>3. o \notin Chain(next, next[x])
    BY <1>1, <1>3, ChainSuffix DEF OnList
  <2>4. Chain(next', next[x]) = Chain(next, next[x])
    BY <1>1, <2>2, <2>3, ChainFrame
  <2> QED BY <1>3, <2>2, <2>4 DEF ListInv
<1> QED BY <1>2, <1>3 DEF ListInv

\* The number of allocated objects is a number.
LEMMA HeapCardinality ==
    ASSUME TypeOK
    PROVE  IsFiniteSet(heap) /\ Cardinality(heap) \in Nat
BY PoolConstants, FS_Subset, FS_CardinalityType DEF TypeOK

\* The holders of an object depend on refs only.
LEMMA HoldersFrame ==
    ASSUME refs' = refs
    PROVE  \A o : Holders(o)' = Holders(o)
BY DEF Holders

\* The holders of an object can be counted.
LEMMA HoldersFinite ==
    \A o : IsFiniteSet(Holders(o)) /\ Cardinality(Holders(o)) \in Nat
<1>1. IsFiniteSet(Thread)
  BY PoolConstants, FS_Interval DEF Thread
<1>2. \A o : Holders(o) \in SUBSET Thread
  BY DEF Holders
<1> QED BY <1>1, <1>2, FS_Subset, FS_CardinalityType

\* Taking a transaction (the first step of Pop) preserves the inductive invariant.
LEMMA PopBeginStep ==
    ASSUME IInv, NEW t \in Thread, PopBegin(t)
    PROVE  IInv'
<1> USE DEF IInv, PopBegin, At, Goto, poolVars, listVars
<1>1. TypeOK'
  BY DEF TypeOK
<1>2. PcInv'
  BY DEF PcInv
<1>3. /\ \A l \in Thread : OnList(l)' = OnList(l)
      /\ ListInv'
  BY DEF ListInv, OnList
<1>4. HandInv'
  BY <1>3 DEF HandInv, Carrying, PcInv
<1>5. HeapInv'
  BY <1>3 DEF HeapInv
<1>6. ReadInv'
  BY <1>3 DEF ReadInv, TypeOK, PcInv
<1>7. CountInv'
  BY HoldersFrame DEF CountInv, PcInv
<1>8. TotalInv'
  <2>1. Counted' = Counted
    BY DEF Counted, PcInv
  <2> QED BY <2>1 DEF TotalInv
<1> QED BY <1>1, <1>2, <1>3, <1>4, <1>5, <1>6, <1>7, <1>8

\* Reading the head of a list preserves the inductive invariant.
LEMMA PopHeadStep ==
    ASSUME IInv, NEW t \in Thread, PopHead(t)
    PROVE  IInv'
<1> USE DEF IInv, PopHead, At, Goto, poolVars, listVars
<1>1. TypeOK'
  BY DEF TypeOK
<1>2. PcInv'
  BY DEF PcInv
<1>3. /\ \A l \in Thread : OnList(l)' = OnList(l)
      /\ ListInv'
  BY DEF ListInv, OnList
<1>4. HandInv'
  BY <1>3 DEF HandInv, Carrying, PcInv
<1>5. HeapInv'
  BY <1>3 DEF HeapInv
<1>6. ReadInv'
  <2>1. list[at[t]] \in Object /\ list[at[t]] \in OnList(at[t])
    BY ChainClosed DEF TypeOK, OnList, Links
  <2> QED BY <1>3, <2>1 DEF ReadInv, TypeOK, PcInv
<1>7. CountInv'
  BY HoldersFrame DEF CountInv, PcInv
<1>8. TotalInv'
  <2>1. Counted' = Counted
    BY DEF Counted, PcInv
  <2> QED BY <2>1 DEF TotalInv
<1> QED BY <1>1, <1>2, <1>3, <1>4, <1>5, <1>6, <1>7, <1>8

\* Reading the link of the head preserves the inductive invariant.
LEMMA PopNextStep ==
    ASSUME IInv, NEW t \in Thread, PopNext(t)
    PROVE  IInv'
<1> USE DEF IInv, PopNext, At, Goto, poolVars, listVars
<1>1. TypeOK'
  BY DEF TypeOK, ReadInv
<1>2. PcInv'
  BY DEF PcInv
<1>3. /\ \A l \in Thread : OnList(l)' = OnList(l)
      /\ ListInv'
  BY DEF ListInv, OnList
<1>4. HandInv'
  BY <1>3 DEF HandInv, Carrying, PcInv
<1>5. HeapInv'
  BY <1>3 DEF HeapInv
<1>6. ReadInv'
  BY <1>3 DEF ReadInv, TypeOK, PcInv
<1>7. CountInv'
  BY HoldersFrame DEF CountInv, PcInv
<1>8. TotalInv'
  <2>1. Counted' = Counted
    BY DEF Counted, PcInv
  <2> QED BY <2>1 DEF TotalInv
<1> QED BY <1>1, <1>2, <1>3, <1>4, <1>5, <1>6, <1>7, <1>8

\* Going on to another list, or giving up preserves the inductive invariant.
LEMMA PopEmptyStep ==
    ASSUME IInv, NEW t \in Thread, PopEmpty(t)
    PROVE  IInv'
<1> USE DEF IInv, PopEmpty, At, Goto, poolVars, listVars
<1>1. TypeOK'
  <2>1. \A l \in Thread : Following(l) \in Thread
    BY PoolConstants DEF Thread, Following
  <2> QED BY <2>1 DEF TypeOK
<1>2. PcInv'
  BY DEF PcInv
<1>3. /\ \A l \in Thread : OnList(l)' = OnList(l)
      /\ ListInv'
  BY DEF ListInv, OnList
<1>4. HandInv'
  BY <1>3 DEF HandInv, Carrying, PcInv
<1>5. HeapInv'
  BY <1>3 DEF HeapInv
<1>6. ReadInv'
  BY <1>3 DEF ReadInv, TypeOK, PcInv
<1>7. CountInv'
  BY HoldersFrame DEF CountInv, PcInv
<1>8. TotalInv'
  <2>1. Counted' = Counted
    BY DEF Counted, PcInv
  <2> QED BY <2>1 DEF TotalInv
<1> QED BY <1>1, <1>2, <1>3, <1>4, <1>5, <1>6, <1>7, <1>8

\* A new preserves the inductive invariant.
LEMMA NewStep ==
    ASSUME IInv, NEW t \in Thread, New(t)
    PROVE  IInv'
<1> USE DEF IInv, New, At, Goto, poolVars, listVars
<1>1. TypeOK'
  BY DEF TypeOK
<1>2. PcInv'
  BY DEF PcInv
<1>3. /\ \A l \in Thread : OnList(l)' = OnList(l)
      /\ ListInv'
  BY DEF ListInv, OnList
<1>4. HandInv'
  BY <1>3 DEF HandInv, Carrying, PcInv
<1>5. HeapInv'
  BY <1>3 DEF HeapInv
<1>6. ReadInv'
  BY <1>3 DEF ReadInv, TypeOK, PcInv
<1>7. CountInv'
  BY HoldersFrame DEF CountInv, PcInv
<1>8. TotalInv'
  <2>1. Counted' = Counted
    BY DEF Counted, PcInv
  <2> QED BY <2>1 DEF TotalInv
<1> QED BY <1>1, <1>2, <1>3, <1>4, <1>5, <1>6, <1>7, <1>8

\* The end of the preallocation preserves the inductive invariant.
LEMMA PreAllocateDoneStep ==
    ASSUME IInv, NEW t \in Thread, PreAllocateDone(t)
    PROVE  IInv'
<1> USE DEF IInv, PreAllocateDone, At, Goto, poolVars, listVars
<1>1. TypeOK'
  <2>1. pc' = [pc EXCEPT ![t] = "pop"] /\ Counted # {}
    BY DEF Counted
  <2>2. Cardinality(Counted) > 0
    BY <2>1, CountedType, FS_EmptySet
  <2> QED BY <2>2, HeapCardinality, CountedType DEF TypeOK, TotalInv, Corrected
<1>2. PcInv'
  BY DEF PcInv
<1>3. /\ \A l \in Thread : OnList(l)' = OnList(l)
      /\ ListInv'
  BY DEF ListInv, OnList
<1>4. HandInv'
  BY <1>3 DEF HandInv, Carrying, PcInv
<1>5. HeapInv'
  BY <1>3 DEF HeapInv
<1>6. ReadInv'
  BY <1>3 DEF ReadInv, TypeOK, PcInv
<1>7. CountInv'
  BY HoldersFrame DEF CountInv, PcInv
<1>8. TotalInv'
  <2>1. Cardinality(Counted)' = Cardinality(Counted) - 1
    BY CountedLeave DEF TypeOK
  <2>2. heap' = heap /\ mmMaxObjs' = mmMaxObjs /\ mmTotalObjs' = mmTotalObjs - 1
    BY DEF Corrected
  <2> QED BY <2>1, <2>2, HeapCardinality, CountedType DEF TotalInv
<1> QED BY <1>1, <1>2, <1>3, <1>4, <1>5, <1>6, <1>7, <1>8

\* Counting one object more preserves the inductive invariant.
LEMMA DemandStep ==
    ASSUME IInv, NEW t \in Thread, Demand(t)
    PROVE  IInv'
<1> USE DEF IInv, Demand, At, Goto, poolVars, listVars
<1>1. TypeOK'
  BY DEF TypeOK
<1>2. PcInv'
  BY DEF PcInv
<1>3. /\ \A l \in Thread : OnList(l)' = OnList(l)
      /\ ListInv'
  BY DEF ListInv, OnList
<1>4. HandInv'
  BY <1>3 DEF HandInv, Carrying, PcInv
<1>5. HeapInv'
  BY <1>3 DEF HeapInv
<1>6. ReadInv'
  BY <1>3 DEF ReadInv, TypeOK, PcInv
<1>7. CountInv'
  BY HoldersFrame DEF CountInv, PcInv
<1>8. TotalInv'
  <2>1. Cardinality(Counted)' = Cardinality(Counted) + 1
    BY CountedEnter DEF TypeOK
  <2> QED BY <2>1, HeapCardinality, CountedType DEF TotalInv, TypeOK
<1> QED BY <1>1, <1>2, <1>3, <1>4, <1>5, <1>6, <1>7, <1>8

\* Reading the head of a list and linking the object to it preserves the
\* inductive invariant.
LEMMA PushReadStep ==
    ASSUME IInv, NEW t \in Thread, PushRead(t)
    PROVE  IInv'
<1> USE DEF IInv, PushRead, At, Goto, poolVars
<1>1. obj[t] \in Object /\ list[at[t]] \in Object \cup {NULL} /\ \A l \in Thread : obj[t] \notin OnList(l)
  BY DEF TypeOK, HandInv, Carrying
<1>2. TypeOK'
  BY <1>1 DEF TypeOK
<1>3. PcInv'
  BY DEF PcInv
<1>4. /\ \A l \in Thread : OnList(l)' = OnList(l)
      /\ ListInv'
  BY <1>1, RelinkFrame
<1>5. HandInv'
  BY <1>4 DEF HandInv, Carrying, PcInv
<1>6. HeapInv'
  BY <1>4 DEF HeapInv
<1>7. ReadInv'
  <2>1. \A u \in Thread \ {t} : obj[u] = NULL \/ obj[u] # obj[t]
    BY DEF HandInv
  <2>2. \A x \in Object \ {obj[t]} : next'[x] = next[x]
    BY DEF TypeOK
  <2>3. next'[obj[t]] = oldList'[t]
    BY <1>1 DEF TypeOK
  <2>4. \A u \in Thread : pc[u] = "push_cas" => obj[u] \in Object
    BY DEF TypeOK, HandInv, Carrying
  <2> QED BY <1>1, <1>4, <2>1, <2>2, <2>3, <2>4, PoolConstants DEF ReadInv, TypeOK, PcInv
<1>8. CountInv'
  <2>1. Holders(obj[t]) = {}
    BY DEF Holders, HandInv
  <2>2. \A u \in Thread : pc[u] = "dropped" => obj[u] \in Object /\ obj[u] # obj[t]
    BY <1>1 DEF TypeOK, HandInv, Carrying
  <2> QED BY <1>1, <2>1, <2>2, HoldersFrame DEF CountInv, PcInv, TypeOK
<1>9. TotalInv'
  <2>1. Counted' = Counted
    BY DEF Counted, PcInv
  <2> QED BY <2>1 DEF TotalInv
<1> QED BY <1>2, <1>3, <1>4, <1>5, <1>6, <1>7, <1>8, <1>9

\* Replacing the head by the object that is pushed, or failing to, preserves
\* the inductive invariant.
LEMMA PushCasStep ==
    ASSUME IInv, NEW t \in Thread, PushCas(t)
    PROVE  IInv'
<1> USE DEF IInv, PushCas, At, Goto, poolVars
<1>1. TypeOK'
  BY DEF TypeOK, PcInv
<1>2. PcInv'
  BY DEF PcInv
<1>3. TotalInv'
  <2>1. Counted' = Counted
    BY DEF Counted, PcInv
  <2> QED BY <2>1 DEF TotalInv
<1>4. CASE list[at[t]] = oldList[t]
  <2>0. PICK o \in Object, l \in Thread : o = obj[t] /\ l = at[t]
    BY DEF TypeOK, HandInv, Carrying
  <2>1. o \in Object /\ o # NULL /\ next \in Links /\ next[o] = list[l]
    BY <1>4, <2>0, PoolConstants DEF TypeOK, HandInv, Carrying, ReadInv, Links
  <2>2. list' = [list EXCEPT ![l] = o] /\ obj' = [obj EXCEPT ![t] = NULL] /\ next' = next
    BY <1>4, <2>0
  <2>3. l \in Thread
    OBVIOUS
  <2>4. OnList(l)' = {o} \cup OnList(l) /\ o \notin OnList(l)
    <3>1. OnList(l)' = Chain(next, o)
      BY <2>2, <2>3 DEF OnList, TypeOK
    <3> QED BY <2>1, <2>3, <2>0, <3>1, ChainStep DEF OnList, HandInv
  <2>5. \A m \in Thread \ {l} : OnList(m)' = OnList(m)
    BY <2>2 DEF OnList, TypeOK
  <2> HIDE DEF PushCas
  <2>6. ListInv'
    <3>1. \A k, m \in Thread : k # m => OnList(k)' \cap OnList(m)' = {}
      BY <2>0, <2>1, <2>4, <2>5 DEF ListInv, HandInv
    <3>2. o \notin Chain(next, next[o])
      BY <2>0, <2>1, <2>3 DEF HandInv, OnList
    <3>3. \A m \in Thread : \A x \in OnList(m)' : x \notin Chain(next, next[x])
      BY <2>3, <2>4, <2>5, <3>2 DEF ListInv
    <3> QED BY <2>2, <3>1, <3>3 DEF ListInv
  <2>7. HandInv'
    <3>1. pc' = [pc EXCEPT ![t] = phase[t]] /\ phase[t] \notin Carrying /\ refs' = refs
      BY <1>4 DEF PushCas, PcInv, Carrying
    <3>2. \A u, m \in Thread : obj'[u] \notin OnList(m)' /\ obj'[u] \notin refs'[m]
      <4>1. \A m \in Thread : NULL \notin OnList(m)' /\ NULL \notin refs[m]
        <5>1. \A m \in Thread : OnList(m) \subseteq Object
          BY <2>1, ChainClosed DEF TypeOK, OnList
        <5> QED BY <2>1, <2>4, <2>5, <5>1, PoolConstants DEF TypeOK
      <4>2. \A u \in Thread \ {t} : obj'[u] = obj[u] /\ (obj[u] # o \/ obj[u] = NULL)
        BY <2>0, <2>2 DEF TypeOK, HandInv
      <4>3. obj'[t] = NULL
        BY <2>2 DEF TypeOK
      <4> QED BY <2>1, <2>3, <2>4, <2>5, <3>1, <4>1, <4>2, <4>3 DEF HandInv
    <3>3. \A u, m \in Thread : refs'[u] \cap OnList(m)' = {}
      BY <2>0, <2>3, <2>4, <2>5, <3>1 DEF HandInv
    <3> QED BY <2>2, <3>1, <3>2, <3>3 DEF HandInv, TypeOK, PcInv
  <2>8. HeapInv'
    BY <1>4, <2>0, <2>1, <2>2, <2>3, <2>4, <2>5, PoolConstants DEF HeapInv, TypeOK, PushCas
  <2>9. ReadInv'
    BY <1>4, <2>0, <2>2, <2>3, <2>4, <2>5 DEF ReadInv, TypeOK, PcInv, PushCas
  <2>10. CountInv'
    BY <1>4, <2>2, HoldersFrame, PoolConstants DEF CountInv, PcInv, TypeOK, PushCas
  <2> QED BY <1>1, <1>2, <1>3, <2>6, <2>7, <2>8, <2>9, <2>10
<1>5. CASE list[at[t]] # oldList[t]
  <2>1. /\ \A l \in Thread : OnList(l)' = OnList(l)
        /\ ListInv'
    BY <1>5 DEF ListInv, OnList
  <2>2. HandInv'
    BY <1>5, <2>1 DEF HandInv, Carrying, PcInv
  <2>3. HeapInv'
    BY <1>5, <2>1 DEF HeapInv
  <2>4. ReadInv'
    BY <1>5, <2>1 DEF ReadInv, TypeOK, PcInv
  <2>5. CountInv'
    BY <1>5, HoldersFrame DEF CountInv, PcInv
  <2> QED BY <1>1, <1>2, <1>3, <2>1, <2>2, <2>3, <2>4, <2>5
<1> QED BY <1>4, <1>5

\* Replacing the head by what it was linked to, or failing to, preserves the
\* inductive invariant: the comparison with the transaction makes sure that the
\* link that was read is still the head's.
LEMMA PopCasStep ==
    ASSUME IInv, NEW t \in Thread, PopCas(t)
    PROVE  IInv'
<1> USE DEF IInv, PopCas, At, Goto, poolVars
<1>1. TypeOK'
  BY DEF TypeOK, PcInv, ReadInv
<1>2. PcInv'
  BY DEF PcInv
<1>3. TotalInv'
  <2>1. Counted' = Counted
    BY DEF Counted, PcInv
  <2> QED BY <2>1 DEF TotalInv
<1>4. CASE HeadUnchanged(t)
  <2>0. PICK h \in Object, l \in Thread : h = oldList[t] /\ l = at[t]
    BY DEF TypeOK, ReadInv
  <2>1. h \in Object /\ h # NULL /\ next \in Links /\ list[l] = h /\ latest[l] = t /\ next[h] = newList[t]
    BY <1>4, <2>0, PoolConstants DEF TypeOK, ReadInv, Links, HeadUnchanged
  <2>2. list' = [list EXCEPT ![l] = newList[t]] /\ obj' = [obj EXCEPT ![t] = h] /\ next' = next
    BY <1>4, <2>0
  <2>3. l \in Thread
    OBVIOUS
  <2>4. OnList(l)' = OnList(l) \ {h} /\ h \in OnList(l)
    <3>1. OnList(l)' = Chain(next, next[h])
      BY <2>1, <2>2, <2>3 DEF OnList, TypeOK
    <3>2. OnList(l) = {h} \cup Chain(next, next[h])
      BY <2>1, ChainStep DEF OnList
    <3>3. h \notin Chain(next, next[h])
      BY <2>3, <3>2 DEF ListInv
    <3> QED BY <3>1, <3>2, <3>3
  <2>5. \A m \in Thread \ {l} : OnList(m)' = OnList(m)
    BY <2>2 DEF OnList, TypeOK
  <2>6. pc' = [pc EXCEPT ![t] = "popped"] /\ UNCHANGED <<refs, mmCnt, heap, at, latest, failed>>
    BY <1>4
  <2> HIDE DEF PopCas
  <2>7. ListInv'
    <3>1. \A k \in Thread : OnList(k)' \subseteq OnList(k)
      BY <2>4, <2>5
    <3> QED BY <2>2, <3>1 DEF ListInv
  <2>8. HandInv'
    <3>1. \A u \in Thread, m \in Thread : h \notin OnList(m)' /\ h \notin refs[u] /\ obj[u] # h
      BY <2>3, <2>4, <2>5 DEF HandInv, ListInv
    <3>2. obj'[t] = h /\ \A u \in Thread \ {t} : obj'[u] = obj[u]
      BY <2>2 DEF TypeOK
    <3>3. \A m \in Thread : OnList(m)' \subseteq OnList(m)
      BY <2>4, <2>5
    <3> QED BY <2>1, <2>6, <3>1, <3>2, <3>3 DEF HandInv, PcInv, Carrying
  <2>9. HeapInv'
    <3>1. obj[t] = NULL
      BY DEF HandInv, Carrying, PopCas
    <3>2. obj'[t] = h /\ \A u \in Thread \ {t} : obj'[u] = obj[u]
      BY <2>2 DEF TypeOK
    <3> QED BY <2>1, <2>3, <2>4, <2>5, <2>6, <3>1, <3>2, PoolConstants DEF HeapInv
  <2>10. ReadInv'
    <3>1. \A u \in Thread \ {t} : /\ pc'[u] = pc[u] /\ obj'[u] = obj[u]
                                  /\ oldList'[u] = oldList[u] /\ newList'[u] = newList[u]
      BY <1>4 DEF TypeOK, PcInv, PopCas
    <3>2. pc'[t] = "popped"
      BY <2>6 DEF PcInv
    <3>3. \A u \in Thread \ {t} : latest[at[u]] = u => at[u] # l
      BY <2>1
    <3> QED BY <2>0, <2>2, <2>5, <2>6, <3>1, <3>2, <3>3 DEF ReadInv, TypeOK
  <2>11. CountInv'
    BY <2>2, <2>6, HoldersFrame DEF CountInv, PcInv, TypeOK, PopCas
  <2> QED BY <1>1, <1>2, <1>3, <2>7, <2>8, <2>9, <2>10, <2>11
<1>5. CASE ~HeadUnchanged(t)
  <2>1. /\ \A l \in Thread : OnList(l)' = OnList(l)
        /\ ListInv'
    BY <1>5 DEF ListInv, OnList
  <2>2. HandInv'
    BY <1>5, <2>1 DEF HandInv, Carrying, PcInv
  <2>3. HeapInv'
    BY <1>5, <2>1 DEF HeapInv
  <2>4. ReadInv'
    BY <1>5, <2>1 DEF ReadInv, TypeOK, PcInv
  <2>5. CountInv'
    BY <1>5, HoldersFrame DEF CountInv, PcInv
  <2> QED BY <1>1, <1>2, <1>3, <2>1, <2>2, <2>3, <2>4, <2>5
<1> QED BY <1>4, <1>5

\* Allocating the next object in advance, or finding that all have been
\* counted, preserves the inductive invariant.
LEMMA PreAllocateStep ==
    ASSUME IInv, NEW t \in Thread, PreAllocate(t)
    PROVE  IInv'
<1> USE DEF IInv, At, Goto, poolVars, listVars
<1>1. PcInv'
  BY DEF PcInv, PreAllocate
<1>2. /\ \A l \in Thread : OnList(l)' = OnList(l)
      /\ ListInv'
  BY DEF ListInv, OnList, PreAllocate
<1>3. ReadInv'
  <2>1. \A u \in Thread \ {t} : pc'[u] = pc[u] /\ obj'[u] = obj[u] /\ at'[u] = at[u]
    BY DEF PreAllocate, PcInv, TypeOK
  <2>2. pc'[t] \in {"push", "fixup"}
    BY DEF PreAllocate, PcInv
  <2>3. UNCHANGED <<next, latest, oldList, newList>>
    BY DEF PreAllocate
  <2>4. ReadInv /\ \A u \in Thread : at[u] \in Thread
    BY DEF TypeOK
  <2> HIDE DEF IInv
  <2> QED BY <1>2, <2>1, <2>2, <2>3, <2>4 DEF ReadInv
<1>4. ASSUME NEW o \in Object \ heap, heap' = heap \cup {o}, obj' = [obj EXCEPT ![t] = o],
             mmTotalObjs < mmMaxObjs, at' = [at EXCEPT ![t] = 0], Goto(t, "push")
      PROVE  IInv'
  <2>1. TypeOK'
    <3>1. 0 \in Thread
      BY PoolConstants DEF Thread
    <3> QED BY <1>4, <3>1 DEF TypeOK, PreAllocate
  <2>2. \A u \in Thread : obj[u] # o /\ o \notin OnList(u) /\ o \notin refs[u]
    BY <1>4 DEF HeapInv
  <2>3. HandInv'
    <3>1. obj'[t] = o /\ \A u \in Thread \ {t} : obj'[u] = obj[u]
      BY <1>4 DEF TypeOK
    <3>2. o # NULL
      BY PoolConstants
    <3> QED BY <1>2, <1>4, <2>2, <3>1, <3>2 DEF HandInv, Carrying, PcInv, PreAllocate
  <2>4. HeapInv'
    <3>1. obj[t] = NULL
      BY DEF HandInv, Carrying, PreAllocate
    <3> QED BY <1>2, <1>4, <2>2, <3>1, PoolConstants DEF HeapInv, TypeOK, PreAllocate
  <2>5. CountInv'
    BY <1>4, HoldersFrame DEF CountInv, PcInv, TypeOK, PreAllocate
  <2>6. TotalInv'
    <3>1. Counted' = Counted
      BY <1>4 DEF Counted, PcInv, PreAllocate
    <3>2. Cardinality(heap') = Cardinality(heap) + 1
      BY <1>4, HeapCardinality, FS_AddElement
    <3> QED BY <1>4, <3>1, <3>2, HeapCardinality, CountedType DEF TotalInv, TypeOK, PreAllocate
  <2> QED BY <1>1, <1>2, <1>3, <2>1, <2>3, <2>4, <2>5, <2>6
<1>5. ASSUME UNCHANGED <<heap, obj, at, phase>>, Goto(t, "fixup")
      PROVE  IInv'
  <2>1. TypeOK'
    BY <1>5 DEF TypeOK, PreAllocate
  <2>2. HandInv'
    BY <1>2, <1>5 DEF HandInv, Carrying, PcInv, PreAllocate
  <2>3. HeapInv'
    BY <1>2, <1>5 DEF HeapInv, PreAllocate
  <2>4. CountInv'
    BY <1>5, HoldersFrame DEF CountInv, PcInv, PreAllocate
  <2>5. TotalInv'
    <3>1. Cardinality(Counted)' = Cardinality(Counted) + 1
      BY <1>5, CountedEnter DEF PreAllocate
    <3> QED BY <1>5, <3>1, HeapCardinality, CountedType DEF TotalInv, TypeOK, PreAllocate
  <2> QED BY <1>1, <1>2, <1>3, <2>1, <2>2, <2>3, <2>4, <2>5
<1> QED BY <1>4, <1>5 DEF PreAllocate

\* Allocating an object on demand, or failing to, preserves the inductive
\* invariant.
LEMMA CheckStep ==
    ASSUME IInv, NEW t \in Thread, Check(t)
    PROVE  IInv'
<1> USE DEF IInv, At, Goto, poolVars, listVars
<1>1. PcInv'
  BY DEF PcInv, Check
<1>2. /\ \A l \in Thread : OnList(l)' = OnList(l)
      /\ ListInv'
  BY DEF ListInv, OnList, Check
<1>3. ReadInv'
  <2>1. \A u \in Thread \ {t} : pc'[u] = pc[u] /\ obj'[u] = obj[u]
    BY DEF Check, PcInv, TypeOK
  <2>2. pc'[t] \in {"popped", "check"}
    BY DEF Check, PcInv
  <2>3. UNCHANGED <<next, latest, oldList, newList, at>>
    BY DEF Check
  <2>4. ReadInv /\ \A u \in Thread : at[u] \in Thread
    BY DEF TypeOK
  <2> HIDE DEF IInv
  <2> QED BY <1>2, <2>1, <2>2, <2>3, <2>4 DEF ReadInv
<1>4. ASSUME NEW o \in Object \ heap, heap' = heap \cup {o}, obj' = [obj EXCEPT ![t] = o],
             mmTotalObjs <= mmMaxObjs, Goto(t, "popped"), failed' = failed
      PROVE  IInv'
  <2>1. TypeOK'
    BY <1>4 DEF TypeOK, Check
  <2>2. \A u \in Thread : obj[u] # o /\ o \notin OnList(u) /\ o \notin refs[u]
    BY <1>4 DEF HeapInv
  <2>3. HandInv'
    <3>1. obj'[t] = o /\ \A u \in Thread \ {t} : obj'[u] = obj[u]
      BY <1>4 DEF TypeOK
    <3>2. o # NULL
      BY PoolConstants
    <3> QED BY <1>2, <1>4, <2>2, <3>1, <3>2 DEF HandInv, Carrying, PcInv, Check
  <2>4. HeapInv'
    <3>1. obj[t] = NULL
      BY DEF HandInv, Carrying, Check
    <3> QED BY <1>2, <1>4, <2>2, <3>1, PoolConstants DEF HeapInv, TypeOK, Check
  <2>5. CountInv'
    BY <1>4, HoldersFrame DEF CountInv, PcInv, TypeOK, Check
  <2>6. TotalInv'
    <3>1. Cardinality(Counted)' = Cardinality(Counted) - 1 /\ Cardinality(Counted) \in Nat \ {0}
      <4>1. t \in Counted
        BY DEF Counted, Check
      <4>2. Cardinality(Counted) # 0
        BY <4>1, CountedType, FS_EmptySet
      <4>3. Cardinality(Counted)' = Cardinality(Counted) - 1
        BY <1>4, CountedLeave DEF Check
      <4> QED BY <4>2, <4>3, CountedType
    <3>2. Cardinality(heap') = Cardinality(heap) + 1
      BY <1>4, HeapCardinality, FS_AddElement
    <3>3. mmTotalObjs' = mmTotalObjs /\ mmMaxObjs' = mmMaxObjs
      BY DEF Check
    <3>4. mmTotalObjs <= mmMaxObjs /\ mmTotalObjs \in Nat /\ mmMaxObjs \in Nat /\ Cardinality(heap) \in Nat
      BY <1>4, HeapCardinality DEF TypeOK
    <3>5. mmTotalObjs = Cardinality(heap) + Cardinality(Counted)
      BY DEF TotalInv
    <3> HIDE DEF IInv
    <3> QED BY <3>1, <3>2, <3>3, <3>4, <3>5 DEF TotalInv
  <2> QED BY <1>1, <1>2, <1>3, <2>1, <2>3, <2>4, <2>5, <2>6
<1>5. ASSUME failed' = "exhausted", UNCHANGED <<heap, obj, pc>>
      PROVE  IInv'
  <2>1. TypeOK'
    BY <1>5 DEF TypeOK, Check
  <2>2. HandInv'
    BY <1>2, <1>5 DEF HandInv, Check
  <2>3. HeapInv'
    BY <1>2, <1>5 DEF HeapInv, Check
  <2>4. CountInv'
    BY <1>5, HoldersFrame DEF CountInv, Check
  <2>5. TotalInv'
    BY <1>5 DEF TotalInv, Counted, Check
  <2> QED BY <1>1, <1>2, <1>3, <2>1, <2>2, <2>3, <2>4, <2>5
<1> QED BY <1>4, <1>5 DEF Check

\* Changing the maximum, or failing to, preserves the inductive invariant.
LEMMA SetMaxObjsStep ==
    ASSUME IInv, NEW max \in 1..Cardinality(Object), SetMaxObjs(max)
    PROVE  IInv'
<1> USE DEF IInv, SetMaxObjs, At, listVars, threadVars
<1>1. max \in Nat
  BY PoolConstants, FS_CardinalityType
<1>2. TypeOK'
  BY <1>1 DEF TypeOK
<1>3. PcInv'
  BY DEF PcInv
<1>4. /\ \A l \in Thread : OnList(l)' = OnList(l)
      /\ ListInv'
  BY DEF ListInv, OnList
<1>5. HandInv'
  BY <1>4 DEF HandInv
<1>6. HeapInv'
  BY <1>4 DEF HeapInv
<1>7. ReadInv'
  BY <1>4 DEF ReadInv
<1>8. CountInv'
  BY HoldersFrame DEF CountInv
<1>9. TotalInv'
  <2>1. Counted' = Counted
    BY DEF Counted
  <2> QED BY <1>1, <2>1, HeapCardinality, CountedType DEF TotalInv, TypeOK
<1> QED BY <1>2, <1>3, <1>4, <1>5, <1>6, <1>7, <1>8, <1>9

\* Constructing an object and giving it to a first mmptr preserves the
\* inductive invariant; it was free.
LEMMA ConstructStep ==
    ASSUME IInv, NEW t \in Thread, Construct(t)
    PROVE  IInv'
<1> USE DEF IInv
<1>0. PICK o \in Object : o = obj[t]
  BY DEF TypeOK, HandInv, Carrying, Construct, At
<1>1. \A u \in Thread : o \notin OnList(u) /\ o \notin refs[u] /\ (u # t => obj[u] # o)
  BY <1>0, PoolConstants DEF HandInv
<1>2. /\ pc[t] = "popped" /\ pc' = [pc EXCEPT ![t] = "idle"]
      /\ next' = [next EXCEPT ![o] = NULL]
      /\ refs' = [refs EXCEPT ![t] = @ \cup {o}] /\ obj' = [obj EXCEPT ![t] = NULL]
      /\ mmCnt' = [mmCnt EXCEPT ![o] = 1]
      /\ UNCHANGED <<list, latest, heap, mmTotalObjs, mmMaxObjs, oldList, newList>>
      /\ at' = [at EXCEPT ![t] = t]
      /\ phase' = [phase EXCEPT ![t] = "own"]
      /\ lastStolenThreadNum' = IF phase[t] = "steal" THEN [lastStolenThreadNum EXCEPT ![t] = at[t]]
                                ELSE lastStolenThreadNum
  BY <1>0 DEF Construct, At, Goto, poolVars
<1>3. /\ obj'[t] = NULL /\ refs'[t] = refs[t] \cup {o} /\ pc'[t] = "idle"
      /\ \A u \in Thread \ {t} : /\ obj'[u] = obj[u] /\ refs'[u] = refs[u] /\ pc'[u] = pc[u]
                                  /\ at'[u] = at[u]
  BY <1>2 DEF TypeOK, PcInv
<1>4. TypeOK'
  <2>1. lastStolenThreadNum' \in [Thread -> Thread]
    BY <1>2 DEF TypeOK
  <2>2. mmCnt' \in [Object -> Int] /\ next' \in [Object -> Object \cup {NULL}]
    BY <1>2 DEF TypeOK
  <2>3. refs' \in [Thread -> SUBSET Object] /\ obj' \in [Thread -> Object \cup {NULL}]
    BY <1>2 DEF TypeOK
  <2> QED BY <1>2, <2>1, <2>2, <2>3 DEF TypeOK
<1>5. PcInv'
  BY <1>2 DEF PcInv
<1>6. /\ \A l \in Thread : OnList(l)' = OnList(l)
      /\ ListInv'
  BY <1>1, <1>2, RelinkFrame
<1>7. HandInv'
  <2>1. \A u \in Thread : NULL \notin OnList(u) /\ NULL \notin refs[u]
    BY ChainClosed, PoolConstants DEF TypeOK, OnList, Links
  <2>2. o # NULL
    BY PoolConstants
  <2> QED BY <1>1, <1>3, <1>6, <2>1, <2>2 DEF HandInv, Carrying
<1>8. HeapInv'
  <2>1. ASSUME NEW x \in Object
        PROVE  (\E u \in Thread : x \in OnList(u) \/ obj[u] = x \/ x \in refs[u])
                   <=> (\E u \in Thread : x \in OnList(u) \/ obj'[u] = x \/ x \in refs'[u])
    <3>1. x # NULL
      BY PoolConstants
    <3>2. CASE x = o
      BY <1>0, <1>3, <3>2
    <3>3. CASE x # o
      <4>1. \A u \in Thread : (obj'[u] = x \/ x \in refs'[u]) <=> (obj[u] = x \/ x \in refs[u])
        BY <1>0, <1>3, <3>1, <3>3
      <4> QED BY <4>1
    <3> QED BY <3>2, <3>3
  <2> QED BY <1>2, <1>6, <2>1 DEF HeapInv
<1>9. ReadInv'
  <2>1. \A x \in Object \ {o} : next'[x] = next[x]
    BY <1>2 DEF TypeOK
  <2>2. \A u \in Thread \ {t} : /\ pc[u] = "push_cas" => obj[u] \in Object \ {o}
                                /\ oldList[u] \in OnList(at[u]) => oldList[u] # o
    BY <1>1 DEF TypeOK, HandInv, Carrying
  <2>3. \A u \in Thread \ {t} : at[u] \in Thread
    BY DEF TypeOK
  <2> QED BY <1>2, <1>3, <1>6, <2>1, <2>2, <2>3 DEF ReadInv
<1>10. CountInv'
  <2>1. Holders(o) = {} /\ Holders(o)' = {t} /\ \A x \in Object \ {o} : Holders(x)' = Holders(x)
    BY <1>1, <1>3 DEF Holders
  <2>2. \A u \in Thread \ {t} : pc[u] = "dropped" => obj[u] \in Object \ {o}
    BY <1>1 DEF TypeOK, HandInv, Carrying
  <2>3. \A x : (\E u \in Thread : pc'[u] = "dropped" /\ obj'[u] = x)
                 <=> (\E u \in Thread : pc[u] = "dropped" /\ obj[u] = x)
    BY <1>2, <1>3
  <2>4. mmCnt[o] = ON_FREELIST_AND_DELETED
    BY <1>1, <1>2, <2>1, <2>2 DEF CountInv
  <2>5. mmCnt'[o] = 1 /\ next'[o] = NULL /\ failed' = "none"
    BY <1>0, <1>2, <2>4 DEF TypeOK, Construct
  <2>6. \A x \in Object \ {o} : mmCnt'[x] = mmCnt[x] /\ next'[x] = next[x]
    BY <1>2 DEF TypeOK
  <2>7. Cardinality({t}) = 1
    BY FS_Singleton
  <2>8. ASSUME NEW x \in Object
        PROVE  mmCnt'[x] = IF \E u \in Thread : pc'[u] = "dropped" /\ obj'[u] = x THEN 0
                           ELSE IF Holders(x)' # {} THEN Cardinality(Holders(x)')
                           ELSE ON_FREELIST_AND_DELETED
    <3>1. CASE x = o
      <4>1. ~\E u \in Thread : pc'[u] = "dropped" /\ obj'[u] = x
        BY <1>2, <2>2, <2>3, <3>1
      <4> QED BY <3>1, <4>1, <2>1, <2>5, <2>7
    <3>2. CASE x # o
      <4>1. /\ mmCnt'[x] = mmCnt[x] /\ Holders(x)' = Holders(x)
            /\ mmCnt[x] = IF \E u \in Thread : pc[u] = "dropped" /\ obj[u] = x THEN 0
                          ELSE IF Holders(x) # {} THEN Cardinality(Holders(x))
                          ELSE ON_FREELIST_AND_DELETED
        BY <2>1, <2>6, <3>2 DEF CountInv
      <4> QED BY <4>1, <2>3
    <3> QED BY <3>1, <3>2
  <2>9. \A x \in Object : Holders(x)' # {} => next'[x] = NULL
    BY <2>1, <2>5, <2>6 DEF CountInv
  <2>10. \A u \in Thread : pc'[u] = "dropped" => next'[obj'[u]] = NULL
    BY <1>3, <2>2, <2>6 DEF CountInv
  <2> QED BY <2>5, <2>8, <2>9, <2>10 DEF CountInv
<1>11. TotalInv'
  <2>1. Counted' = Counted
    BY <1>2 DEF Counted, PcInv
  <2> QED BY <1>2, <2>1 DEF TotalInv
<1> QED BY <1>4, <1>5, <1>6, <1>7, <1>8, <1>9, <1>10, <1>11

\* Copying a reference preserves the inductive invariant.
LEMMA CopyStep ==
    ASSUME IInv, NEW t \in Thread, NEW o \in Object, Copy(t, o)
    PROVE  IInv'
<1> USE DEF IInv
<1>1. /\ o \notin refs[t] /\ refs' = [refs EXCEPT ![t] = @ \cup {o}]
      /\ mmCnt' = [mmCnt EXCEPT ![o] = @ + 1]
      /\ UNCHANGED <<next, list, latest, heap, pc, at, phase, obj, oldList, newList, failed,
                     mmMaxObjs, mmTotalObjs, lastStolenThreadNum>>
  BY DEF Copy, At, poolVars, listVars, threadVars
<1>2. PICK v \in Thread : o \in refs[v]
  BY DEF Copy
<1>3. refs'[t] = refs[t] \cup {o} /\ \A u \in Thread \ {t} : refs'[u] = refs[u]
  BY <1>1 DEF TypeOK
<1>4. TypeOK'
  BY <1>1 DEF TypeOK
<1>5. PcInv'
  BY <1>1 DEF PcInv
<1>6. /\ \A l \in Thread : OnList(l)' = OnList(l)
      /\ ListInv'
  BY <1>1 DEF ListInv, OnList
<1>7. HandInv'
  BY <1>1, <1>2, <1>3, <1>6 DEF HandInv
<1>8. HeapInv'
  BY <1>1, <1>2, <1>3, <1>6 DEF HeapInv
<1>9. ReadInv'
  BY <1>1, <1>6 DEF ReadInv, TypeOK
<1>10. CountInv'
  <2>1. /\ Holders(o)' = Holders(o) \cup {t} /\ t \notin Holders(o) /\ v \in Holders(o)
        /\ \A x \in Object \ {o} : Holders(x)' = Holders(x)
    BY <1>1, <1>2, <1>3 DEF Holders
  <2>2. Cardinality(Holders(o)') = Cardinality(Holders(o)) + 1
    <3>1. IsFiniteSet(Holders(o))
      BY HoldersFinite
    <3>2. Cardinality(Holders(o) \cup {t}) = Cardinality(Holders(o)) + 1
      BY <2>1, <3>1, FS_AddElement
    <3> QED BY <2>1, <3>2
  <2>3. ~\E u \in Thread : pc[u] = "dropped" /\ obj[u] = o
    BY <1>2 DEF HandInv
  <2>4. mmCnt'[o] = Cardinality(Holders(o)') /\ \A x \in Object \ {o} : mmCnt'[x] = mmCnt[x]
    BY <1>1, <2>1, <2>2, <2>3 DEF CountInv, TypeOK
  <2>5. next[o] = NULL
    BY <2>1 DEF CountInv
  <2>6. ASSUME NEW x \in Object
        PROVE  mmCnt'[x] = IF \E u \in Thread : pc'[u] = "dropped" /\ obj'[u] = x THEN 0
                           ELSE IF Holders(x)' # {} THEN Cardinality(Holders(x)')
                           ELSE ON_FREELIST_AND_DELETED
    <3>1. CASE x = o
      BY <1>1, <2>1, <2>3, <2>4, <3>1
    <3>2. CASE x # o
      BY <1>1, <2>1, <2>4, <3>2 DEF CountInv
    <3> QED BY <3>1, <3>2
  <2>7. \A x \in Object : Holders(x)' # {} => next'[x] = NULL
    BY <1>1, <2>1, <2>5 DEF CountInv
  <2> QED BY <1>1, <2>6, <2>7 DEF CountInv
<1>11. TotalInv'
  BY <1>1 DEF TotalInv, Counted
<1> QED BY <1>4, <1>5, <1>6, <1>7, <1>8, <1>9, <1>10, <1>11

\* Dropping a reference preserves the inductive invariant: mmCnt tells whether
\* it was the last one.
LEMMA DropStep ==
    ASSUME IInv, NEW t \in Thread, NEW o \in Object, Drop(t, o)
    PROVE  IInv'
<1> USE DEF IInv
<1>1. /\ pc[t] = "idle" /\ o \in refs[t] /\ refs' = [refs EXCEPT ![t] = @ \ {o}]
      /\ mmCnt' = [mmCnt EXCEPT ![o] = @ - 1]
      /\ UNCHANGED <<next, list, latest, heap, at, phase, oldList, newList, failed,
                     mmMaxObjs, mmTotalObjs, lastStolenThreadNum>>
      /\ IF IsLast(o) THEN pc' = [pc EXCEPT ![t] = "dropped"] /\ obj' = [obj EXCEPT ![t] = o]
                      ELSE UNCHANGED <<pc, obj>>
  BY DEF Drop, At, Goto, poolVars, listVars
<1>2. refs'[t] = refs[t] \ {o} /\ \A u \in Thread \ {t} : refs'[u] = refs[u]
  BY <1>1 DEF TypeOK
<1>3. /\ Holders(o)' = Holders(o) \ {t} /\ t \in Holders(o)
      /\ \A x \in Object \ {o} : Holders(x)' = Holders(x)
  BY <1>1, <1>2 DEF Holders
<1>4. \A u \in Thread : obj[u] # o
  BY <1>1 DEF HandInv
<1>5. /\ mmCnt[o] = Cardinality(Holders(o)) /\ next[o] = NULL
      /\ Cardinality(Holders(o)) \in Nat /\ IsFiniteSet(Holders(o)')
      /\ Cardinality(Holders(o)') = Cardinality(Holders(o)) - 1
  BY <1>3, <1>4, HoldersFinite, FS_RemoveElement DEF CountInv
<1>6. IsLast(o) <=> Holders(o)' = {}
  BY <1>5, FS_EmptySet, FS_CardinalityType DEF IsLast
<1>7. TypeOK'
  <2>1. mmCnt' \in [Object -> Int]
    BY <1>1 DEF TypeOK
  <2>2. refs' \in [Thread -> SUBSET Object]
    BY <1>1 DEF TypeOK
  <2>3. obj' \in [Thread -> Object \cup {NULL}]
    BY <1>1 DEF TypeOK
  <2> QED BY <1>1, <2>1, <2>2, <2>3 DEF TypeOK
<1>8. PcInv'
  BY <1>1 DEF PcInv
<1>9. /\ \A l \in Thread : OnList(l)' = OnList(l)
      /\ ListInv'
  BY <1>1 DEF ListInv, OnList
<1>10. /\ \A u \in Thread \ {t} : pc'[u] = pc[u] /\ obj'[u] = obj[u]
       /\ IsLast(o) => pc'[t] = "dropped" /\ obj'[t] = o
       /\ ~IsLast(o) => pc'[t] = "idle" /\ obj'[t] = obj[t]
       /\ obj[t] = NULL
  BY <1>1 DEF TypeOK, PcInv, HandInv, Carrying
<1>11. HandInv'
  <2>1. \A l \in Thread : o \notin OnList(l)
    BY <1>1 DEF HandInv
  <2>2. IsLast(o) => \A u \in Thread : o \notin refs'[u]
    BY <1>6 DEF Holders
  <2>3. o # NULL
    BY PoolConstants
  <2> QED BY <1>2, <1>4, <1>9, <1>10, <2>1, <2>2, <2>3 DEF HandInv, Carrying
<1>12. HeapInv'
  <2>1. ASSUME NEW x \in Object
        PROVE  (\E u \in Thread : x \in OnList(u) \/ obj[u] = x \/ x \in refs[u])
                   <=> (\E u \in Thread : x \in OnList(u) \/ obj'[u] = x \/ x \in refs'[u])
    <3>1. x # NULL
      BY PoolConstants
    <3>2. CASE x = o
      <4>1. CASE IsLast(o)
        BY <1>1, <1>10, <3>2, <4>1
      <4>2. CASE ~IsLast(o)
        <5>1. PICK u \in Thread : o \in refs'[u]
          BY <1>6, <4>2 DEF Holders
        <5> QED BY <1>1, <3>2, <5>1
      <4> QED BY <4>1, <4>2
    <3>3. CASE x # o
      <4>1. \A u \in Thread : (obj'[u] = x \/ x \in refs'[u]) <=> (obj[u] = x \/ x \in refs[u])
        BY <1>2, <1>10, <3>1, <3>3
      <4> QED BY <4>1
    <3> QED BY <3>2, <3>3
  <2> QED BY <1>1, <1>9, <2>1 DEF HeapInv
<1>13. ReadInv'
  <2>1. \A u \in Thread : at[u] \in Thread
    BY DEF TypeOK
  <2> QED BY <1>1, <1>9, <1>10, <2>1 DEF ReadInv
<1>14. CountInv'
  <2>1. mmCnt'[o] = Cardinality(Holders(o)') /\ \A x \in Object \ {o} : mmCnt'[x] = mmCnt[x]
    BY <1>1, <1>5 DEF TypeOK
  <2>2. \A x \in Object \ {o} : (\E u \in Thread : pc'[u] = "dropped" /\ obj'[u] = x)
                                    <=> (\E u \in Thread : pc[u] = "dropped" /\ obj[u] = x)
    BY <1>1, <1>10
  <2>3. (\E u \in Thread : pc'[u] = "dropped" /\ obj'[u] = o) <=> IsLast(o)
    BY <1>4, <1>10
  <2>4. IsLast(o) => mmCnt'[o] = 0
    BY <1>6, <2>1, FS_EmptySet
  <2>5. ASSUME NEW x \in Object
        PROVE  mmCnt'[x] = IF \E u \in Thread : pc'[u] = "dropped" /\ obj'[u] = x THEN 0
                           ELSE IF Holders(x)' # {} THEN Cardinality(Holders(x)')
                           ELSE ON_FREELIST_AND_DELETED
    <3>1. CASE x = o
      BY <1>6, <2>1, <2>3, <2>4, <3>1
    <3>2. CASE x # o
      <4>1. /\ mmCnt'[x] = mmCnt[x] /\ Holders(x)' = Holders(x)
            /\ mmCnt[x] = IF \E u \in Thread : pc[u] = "dropped" /\ obj[u] = x THEN 0
                          ELSE IF Holders(x) # {} THEN Cardinality(Holders(x))
                          ELSE ON_FREELIST_AND_DELETED
        BY <1>3, <2>1, <3>2 DEF CountInv
      <4> QED BY <2>2, <3>2, <4>1
    <3> QED BY <3>1, <3>2
  <2>6. \A x \in Object : Holders(x)' # {} => next'[x] = NULL
    BY <1>1, <1>3, <1>5 DEF CountInv
  <2>7. \A u \in Thread : pc'[u] = "dropped" => next'[obj'[u]] = NULL
    BY <1>1, <1>5, <1>10 DEF CountInv
  <2> QED BY <1>1, <2>5, <2>6, <2>7 DEF CountInv
<1>15. TotalInv'
  <2>1. Counted' = Counted
    BY <1>1 DEF Counted, PcInv
  <2> QED BY <1>1, <2>1 DEF TotalInv
<1> QED BY <1>7, <1>8, <1>9, <1>11, <1>12, <1>13, <1>14, <1>15

\* Destructing an object whose last reference has been dropped preserves the
\* inductive invariant.
LEMMA LastRefDroppedStep ==
    ASSUME IInv, NEW t \in Thread, LastRefDropped(t)
    PROVE  IInv'
<1> USE DEF IInv
<1>0. PICK o \in Object : o = obj[t]
  BY DEF TypeOK, HandInv, Carrying, LastRefDropped, At
<1>1. /\ pc[t] = "dropped" /\ pc' = [pc EXCEPT ![t] = "push"]
      /\ mmCnt' = [mmCnt EXCEPT ![o] = ON_FREELIST_AND_DELETED]
      /\ at' = [at EXCEPT ![t] = t] /\ phase' = [phase EXCEPT ![t] = "idle"]
      /\ UNCHANGED <<next, list, latest, heap, obj, oldList, newList, refs,
                     mmMaxObjs, mmTotalObjs, lastStolenThreadNum>>
  BY <1>0 DEF LastRefDropped, At, Goto, poolVars, listVars
<1>2. /\ pc'[t] = "push"
      /\ \A u \in Thread \ {t} : pc'[u] = pc[u] /\ at'[u] = at[u] /\ at[u] \in Thread
  BY <1>1 DEF TypeOK, PcInv
<1>3. TypeOK'
  BY <1>1 DEF TypeOK, ON_FREELIST_AND_DELETED
<1>4. PcInv'
  BY <1>1 DEF PcInv
<1>5. /\ \A l \in Thread : OnList(l)' = OnList(l)
      /\ ListInv'
  BY <1>1 DEF ListInv, OnList
<1>6. HandInv'
  BY <1>1, <1>2, <1>5 DEF HandInv, Carrying
<1>7. HeapInv'
  BY <1>1, <1>5 DEF HeapInv
<1>8. ReadInv'
  BY <1>1, <1>2, <1>5 DEF ReadInv
<1>9. CountInv'
  <2>1. Holders(o) = {} /\ \A x \in Object : Holders(x)' = Holders(x)
    BY <1>0, <1>1, HoldersFrame DEF HandInv, Holders
  <2>2. mmCnt[o] = 0 /\ next[o] = NULL
    BY <1>0, <1>1 DEF CountInv
  <2>3. mmCnt'[o] = ON_FREELIST_AND_DELETED /\ \A x \in Object \ {o} : mmCnt'[x] = mmCnt[x]
    BY <1>1 DEF TypeOK
  <2>4. \A u \in Thread \ {t} : obj[u] # o
    BY <1>0, PoolConstants DEF HandInv
  <2>5. failed' = "none"
    BY <1>0, <2>2 DEF LastRefDropped
  <2>6. ASSUME NEW x \in Object
        PROVE  mmCnt'[x] = IF \E u \in Thread : pc'[u] = "dropped" /\ obj'[u] = x THEN 0
                           ELSE IF Holders(x)' # {} THEN Cardinality(Holders(x)')
                           ELSE ON_FREELIST_AND_DELETED
    <3>1. CASE x = o
      BY <1>1, <1>2, <2>1, <2>3, <2>4, <3>1
    <3>2. CASE x # o
      <4>1. (\E u \in Thread : pc'[u] = "dropped" /\ obj'[u] = x)
                <=> (\E u \in Thread : pc[u] = "dropped" /\ obj[u] = x)
        BY <1>0, <1>1, <1>2, <3>2
      <4>2. /\ mmCnt'[x] = mmCnt[x] /\ Holders(x)' = Holders(x)
            /\ mmCnt[x] = IF \E u \in Thread : pc[u] = "dropped" /\ obj[u] = x THEN 0
                          ELSE IF Holders(x) # {} THEN Cardinality(Holders(x))
                          ELSE ON_FREELIST_AND_DELETED
        BY <2>1, <2>3, <3>2 DEF CountInv
      <4> QED BY <4>1, <4>2
    <3> QED BY <3>1, <3>2
  <2> QED BY <1>1, <1>2, <2>1, <2>5, <2>6 DEF CountInv
<1>10. TotalInv'
  <2>1. Counted' = Counted
    BY <1>1 DEF Counted, PcInv
  <2> QED BY <1>1, <2>1 DEF TotalInv
<1> QED BY <1>3, <1>4, <1>5, <1>6, <1>7, <1>8, <1>9, <1>10

-----------------------------------------------------------------------------
(* The theorems *)

\* The pool starts with every object's memory unallocated.
LEMMA InitInv == Init => IInv
<1> SUFFICES ASSUME Init PROVE IInv
  OBVIOUS
<1> USE DEF Init
<1>1. \A l \in Thread : OnList(l) = {}
  <2>1. next \in Links
    BY DEF Links
  <2> QED BY <2>1, ChainOfNull DEF OnList
<1>2. TypeOK
  <2>1. Max \in Nat
    BY PoolConstants, FS_CardinalityType
  <2>2. 0 \in Thread
    BY PoolConstants DEF Thread
  <2>3. mmMaxObjs \in Nat /\ mmTotalObjs \in Nat /\ heap \subseteq Object
    BY <2>1
  <2>4. mmCnt \in [Object -> Int] /\ next \in [Object -> Object \cup {NULL}]
    BY DEF ON_FREELIST_AND_DELETED
  <2>5. /\ list \in [Thread -> Object \cup {NULL}] /\ latest \in [Thread -> Thread \cup {NULL}]
        /\ refs \in [Thread -> SUBSET Object]
    OBVIOUS
  <2>6. lastStolenThreadNum \in [Thread -> Thread] /\ at \in [Thread -> Thread]
    BY <2>2
  <2>7. /\ obj \in [Thread -> Object \cup {NULL}] /\ oldList \in [Thread -> Object \cup {NULL}]
        /\ newList \in [Thread -> Object \cup {NULL}]
    OBVIOUS
  <2> QED BY <2>3, <2>4, <2>5, <2>6, <2>7 DEF TypeOK
<1>3. PcInv /\ ListInv /\ HandInv /\ ReadInv
  BY <1>1, PoolConstants DEF PcInv, ListInv, HandInv, Carrying, ReadInv
<1>4. HeapInv
  BY <1>1, PoolConstants DEF HeapInv
<1>5. CountInv
  BY DEF CountInv, Holders
<1>6. TotalInv
  <2>1. heap = {} /\ Counted = {}
    BY DEF Counted
  <2> QED BY <1>2, <2>1, FS_EmptySet DEF TotalInv, TypeOK
<1> QED BY <1>2, <1>3, <1>4, <1>5, <1>6 DEF IInv

\* What the threads have read of the lists, the places of the objects, their
\* counts and the number of all objects stay consistent in every step.
THEOREM Inductive == Spec => []IInv
<1>1. ASSUME IInv, UNCHANGED vars PROVE IInv'
  <2>1. UNCHANGED <<mmMaxObjs, mmTotalObjs, heap, mmCnt, next, list, latest, lastStolenThreadNum,
                    pc, at, phase, obj, oldList, newList, refs, failed>>
    BY <1>1 DEF vars, poolVars, listVars, threadVars
  <2>2. TypeOK'
    BY <1>1, <2>1 DEF IInv, TypeOK
  <2>3. PcInv'
    BY <1>1, <2>1 DEF IInv, PcInv
  <2>4. /\ \A l \in Thread : OnList(l)' = OnList(l)
        /\ ListInv'
    BY <1>1, <2>1 DEF IInv, ListInv, OnList
  <2>5. HandInv'
    BY <1>1, <2>1, <2>4 DEF IInv, HandInv
  <2>6. HeapInv'
    BY <1>1, <2>1, <2>4 DEF IInv, HeapInv
  <2>7. ReadInv'
    BY <1>1, <2>1, <2>4 DEF IInv, ReadInv, TypeOK
  <2>8. CountInv'
    BY <1>1, <2>1, HoldersFrame DEF IInv, CountInv
  <2>9. TotalInv'
    BY <1>1, <2>1 DEF IInv, TotalInv, Counted
  <2> QED BY <2>2, <2>3, <2>4, <2>5, <2>6, <2>7, <2>8, <2>9 DEF IInv
<1>2. ASSUME IInv, NEW t \in Thread, Step(t) PROVE IInv'
  BY <1>2, PushReadStep, PushCasStep, PopBeginStep, PopHeadStep, PopNextStep, PopCasStep,
     PopEmptyStep, NewStep, PreAllocateStep, PreAllocateDoneStep, ConstructStep, DemandStep,
     CheckStep, LastRefDroppedStep, CopyStep, DropStep DEF Step
<1>3. ASSUME IInv, [Next]_vars PROVE IInv'
  BY <1>1, <1>2, <1>3, SetMaxObjsStep DEF Next, Failed
<1> QED BY <1>3, InitInv, PTL DEF Spec

\* Exactly one of three sets has a member, and no more than one.
LEMMA OneOfThree ==
    ASSUME NEW A, NEW B, NEW p \in BOOLEAN, IsFiniteSet(A), IsFiniteSet(B),
           \A x, y \in A : x = y, \A x, y \in B : x = y,
           A # {} \/ B # {} \/ p, A = {} \/ B = {}, p => A = {} /\ B = {}
    PROVE  Cardinality(A) + Cardinality(B) + (IF p THEN 1 ELSE 0) = 1
<1>1. \A S : IsFiniteSet(S) /\ S # {} /\ (\A x, y \in S : x = y) => Cardinality(S) = 1
  <2>1. ASSUME NEW S, S # {}, \A x, y \in S : x = y PROVE \E x : S = {x}
    BY <2>1
  <2> QED BY <2>1, FS_Singleton
<1> QED BY <1>1, FS_EmptySet

\* No object is lost and none is given out twice, although threads push to and
\* pop from the lists of each other without a lock.
THEOREM OnePlace == Spec => []ObjectsInOnePlace
<1>1. ASSUME IInv PROVE ObjectsInOnePlace
  <2>1. IsFiniteSet(Thread)
    BY PoolConstants, FS_Interval DEF Thread
  <2>2. ASSUME NEW o \in heap
        PROVE  Cardinality({l \in Thread : o \in OnList(l)}) + Cardinality(Carriers(o))
                   + (IF InUse(o) THEN 1 ELSE 0) = 1
    <3> DEFINE A == {l \in Thread : o \in OnList(l)}
    <3>1. IsFiniteSet(A) /\ IsFiniteSet(Carriers(o)) /\ o \in Object /\ o # NULL
      BY <1>1, <2>1, FS_Subset, PoolConstants DEF Carriers, IInv, TypeOK
    <3>2. (\A x, y \in A : x = y) /\ (\A x, y \in Carriers(o) : x = y)
      BY <1>1, <3>1 DEF IInv, ListInv, HandInv, Carriers
    <3>3. A # {} \/ Carriers(o) # {} \/ InUse(o)
      BY <1>1, <3>1 DEF IInv, HeapInv, Carriers, InUse
    <3>4. (A = {} \/ Carriers(o) = {}) /\ (InUse(o) => A = {} /\ Carriers(o) = {})
      BY <1>1 DEF IInv, HandInv, Carriers, InUse
    <3>5. InUse(o) \in BOOLEAN
      BY DEF InUse
    <3> HIDE DEF A
    <3>6. Cardinality(A) + Cardinality(Carriers(o)) + (IF InUse(o) THEN 1 ELSE 0) = 1
      BY <3>1, <3>2, <3>3, <3>4, <3>5, OneOfThree
    <3> QED BY <3>6 DEF A
  <2> QED BY <1>1, <2>2 DEF ObjectsInOnePlace, IInv
<1> QED BY <1>1, Inductive, PTL

\* An object in use has as many references as its count says, and none of the
\* ASSERTs on counts and links fails.
THEOREM CountsAreRight == Spec => []ReferencesCounted
<1>1. ASSUME IInv PROVE ReferencesCounted
  <2>1. ASSUME NEW o \in Object, InUse(o)
        PROVE  mmCnt[o] = Cardinality({t \in Thread : o \in refs[t]})
    <3>1. Holders(o) # {} /\ ~\E t \in Thread : pc[t] = "dropped" /\ obj[t] = o
      BY <1>1, <2>1 DEF InUse, Holders, IInv, HandInv
    <3> QED BY <1>1, <3>1 DEF IInv, CountInv, Holders
  <2> QED BY <1>1, <2>1 DEF ReferencesCounted, IInv, CountInv
<1> QED BY <1>1, Inductive, PTL

\* Once nobody is allocating, the number of objects is counted exactly and is
\* not more than the maximum.
THEOREM TotalKept == Spec => []TotalIsExact
<1>1. ASSUME IInv PROVE TotalIsExact
  <2>1. SUFFICES ASSUME \A t \in Thread : pc[t] \notin {"prealloc", "fixup", "check"}
                 PROVE  mmTotalObjs = Cardinality(heap) /\ mmTotalObjs <= mmMaxObjs
    BY DEF TotalIsExact
  <2>2. Cardinality(Counted) = 0
    BY <2>1, FS_EmptySet DEF Counted
  <2> QED BY <1>1, <2>2, HeapCardinality DEF IInv, TotalInv
<1> QED BY <1>1, Inductive, PTL

=============================================================================
