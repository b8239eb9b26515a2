------------------------- MODULE Controller_proofs -------------------------
(***************************************************************************)
(* Proofs about Controller, for any scenarios: the model is never clocked  *)
(* past an action or a command, periodic actions happen once a period, and *)
(* commands to start and stop take effect in their order.                  *)
(***************************************************************************)
EXTENDS Controller, FiniteSetTheorems, WellFoundedInduction, TLAPS

-----------------------------------------------------------------------------
(* The inductive invariant *)

WorkItem == [what : {"START", "STOP", "EXIT", "OTHER", "CLEAR", "PROGRESS"}, on : Kind \cup {"NOW"},
             periodic : BOOLEAN, actionTime : Nat, period : Nat, breaks : BOOLEAN,
             since : Nat, runs : Nat]

\* Is this what a command puts on the work list?
FromCommand(steps, item) ==
    \E c \in Command, breaks \in BOOLEAN :
        /\ item = Item(c, breaks)
        /\ c.what \in {"START", "STOP"} /\ c.on = "NOW" => breaks
        /\ c.periodic => \A step \in steps : step[c.on] <= c.n

\* An item of the list of a kind.
Placed(steps, kind, item) ==
    /\ item \in WorkItem /\ ListOf(item) = kind /\ item.what # "CLEAR"
    /\ item.on = "NOW" => item.actionTime = 0 /\ ~item.periodic
    /\ item.on # "NOW" => item.actionTime > 0 /\ item.what # "START"
    /\ kind = "PACKET" => ~item.periodic
    /\ item.periodic => item.period > 0 /\ \A step \in steps : step[kind] <= item.period

\* The number of the next period to happen.
Turn(item) == item.runs + 1 + item.since \div item.period

\* A periodic action waits for a multiple of its period, the next one or, if it
\* is due, the last one.
Regular(time, item) ==
    item.periodic =>
        /\ item.actionTime = Turn(item) * item.period
        /\ item.actionTime <= time + item.period
        /\ time < item.actionTime + item.period

\* No mark is passed over.
Good(steps, time, kind, item) ==
    /\ Placed(steps, kind, item) /\ Regular(time, item)
    /\ kind = "SSCMARK" => item.actionTime >= time \/ item.actionTime < item.since

WorkInv ==
    /\ TypeOK /\ scenario \in Scenarios
    /\ ctrlWorkList \in Seq(WorkItem)
    /\ \A i \in DOMAIN ctrlWorkList : FromCommand(scenario.steps, ctrlWorkList[i])

Sorted(list) == \A i, j \in DOMAIN list : i <= j => list[i].actionTime <= list[j].actionTime

\* The lists of the schedule; all but those of packets and marks are in the
\* order of time.
ListsInv ==
    /\ lists \in [Kind -> Seq(WorkItem)]
    /\ \A kind \in Kind : \A i \in DOMAIN lists[kind] :
          Good(scenario.steps, now[kind], kind, lists[kind][i])
    /\ \A kind \in StopKind : Sorted(lists[kind])

\* What the states of the controller's loop promise.
LoopInv ==
    /\ pc \in {"execute", "clock"} => ~pmStopped
    /\ \A i \in DOMAIN ctrlWorkList : ctrlWorkList[i].breaks => sysBreak

Told(item) == item.on = "NOW" /\ item.what \in {"START", "STOP"}

NoneTold(list) == \A i \in DOMAIN list : ~Told(list[i])

\* Is what the last command to start or stop in a list?
LastTold(list, what) ==
    \A i \in DOMAIN list :
        Told(list[i]) /\ (\A j \in DOMAIN list : j > i => ~Told(list[j])) => list[i].what = what

\* The last command to start or stop is on the work list, or in the list of
\* cycles, or it has been obeyed.
ToldInv ==
    /\ LastTold(ctrlWorkList, lastTold)
    /\ NoneTold(ctrlWorkList) => LastTold(lists["CYCLE"], lastTold)
    /\ NoneTold(ctrlWorkList) /\ NoneTold(lists["CYCLE"]) => (pmStopped <=> lastTold = "STOP")

Ahead(time, kind, item) ==
    /\ item.on # "NOW"
    /\ item.actionTime > time \/ (kind = "SSCMARK" /\ item.actionTime < item.since)

\* When the workbench is informed nothing is due ...
InformInv ==
    pc = "inform" =>
        /\ \A kind \in Kind \ {"PACKET"} : \A i \in DOMAIN lists[kind] :
              Ahead(now[kind], kind, lists[kind][i])
        /\ lists["PACKET"] # <<>> => Head(lists["PACKET"]).actionTime > now["PACKET"]

\* ... and the execution stops before something would be overdue.
StopInv ==
    pc \in {"execute", "clock"} =>
        /\ \A kind \in StopKind : \A i \in DOMAIN lists[kind] :
              lists[kind][i].on # "NOW" /\ stop[kind] <= lists[kind][i].actionTime
        /\ lists["SSCMARK"] # <<>> => stop["MACROINST"] <= now["MACROINST"] + 1
        /\ \A i \in DOMAIN lists["SSCMARK"] :
              \/ Ahead(now["SSCMARK"], "SSCMARK", lists["SSCMARK"][i])
              \/ stop["MACROINST"] <= now["MACROINST"]

\* The only failure is that of a nanosecond passed over.
FailInv ==
    pc = "failed" =>
        /\ lists["CYCLE"] # <<>> => ~IsDue(Head(lists["CYCLE"]))
        /\ lists["NANOSECOND"] # <<>>
        /\ Head(lists["NANOSECOND"]).actionTime < now["NANOSECOND"]

IInv == WorkInv /\ ListsInv /\ LoopInv /\ ToldInv /\ InformInv /\ StopInv /\ FailInv

-----------------------------------------------------------------------------
(* Sets of natural numbers and sequences *)

\* A set of natural numbers has a least one.
LEMMA Least ==
    ASSUME NEW S \in SUBSET Nat, S # {}
    PROVE  \E n \in S : \A m \in S : n <= m
<1> DEFINE R == {x \in Nat \X Nat : x[1] < x[2]}
<1>1. OpToRel(<, Nat) = R
  BY DEF OpToRel
<1>2. IsWellFoundedOn(R, Nat)
  BY <1>1, NatLessThanWellFounded
<1>3. PICK n \in S : \A m \in S : ~(<<m, n>> \in R)
  <2> HIDE DEF R
  <2> QED BY <1>2, WFMin
<1>4. ASSUME NEW m \in S PROVE n <= m
  <2>1. <<m, n>> \in Nat \X Nat /\ m \in Nat /\ n \in Nat
    OBVIOUS
  <2>2. ~(m < n)
    BY <1>3, <2>1
  <2> QED BY <2>1, <2>2
<1> QED BY <1>4

\* Min is that one.
LEMMA MinIsLeast ==
    ASSUME NEW S \in SUBSET Nat, S # {}
    PROVE  Min(S) \in S /\ \A m \in S : Min(S) <= m
BY Least DEF Min

\* What SubSeq does, element by element.
LEMMA Slices ==
    ASSUME NEW S, NEW s \in Seq(S), NEW a \in 1..Len(s) + 1, NEW b \in 0..Len(s), b >= a - 1
    PROVE  /\ SubSeq(s, a, b) \in Seq(S) /\ Len(SubSeq(s, a, b)) = b - a + 1
           /\ \A i \in 1..b - a + 1 : SubSeq(s, a, b)[i] = s[a + i - 1]
OBVIOUS

\* A sequence after another.
LEMMA Joined ==
    ASSUME NEW S, NEW s \in Seq(S), NEW t \in Seq(S)
    PROVE  /\ s \o t \in Seq(S) /\ Len(s \o t) = Len(s) + Len(t)
           /\ \A i \in 1..Len(s) : (s \o t)[i] = s[i]
           /\ \A i \in 1..Len(t) : (s \o t)[Len(s) + i] = t[i]
OBVIOUS

\* Places counted from k.
LEMMA Shifted ==
    ASSUME NEW l \in Nat, NEW k \in 1..l, NEW i \in k..l - 1
    PROVE  LET j == i - k + 1
           IN  j \in 1..l - k /\ (k - 1) + j = i /\ k + j = i + 1
OBVIOUS

\* What RemoveAt does, element by element.
LEMMA Removed ==
    ASSUME NEW S, NEW s \in Seq(S), NEW k \in DOMAIN s
    PROVE  /\ RemoveAt(s, k) \in Seq(S) /\ Len(RemoveAt(s, k)) = Len(s) - 1
           /\ \A i \in 1..k - 1 : RemoveAt(s, k)[i] = s[i]
           /\ \A i \in k..Len(s) - 1 : RemoveAt(s, k)[i] = s[i + 1]
<1> DEFINE u == SubSeq(s, 1, k - 1)
           v == SubSeq(s, k + 1, Len(s))
<1>1. k \in 1..Len(s) /\ Len(s) \in Nat
  OBVIOUS
<1>2. u \in Seq(S) /\ Len(u) = k - 1 /\ \A i \in 1..k - 1 : u[i] = s[i]
  BY <1>1, Slices
<1>3. v \in Seq(S) /\ Len(v) = Len(s) - k /\ \A i \in 1..Len(s) - k : v[i] = s[k + i]
  BY <1>1, Slices
<1>4. RemoveAt(s, k) = u \o v
  BY DEF RemoveAt
<1> HIDE DEF u, v
<1>5. u \o v \in Seq(S) /\ Len(u \o v) = Len(s) - 1
  BY <1>1, <1>2, <1>3, Joined
<1>6. \A i \in 1..k - 1 : (u \o v)[i] = s[i]
  BY <1>1, <1>2, <1>3, Joined
<1>7. ASSUME NEW i \in k..Len(s) - 1 PROVE (u \o v)[i] = s[i + 1]
  <2>1. PICK j \in Nat : j = i - k + 1
    BY <1>1
  <2>2. j \in 1..Len(s) - k /\ (k - 1) + j = i /\ k + j = i + 1
    BY <2>1, <1>1, Shifted
  <2>3. j \in 1..Len(v) /\ Len(u) + j = i
    BY <2>2, <1>2, <1>3
  <2>5. (u \o v)[Len(u) + j] = v[j]
    <3>1. \A n \in 1..Len(v) : (u \o v)[Len(u) + n] = v[n]
      BY <1>2, <1>3, Joined
    <3> QED BY <2>3, <3>1
  <2>4. v[j] = s[k + j]
    BY <2>2, <1>3
  <2> QED BY <2>2, <2>3, <2>4, <2>5
<1> QED BY <1>4, <1>5, <1>6, <1>7

\* What InsertAt does, element by element.
LEMMA Inserted ==
    ASSUME NEW S, NEW s \in Seq(S), NEW k \in 1..Len(s) + 1, NEW e \in S
    PROVE  /\ InsertAt(s, k, e) \in Seq(S) /\ Len(InsertAt(s, k, e)) = Len(s) + 1
           /\ \A i \in 1..k - 1 : InsertAt(s, k, e)[i] = s[i]
           /\ InsertAt(s, k, e)[k] = e
           /\ \A i \in k..Len(s) : InsertAt(s, k, e)[i + 1] = s[i]
<1> DEFINE u == SubSeq(s, 1, k - 1)
           v == SubSeq(s, k, Len(s))
           w == u \o <<e>>
<1>1. k \in 1..Len(s) + 1 /\ Len(s) \in Nat
  OBVIOUS
<1>2. u \in Seq(S) /\ Len(u) = k - 1 /\ \A i \in 1..k - 1 : u[i] = s[i]
  BY <1>1, Slices
<1>3. v \in Seq(S) /\ Len(v) = Len(s) - k + 1 /\ \A i \in 1..Len(s) - k + 1 : v[i] = s[k + i - 1]
  BY <1>1, Slices
<1>4. InsertAt(s, k, e) = w \o v
  BY DEF InsertAt
<1>5. <<e>> \in Seq(S) /\ Len(<<e>>) = 1 /\ <<e>>[1] = e
  OBVIOUS
<1> HIDE DEF u, v
<1>6. w \in Seq(S) /\ Len(w) = k /\ w[k] = e /\ \A i \in 1..k - 1 : w[i] = s[i]
  BY <1>1, <1>2, <1>5, Joined
<1> HIDE DEF w
<1>7. w \o v \in Seq(S) /\ Len(w \o v) = Len(s) + 1
  BY <1>1, <1>3, <1>6, Joined
<1>8. (w \o v)[k] = e /\ \A i \in 1..k - 1 : (w \o v)[i] = s[i]
  BY <1>1, <1>3, <1>6, Joined
<1>9. ASSUME NEW i \in k..Len(s) PROVE (w \o v)[i + 1] = s[i]
  <2>1. i - k + 1 \in 1..Len(v) /\ Len(w) + (i - k + 1) = i + 1 /\ k + (i - k + 1) - 1 = i
    BY <1>1, <1>3, <1>6
  <2> QED BY <2>1, <1>3, <1>6, Joined
<1> QED BY <1>4, <1>7, <1>8, <1>9

-----------------------------------------------------------------------------
(* The lists of the schedule *)

\* The six kinds.
LEMMA Six ==
    /\ Kind = {"CYCLE", "NANOSECOND", "INST", "MACROINST", "PACKET", "SSCMARK"}
    /\ StopKind = {"CYCLE", "NANOSECOND", "INST", "MACROINST"}
    /\ DOMAIN Kinds = 1..6
    /\ \A i \in 1..6 : Kinds[i] \in Kind
    /\ Kinds[1] = "CYCLE"
BY DEF Kind, StopKind, Kinds, ToSet

\* Items have times.
LEMMA Times ==
    /\ \A item \in WorkItem : item.actionTime \in Nat
    /\ \A list \in Seq(WorkItem) :
          \A i \in 1..Len(list) : list[i] \in WorkItem /\ list[i].actionTime \in Nat
<1>1. ASSUME NEW item \in WorkItem PROVE item.actionTime \in Nat
  BY DEF WorkItem
<1>2. ASSUME NEW list \in Seq(WorkItem), NEW i \in 1..Len(list) PROVE list[i] \in WorkItem
  OBVIOUS
<1> QED BY <1>1, <1>2

\* InsertOrdered puts an item after those that are not later, and before the
\* later ones.
LEMMA OrderedPlace ==
    ASSUME NEW list \in Seq(WorkItem), Sorted(list), NEW item \in WorkItem
    PROVE  \E p \in 1..Len(list) + 1 :
              /\ InsertOrdered(list, item) = InsertAt(list, p, item)
              /\ \A i \in 1..p - 1 : list[i].actionTime <= item.actionTime
              /\ \A i \in p..Len(list) : list[i].actionTime > item.actionTime
<1> DEFINE L == {i \in 1..Len(list) : list[i].actionTime > item.actionTime}
           later == IF L # {} THEN Min(L) ELSE 0
           p == IF later = 0 THEN Len(list) + 1 ELSE later
<1>1. InsertOrdered(list, item) = InsertAt(list, p, item)
  BY DEF InsertOrdered, SelectInSeq
<1>2. \A i \in 1..Len(list) : list[i].actionTime \in Nat
  BY Times
<1>3. item.actionTime \in Nat
  BY Times
<1>4. CASE L = {}
  <2>1. p = Len(list) + 1
    BY <1>4
  <2>2. \A i \in 1..Len(list) : list[i].actionTime <= item.actionTime
    BY <1>2, <1>3, <1>4
  <2> HIDE DEF p
  <2>3. p \in 1..Len(list) + 1 /\ p - 1 = Len(list) /\ \A i \in p..Len(list) : FALSE
    BY <2>1
  <2> QED BY <1>1, <2>2, <2>3
<1>5. CASE L # {}
  <2>1. L \in SUBSET Nat
    OBVIOUS
  <2>2. Min(L) \in L /\ \A m \in L : Min(L) <= m
    <3> HIDE DEF L
    <3> QED BY <2>1, <1>5, MinIsLeast
  <2>3. p = Min(L)
    BY <2>2, <1>5
  <2> HIDE DEF p
  <2>4. p \in 1..Len(list)
    BY <2>2, <2>3
  <2>5. \A i \in 1..p - 1 : list[i].actionTime <= item.actionTime
    BY <2>2, <2>3, <2>4, <1>2, <1>3
  <2>6. \A i \in p..Len(list) : list[i].actionTime > item.actionTime
    <3>1. list[p].actionTime > item.actionTime
      BY <2>2, <2>3
    <3> QED BY <3>1, <2>4, <1>2, <1>3 DEF Sorted
  <2> QED BY <1>1, <2>4, <2>5, <2>6
<1> QED BY <1>4, <1>5

\* A list with an item put at place p.
Spliced(res, list, p, item) ==
    /\ p \in 1..Len(list) + 1
    /\ Len(res) = Len(list) + 1 /\ res[p] = item
    /\ \A i \in 1..p - 1 : res[i] = list[i]
    /\ \A i \in p..Len(list) : res[i + 1] = list[i]

\* Where the items are before and after.
LEMMA SplicedPlaces ==
    ASSUME NEW list \in Seq(WorkItem), NEW res \in Seq(WorkItem), NEW p, NEW item,
           Spliced(res, list, p, item)
    PROVE  /\ \A n \in DOMAIN res :
                 \/ n < p /\ n \in DOMAIN list /\ res[n] = list[n]
                 \/ n = p /\ res[n] = item
                 \/ n > p /\ n - 1 >= p /\ n - 1 \in DOMAIN list /\ res[n] = list[n - 1]
           /\ \A n \in DOMAIN list :
                 \E k \in DOMAIN res : /\ res[k] = list[n]
                                       /\ (k = n /\ n < p) \/ (k = n + 1 /\ n >= p)
           /\ p \in DOMAIN res /\ DOMAIN res \subseteq Nat /\ DOMAIN list \subseteq Nat
           /\ item \in WorkItem
<1>1. /\ p \in 1..Len(list) + 1 /\ Len(list) \in Nat
      /\ DOMAIN res = 1..Len(list) + 1 /\ DOMAIN list = 1..Len(list)
      /\ Len(res) = Len(list) + 1 /\ res[p] = item
      /\ \A i \in 1..p - 1 : res[i] = list[i]
      /\ \A i \in p..Len(list) : res[i + 1] = list[i]
  BY DEF Spliced
<1>2. ASSUME NEW n \in DOMAIN res
      PROVE  \/ n < p /\ n \in DOMAIN list /\ res[n] = list[n]
             \/ n = p /\ res[n] = item
             \/ n > p /\ n - 1 >= p /\ n - 1 \in DOMAIN list /\ res[n] = list[n - 1]
  <2>1. n \in 1..Len(list) + 1
    BY <1>1
  <2>2. CASE n < p
    BY <2>1, <2>2, <1>1
  <2>3. CASE n = p
    BY <2>3, <1>1
  <2>4. CASE n > p
    <3>1. n - 1 \in p..Len(list) /\ (n - 1) + 1 = n /\ n - 1 \in 1..Len(list) /\ n - 1 >= p
      BY <2>1, <2>4, <1>1
    <3>2. res[(n - 1) + 1] = list[n - 1]
      BY <3>1, <1>1
    <3> QED BY <3>1, <3>2, <2>4, <1>1
  <2> QED BY <2>1, <2>2, <2>3, <2>4, <1>1
<1>3. ASSUME NEW n \in DOMAIN list
      PROVE  \/ n < p /\ n \in DOMAIN res /\ res[n] = list[n]
             \/ n >= p /\ n + 1 \in DOMAIN res /\ res[n + 1] = list[n]
  BY <1>1
<1>4. ASSUME NEW n \in DOMAIN list
      PROVE  \E k \in DOMAIN res : /\ res[k] = list[n]
                                   /\ (k = n /\ n < p) \/ (k = n + 1 /\ n >= p)
  <2>1. CASE n < p /\ n \in DOMAIN res /\ res[n] = list[n]
    BY <2>1
  <2>2. CASE n >= p /\ n + 1 \in DOMAIN res /\ res[n + 1] = list[n]
    BY <2>2
  <2> QED BY <1>3, <2>1, <2>2
<1>5. item \in WorkItem
  BY <1>1
<1> QED BY <1>1, <1>2, <1>4, <1>5

\* What is so of all items before and of the new one is so of all after.
LEMMA SplicedItems ==
    ASSUME NEW list \in Seq(WorkItem), NEW res \in Seq(WorkItem), NEW p, NEW item,
           Spliced(res, list, p, item)
    PROVE  {res[n] : n \in DOMAIN res} = {list[n] : n \in DOMAIN list} \cup {item}
<1>1. \A n \in DOMAIN res : res[n] = item \/ \E m \in DOMAIN list : res[n] = list[m]
  BY SplicedPlaces
<1>2. \A n \in DOMAIN list : \E m \in DOMAIN res : res[m] = list[n]
  BY SplicedPlaces
<1>3. \E m \in DOMAIN res : res[m] = item
  BY SplicedPlaces
<1> QED BY <1>1, <1>2, <1>3

\* An item taken out of a list leaves it in order.
LEMMA SplicedSorted ==
    ASSUME NEW list \in Seq(WorkItem), NEW res \in Seq(WorkItem), NEW p, NEW item,
           Spliced(res, list, p, item), Sorted(res)
    PROVE  Sorted(list)
<1> SUFFICES ASSUME NEW i \in DOMAIN list, NEW j \in DOMAIN list, i <= j
             PROVE  list[i].actionTime <= list[j].actionTime
  BY DEF Sorted
<1>1. i \in Nat /\ j \in Nat /\ p \in Nat
  BY SplicedPlaces
<1>2. PICK k \in DOMAIN res : res[k] = list[i] /\ ((k = i /\ i < p) \/ (k = i + 1 /\ i >= p))
  BY SplicedPlaces
<1>3. PICK l \in DOMAIN res : res[l] = list[j] /\ ((l = j /\ j < p) \/ (l = j + 1 /\ j >= p))
  BY SplicedPlaces
<1>4. k <= l
  BY <1>1, <1>2, <1>3
<1> QED BY <1>2, <1>3, <1>4 DEF Sorted

\* The commands to start and stop in a list before and after.
LEMMA SplicedTold ==
    ASSUME NEW list \in Seq(WorkItem), NEW res \in Seq(WorkItem), NEW p, NEW item,
           Spliced(res, list, p, item), NEW what
    PROVE  /\ ~Told(item) => /\ NoneTold(list) <=> NoneTold(res)
                             /\ LastTold(list, what) <=> LastTold(res, what)
           /\ Told(item) => ~NoneTold(res)
           /\ Told(item) /\ (\A i \in DOMAIN list : i >= p => ~Told(list[i])) =>
                 LastTold(res, item.what)
           /\ Told(item) /\ p = 1 /\ LastTold(res, what) =>
                 /\ LastTold(list, what)
                 /\ NoneTold(list) => what = item.what
<1>1. DOMAIN res \subseteq Nat /\ DOMAIN list \subseteq Nat /\ p \in DOMAIN res /\ res[p] = item
  BY SplicedPlaces DEF Spliced
<1>2. Told(item) => ~NoneTold(res)
  BY <1>1 DEF NoneTold
<1>3. ASSUME ~Told(item) PROVE NoneTold(list) <=> NoneTold(res)
  <2>1. ASSUME NoneTold(list) PROVE NoneTold(res)
    BY <1>3, <2>1, SplicedPlaces DEF NoneTold
  <2>2. ASSUME NoneTold(res) PROVE NoneTold(list)
    <3> SUFFICES ASSUME NEW i \in DOMAIN list PROVE ~Told(list[i])
      BY DEF NoneTold
    <3>1. \E k \in DOMAIN res : res[k] = list[i]
      BY SplicedPlaces
    <3> QED BY <2>2, <3>1 DEF NoneTold
  <2> QED BY <2>1, <2>2
<1>4. ASSUME LastTold(res, what), ~Told(item) \/ p = 1 PROVE LastTold(list, what)
  <2> SUFFICES ASSUME NEW i \in DOMAIN list, Told(list[i]),
                      \A j \in DOMAIN list : j > i => ~Told(list[j])
               PROVE  list[i].what = what
    BY DEF LastTold
  <2>1. PICK k \in DOMAIN res : res[k] = list[i] /\ ((k = i /\ i < p) \/ (k = i + 1 /\ i >= p))
    BY SplicedPlaces
  <2>2. ASSUME NEW l \in DOMAIN res, l > k PROVE ~Told(res[l])
    <3>1. i \in Nat /\ k \in Nat /\ l \in Nat /\ p \in Nat /\ i >= 1
      BY <1>1
    <3>2. CASE l < p
      <4>1. l \in DOMAIN list /\ res[l] = list[l]
        BY <3>2, <3>1, SplicedPlaces
      <4>2. l > i
        BY <3>1, <3>2, <2>1, <2>2
      <4> QED BY <4>1, <4>2
    <3>3. CASE l = p
      <4>1. res[l] = item
        BY <3>3, <1>1
      <4>2. p # 1
        BY <3>1, <3>3, <2>1, <2>2
      <4> QED BY <4>1, <4>2, <1>4
    <3>4. CASE l > p
      <4>1. l - 1 \in DOMAIN list /\ res[l] = list[l - 1]
        BY <3>4, <3>1, SplicedPlaces
      <4>2. l - 1 > i
        BY <3>1, <3>4, <2>1, <2>2
      <4> QED BY <4>1, <4>2
    <3> QED BY <3>1, <3>2, <3>3, <3>4
  <2> QED BY <2>1, <2>2, <1>4 DEF LastTold
<1>5. ASSUME LastTold(list, what), ~Told(item) PROVE LastTold(res, what)
  <2> SUFFICES ASSUME NEW k \in DOMAIN res, Told(res[k]),
                      \A l \in DOMAIN res : l > k => ~Told(res[l])
               PROVE  res[k].what = what
    BY DEF LastTold
  <2>1. PICK i \in DOMAIN list : res[k] = list[i] /\ ((k = i /\ i < p) \/ (k = i + 1 /\ i >= p))
    <3>1. k # p
      BY <1>1, <1>5
    <3>2. k \in Nat /\ p \in Nat
      BY <1>1
    <3>3. CASE k < p
      <4>1. k \in DOMAIN list /\ res[k] = list[k]
        BY <3>2, <3>3, SplicedPlaces
      <4> QED BY <4>1, <3>3
    <3>4. CASE k > p
      <4>1. k - 1 >= p /\ k - 1 \in DOMAIN list /\ res[k] = list[k - 1] /\ k = (k - 1) + 1
        BY <3>2, <3>4, SplicedPlaces
      <4> QED BY <4>1
    <3> QED BY <3>1, <3>2, <3>3, <3>4
  <2>2. ASSUME NEW j \in DOMAIN list, j > i PROVE ~Told(list[j])
    <3>1. i \in Nat /\ k \in Nat /\ j \in Nat /\ p \in Nat
      BY <1>1
    <3>2. PICK l \in DOMAIN res : res[l] = list[j] /\ ((l = j /\ j < p) \/ (l = j + 1 /\ j >= p))
      BY SplicedPlaces
    <3>3. l > k
      BY <3>1, <3>2, <2>1, <2>2
    <3> QED BY <3>2, <3>3
  <2> QED BY <2>1, <2>2, <1>5 DEF LastTold
<1>6. ASSUME Told(item), \A i \in DOMAIN list : i >= p => ~Told(list[i])
      PROVE  LastTold(res, item.what)
  <2> SUFFICES ASSUME NEW k \in DOMAIN res, Told(res[k]),
                      \A l \in DOMAIN res : l > k => ~Told(res[l])
               PROVE  res[k].what = item.what
    BY DEF LastTold
  <2>1. k \in Nat /\ p \in Nat
    BY <1>1
  <2>2. ~(k < p)
    BY <2>1, <1>1, <1>6
  <2>3. ~(k > p)
    <3> SUFFICES ASSUME k > p PROVE FALSE
      OBVIOUS
    <3>1. k - 1 >= p /\ k - 1 \in DOMAIN list /\ res[k] = list[k - 1]
      BY <2>1, SplicedPlaces
    <3> QED BY <3>1, <1>6
  <2> QED BY <2>1, <2>2, <2>3, <1>1
<1>7. ASSUME Told(item), p = 1, LastTold(res, what), NoneTold(list) PROVE what = item.what
  <2>1. ASSUME NEW l \in DOMAIN res, l > 1 PROVE ~Told(res[l])
    <3>1. l - 1 \in DOMAIN list /\ res[l] = list[l - 1]
      BY <2>1, <1>7, <1>1, SplicedPlaces
    <3> QED BY <3>1, <1>7 DEF NoneTold
  <2> QED BY <2>1, <1>1, <1>7 DEF LastTold
<1> QED BY <1>2, <1>3, <1>4, <1>5, <1>6, <1>7

\* A list after InsertOrdered.
LEMMA OrderedKeeps ==
    ASSUME NEW list \in Seq(WorkItem), Sorted(list), NEW item \in WorkItem,
           NEW res, res = InsertOrdered(list, item)
    PROVE  /\ res \in Seq(WorkItem) /\ Sorted(res)
           /\ \E p : /\ Spliced(res, list, p, item)
                     /\ \A i \in DOMAIN list : i >= p => list[i].actionTime > item.actionTime
<1>1. PICK p \in 1..Len(list) + 1 :
              /\ InsertOrdered(list, item) = InsertAt(list, p, item)
              /\ \A i \in 1..p - 1 : list[i].actionTime <= item.actionTime
              /\ \A i \in p..Len(list) : list[i].actionTime > item.actionTime
  BY OrderedPlace
<1>2. res \in Seq(WorkItem) /\ Spliced(res, list, p, item)
  <2>1. /\ res \in Seq(WorkItem) /\ Len(res) = Len(list) + 1
        /\ \A i \in 1..p - 1 : res[i] = list[i]
        /\ res[p] = item
        /\ \A i \in p..Len(list) : res[i + 1] = list[i]
    <3>1. res = InsertAt(list, p, item)
      BY <1>1
    <3> QED BY <3>1, Inserted
  <2> QED BY <2>1 DEF Spliced
<1>3. /\ \A i \in DOMAIN list : list[i].actionTime \in Nat
      /\ item.actionTime \in Nat /\ p \in Nat
  BY Times
<1>4. /\ \A i \in DOMAIN list : i >= p => list[i].actionTime > item.actionTime
      /\ \A i \in DOMAIN list : i < p => list[i].actionTime <= item.actionTime
  BY <1>1
<1>6. ASSUME NEW i \in DOMAIN res, NEW j \in DOMAIN res, i <= j
      PROVE  res[i].actionTime <= res[j].actionTime
  <2>1. i \in Nat /\ j \in Nat
    BY <1>2
  <2>2. CASE j < p
    <3>1. res[i] = list[i] /\ res[j] = list[j] /\ i \in DOMAIN list /\ j \in DOMAIN list
      BY <1>2, <1>3, <1>6, <2>1, <2>2, SplicedPlaces
    <3> QED BY <3>1, <1>6 DEF Sorted
  <2>3. CASE j = p
    <3>1. res[j] = item
      BY <1>2, <2>3 DEF Spliced
    <3>2. CASE i = p
      BY <3>1, <3>2, <2>3, <1>3
    <3>3. CASE i < p
      <4>1. res[i] = list[i] /\ i \in DOMAIN list
        BY <1>2, <1>3, <2>1, <3>3, SplicedPlaces
      <4> QED BY <4>1, <3>1, <3>3, <1>4
    <3> QED BY <3>2, <3>3, <2>1, <2>3, <1>3, <1>6
  <2>4. CASE j > p
    <3>5. \/ j < p
          \/ j = p
          \/ j - 1 >= p /\ j - 1 \in DOMAIN list /\ res[j] = list[j - 1]
      BY <1>2, SplicedPlaces
    <3>1. res[j] = list[j - 1] /\ j - 1 \in DOMAIN list /\ j - 1 >= p
      BY <3>5, <1>3, <2>1, <2>4
    <3>2. CASE i > p
      <4>1. res[i] = list[i - 1] /\ i - 1 \in DOMAIN list
        BY <1>2, <1>3, <2>1, <3>2, SplicedPlaces
      <4>2. i - 1 <= j - 1
        BY <1>6, <2>1
      <4> QED BY <4>1, <4>2, <3>1 DEF Sorted
    <3>3. CASE i = p
      <4>1. res[i] = item
        BY <1>2, <3>3 DEF Spliced
      <4> QED BY <4>1, <3>1, <1>4, <1>3
    <3>4. CASE i < p
      <4>1. res[i] = list[i] /\ i \in DOMAIN list
        BY <1>2, <1>3, <2>1, <3>4, SplicedPlaces
      <4>2. i <= j - 1
        BY <1>3, <2>1, <2>4, <3>4
      <4> QED BY <4>1, <4>2, <3>1 DEF Sorted
    <3> QED BY <3>2, <3>3, <3>4, <2>1, <1>3
  <2> QED BY <2>2, <2>3, <2>4, <2>1, <1>3
<1> QED BY <1>2, <1>4, <1>6 DEF Sorted

\* A list with an item removed.
LEMMA RemovedPlace ==
    ASSUME NEW list \in Seq(WorkItem), NEW k \in DOMAIN list
    PROVE  RemoveAt(list, k) \in Seq(WorkItem) /\ Spliced(list, RemoveAt(list, k), k, list[k])
<1> DEFINE res == RemoveAt(list, k)
<1>1. /\ res \in Seq(WorkItem) /\ Len(res) = Len(list) - 1
      /\ \A i \in 1..k - 1 : res[i] = list[i]
      /\ \A i \in k..Len(list) - 1 : res[i] = list[i + 1]
  BY Removed
<1>2. k \in 1..Len(list) /\ Len(list) \in Nat
  OBVIOUS
<1> HIDE DEF res
<1>3. k \in 1..Len(res) + 1 /\ Len(list) = Len(res) + 1
  BY <1>1, <1>2
<1>4. \A i \in k..Len(res) : list[i + 1] = res[i]
  BY <1>1
<1> QED BY <1>1, <1>3, <1>4 DEF Spliced, res

\* A list without its progress reports: the other items, in the same order.
LEMMA Cleared ==
    ASSUME NEW list \in Seq(WorkItem), NEW res, res = ClearProgress(list)
    PROVE  /\ res \in Seq(WorkItem)
           /\ \E g \in [DOMAIN res -> DOMAIN list] :
                 /\ \A n \in DOMAIN res : res[n] = list[g[n]]
                 /\ \A m, n \in DOMAIN res : m < n => g[m] < g[n]
                 /\ \A i \in DOMAIN list : Told(list[i]) => \E n \in DOMAIN res : g[n] = i
<1> DEFINE K == Kept(list)
           upto(i) == {j \in K : j <= i}
           rank(i) == Cardinality(upto(i))
           c == Cardinality(K)
           f == [i \in K |-> rank(i)]
           g == [n \in 1..c |-> CHOOSE i \in K : rank(i) = n]
<1>1. K \subseteq 1..Len(list) /\ IsFiniteSet(K) /\ c \in Nat
  <2>1. K \in SUBSET (1..Len(list)) /\ Len(list) \in Nat
    BY DEF Kept
  <2>2. IsFiniteSet(1..Len(list))
    BY <2>1, FS_Interval
  <2>3. IsFiniteSet(K)
    BY <2>1, <2>2, FS_Subset
  <2> QED BY <2>1, <2>3, FS_CardinalityType
<1>2. \A i \in DOMAIN list : Told(list[i]) => i \in K
  BY DEF Kept, Told
<1>3. res = [n \in 1..c |-> list[g[n]]]
  BY DEF ClearProgress
<1> HIDE DEF K
<1>4. \A i \in K : IsFiniteSet(upto(i)) /\ rank(i) \in 1..c
  <2> SUFFICES ASSUME NEW i \in K PROVE IsFiniteSet(upto(i)) /\ rank(i) \in 1..c
    OBVIOUS
  <2>1. upto(i) \in SUBSET K
    OBVIOUS
  <2>2. IsFiniteSet(upto(i)) /\ rank(i) <= c /\ rank(i) \in Nat
    BY <1>1, <2>1, FS_Subset, FS_CardinalityType
  <2>3. i \in upto(i)
    BY <1>1
  <2>4. rank(i) # 0
    BY <2>2, <2>3, FS_EmptySet
  <2> QED BY <2>2, <2>4, <1>1
<1>5. ASSUME NEW i \in K, NEW j \in K, i < j PROVE rank(i) < rank(j)
  <2>1. upto(i) \in SUBSET upto(j)
    <3>1. \A k \in K : k \in Int
      BY <1>1
    <3>2. \A k \in K : k <= i => k <= j
      BY <3>1, <1>5
    <3> QED BY <3>2
  <2>2. j \in upto(j) /\ j \notin upto(i)
    BY <1>1, <1>5
  <2>3. rank(i) <= rank(j) /\ rank(i) # rank(j)
    BY <1>4, <2>1, <2>2, FS_Subset
  <2> HIDE DEF rank
  <2>4. rank(i) \in Nat /\ rank(j) \in Nat
    <3>1. rank(i) \in 1..c /\ rank(j) \in 1..c
      BY <1>4
    <3> QED BY <1>1, <3>1
  <2> QED BY <2>3, <2>4
<1>6. \A n \in 1..c : \E i \in K : rank(i) = n
  <2> HIDE DEF upto, rank, c
  <2>1. IsFiniteSet(1..c) /\ Cardinality(1..c) = c
    BY <1>1, FS_Interval
  <2>2. f \in [K -> 1..c]
    BY <1>4
  <2>3. ASSUME NEW i \in K, NEW j \in K, f[i] = f[j] PROVE i = j
    <3>1. i \in Int /\ j \in Int /\ rank(i) \in Int /\ rank(j) \in Int
      BY <1>1, <1>4
    <3> QED BY <3>1, <2>3, <1>5
  <2>4. f \in Injection(K, 1..c)
    BY <2>2, <2>3 DEF Injection, IsInjective
  <2> HIDE DEF f
  <2>5. Cardinality(K) = Cardinality(1..c)
    BY <2>1 DEF c
  <2>6. f \in Surjection(K, 1..c)
    BY <2>1, <2>4, <2>5, FS_Injection
  <2>7. \A n \in 1..c : \E i \in K : f[i] = n
    BY <2>6 DEF Surjection
  <2> QED BY <2>7 DEF f
<1> HIDE DEF upto, rank, c, f
<1>7. \A n \in 1..c : g[n] \in K /\ rank(g[n]) = n
  BY <1>6
<1> HIDE DEF g
<1>8. \A n \in 1..c : g[n] \in DOMAIN list
  <2>1. DOMAIN list = 1..Len(list)
    OBVIOUS
  <2> QED BY <1>1, <1>7, <2>1
<1>9. res \in Seq(WorkItem) /\ DOMAIN res = 1..c
  <2>1. \A n \in 1..c : list[g[n]] \in WorkItem
    BY <1>8
  <2> QED BY <1>1, <1>3, <2>1
<1>10. g \in [DOMAIN res -> DOMAIN list]
  BY <1>8, <1>9 DEF g
<1>11. ASSUME NEW m \in DOMAIN res, NEW n \in DOMAIN res, m < n PROVE g[m] < g[n]
  <2>1. g[m] \in K /\ g[n] \in K /\ rank(g[m]) < rank(g[n])
    BY <1>7, <1>9, <1>11
  <2>2. g[m] \in Int /\ g[n] \in Int /\ rank(g[m]) \in Int /\ rank(g[n]) \in Int
    <3>1. \A k \in K : k \in Int
      BY <1>1
    <3>2. \A k \in 1..c : k \in Int
      BY <1>1
    <3>3. rank(g[m]) \in 1..c /\ rank(g[n]) \in 1..c
      BY <1>4, <2>1
    <3> QED BY <2>1, <3>1, <3>2, <3>3
  <2>3. CASE g[m] = g[n]
    BY <2>1, <2>2, <2>3
  <2>4. CASE g[n] < g[m]
    <3>1. rank(g[n]) < rank(g[m])
      BY <2>1, <2>4, <1>5
    <3> QED BY <2>1, <2>2, <3>1
  <2> QED BY <2>2, <2>3, <2>4
<1>12. ASSUME NEW i \in DOMAIN list, Told(list[i]) PROVE \E n \in DOMAIN res : g[n] = i
  <2>1. i \in K /\ rank(i) \in DOMAIN res
    BY <1>2, <1>4, <1>9, <1>12
  <2>2. g[rank(i)] \in K /\ rank(g[rank(i)]) = rank(i)
    BY <1>7, <1>9, <2>1
  <2>3. g[rank(i)] = i
    <3>1. i \in Int /\ g[rank(i)] \in Int /\ rank(i) \in Int
      BY <1>1, <1>4, <2>1, <2>2
    <3> QED BY <3>1, <2>1, <2>2, <1>5
  <2> QED BY <2>1, <2>3
<1>13. \A n \in DOMAIN res : res[n] = list[g[n]]
  BY <1>3, <1>9
<1> QED BY <1>9, <1>10, <1>11, <1>12, <1>13

\* What that does to the order and to the commands to start and stop.
LEMMA ClearedKeeps ==
    ASSUME NEW list \in Seq(WorkItem), NEW res, res = ClearProgress(list), NEW what
    PROVE  /\ res \in Seq(WorkItem)
           /\ \A n \in DOMAIN res : \E i \in DOMAIN list : res[n] = list[i]
           /\ Sorted(list) => Sorted(res)
           /\ NoneTold(res) => NoneTold(list)
           /\ LastTold(list, what) => LastTold(res, what)
<1>1. res \in Seq(WorkItem)
  BY Cleared
<1>2. PICK g \in [DOMAIN res -> DOMAIN list] :
                 /\ \A n \in DOMAIN res : res[n] = list[g[n]]
                 /\ \A m, n \in DOMAIN res : m < n => g[m] < g[n]
                 /\ \A i \in DOMAIN list : Told(list[i]) => \E n \in DOMAIN res : g[n] = i
  BY Cleared
<1>3. DOMAIN res \subseteq Nat /\ DOMAIN list \subseteq Nat
  BY <1>1
<1>4. ASSUME Sorted(list) PROVE Sorted(res)
  <2> SUFFICES ASSUME NEW i \in DOMAIN res, NEW j \in DOMAIN res, i <= j
               PROVE  res[i].actionTime <= res[j].actionTime
    BY DEF Sorted
  <2>1. g[i] \in DOMAIN list /\ g[j] \in DOMAIN list /\ g[i] <= g[j]
    <3>1. i = j \/ i < j
      BY <1>3
    <3> QED BY <1>2, <1>3, <3>1
  <2> QED BY <2>1, <1>2, <1>4 DEF Sorted
<1>5. ASSUME NoneTold(res) PROVE NoneTold(list)
  BY <1>2, <1>5 DEF NoneTold
<1>6. ASSUME LastTold(list, what) PROVE LastTold(res, what)
  <2> SUFFICES ASSUME NEW n \in DOMAIN res, Told(res[n]),
                      \A m \in DOMAIN res : m > n => ~Told(res[m])
               PROVE  res[n].what = what
    BY DEF LastTold
  <2>1. ASSUME NEW j \in DOMAIN list, j > g[n], Told(list[j]) PROVE FALSE
    <3>1. PICK m \in DOMAIN res : g[m] = j
      BY <2>1, <1>2
    <3>2. m > n
      <4>1. m \in Nat /\ n \in Nat /\ j \in Nat /\ g[n] \in Nat
        BY <1>2, <1>3
      <4>2. m < n => j < g[n]
        BY <1>2, <3>1
      <4>3. m # n
        BY <2>1, <3>1, <4>1
      <4> QED BY <4>1, <4>2, <4>3, <2>1
    <3> QED BY <1>2, <2>1, <3>1, <3>2
  <2>2. Told(list[g[n]]) /\ g[n] \in DOMAIN list /\ res[n] = list[g[n]]
    BY <1>2
  <2> QED BY <1>6, <2>1, <2>2 DEF LastTold
<1>7. \A n \in DOMAIN res : \E i \in DOMAIN list : res[n] = list[i]
  BY <1>2
<1> QED BY <1>1, <1>4, <1>5, <1>6, <1>7

-----------------------------------------------------------------------------
(* Periods *)

\* The quotient is known by its multiples.
LEMMA Quotient ==
    ASSUME NEW t \in Nat, NEW q \in Nat, NEW p \in Nat \ {0}, q * p <= t, t < q * p + p
    PROVE  q = t \div p
OBVIOUS

\* What a quotient is.
LEMMA Division ==
    ASSUME NEW t \in Nat, NEW p \in Nat \ {0}
    PROVE  /\ t \div p \in Nat
           /\ (t \div p) * p <= t /\ t < (t \div p) * p + p
OBVIOUS

\* Less than a period is no period.
LEMMA Smaller ==
    ASSUME NEW t \in Nat, NEW p \in Nat \ {0}, t < p
    PROVE  t \div p = 0
OBVIOUS

\* One more turn is one more period.
LEMMA OneMore ==
    ASSUME NEW q \in Nat, NEW p \in Nat
    PROVE  (q + 1) * p = q * p + p /\ q * p \in Nat
OBVIOUS

\* The next multiple of a period.
LEMMA NextMultiple ==
    ASSUME NEW t \in Nat, NEW p \in Nat \ {0}
    PROVE  (t + p) \div p = t \div p + 1
<1>1. PICK q \in Nat : q = t \div p
  BY Division
<1>2. q * p <= t /\ t < q * p + p
  BY <1>1, Division
<1>3. (q + 1) * p = q * p + p /\ q * p \in Nat
  BY OneMore
<1>4. (q + 1) * p <= t + p /\ t + p < (q + 1) * p + p /\ q + 1 \in Nat /\ t + p \in Nat
  BY <1>2, <1>3
<1>5. q + 1 = (t + p) \div p
  BY <1>4, Quotient
<1> QED BY <1>1, <1>5

\* The list an item belongs to.
LEMMA Belongs ==
    /\ \A item \in WorkItem : ListOf(item) \in Kind
    /\ \A item \in WorkItem : item.on # "NOW" => ListOf(item) = item.on
    /\ \A item \in WorkItem : item.on = "NOW" => ListOf(item) = "CYCLE"
BY Six DEF WorkItem, ListOf

\* What commands may say.
LEMMA CommandFacts ==
    ASSUME NEW c \in Command
    PROVE  /\ c.what \in {"START", "STOP", "EXIT", "OTHER", "CLEAR", "PROGRESS"}
           /\ c.on \in Kind \cup {"NOW"} /\ c.periodic \in BOOLEAN /\ c.n \in Nat
           /\ c.on = "NOW" => c.n = 0 /\ ~c.periodic /\ c.what # "CLEAR"
           /\ c.on # "NOW" /\ c.what # "CLEAR" => c.n > 0 /\ c.what # "START"
           /\ c.on = "PACKET" \/ c.what = "CLEAR" => ~c.periodic
<1>1. MaxTime \in Nat
  BY ControllerConstants
<1>2. CASE c \in [what : {"START", "STOP", "EXIT", "OTHER"}, on : {"NOW"}, periodic : {FALSE}, n : {0}]
  <2>1. c.what \in {"START", "STOP", "EXIT", "OTHER"} /\ c.on = "NOW" /\ c.n = 0
    BY <1>2
  <2>2. c.periodic = FALSE
    BY <1>2
  <2>3. c.what \in {"START", "STOP", "EXIT", "OTHER", "CLEAR", "PROGRESS"} /\ c.what # "CLEAR"
    BY <2>1
  <2>4. c.n \in Nat
    BY <2>1
  <2> QED BY <2>1, <2>2, <2>3, <2>4
<1>3. CASE c \in [what : {"CLEAR"}, on : Kind, periodic : {FALSE}, n : {0}]
  <2>1. c.what = "CLEAR" /\ c.on \in Kind /\ c.n = 0
    BY <1>3
  <2>2. c.periodic = FALSE
    BY <1>3
  <2>3. c.on # "NOW"
    BY <2>1, Six
  <2>4. c.n \in Nat
    BY <2>1
  <2> QED BY <2>1, <2>2, <2>3, <2>4
<1>4. CASE c \in [what : {"STOP", "EXIT", "PROGRESS", "OTHER"}, on : Kind \ {"PACKET"},
                  periodic : BOOLEAN, n : 1..MaxTime]
  BY <1>1, <1>4, Six
<1>5. CASE c \in [what : {"STOP", "EXIT", "PROGRESS", "OTHER"}, on : {"PACKET"},
                  periodic : {FALSE}, n : 1..MaxTime]
  <2>1. c.what \in {"STOP", "EXIT", "PROGRESS", "OTHER"} /\ c.on = "PACKET"
    BY <1>5
  <2>2. c.periodic = FALSE
    BY <1>5
  <2>3. c.on # "NOW" /\ c.on \in Kind /\ c.what \in {"START", "STOP", "EXIT", "OTHER", "CLEAR", "PROGRESS"}
    BY <2>1, Six
  <2>4. c.n \in Nat /\ c.n > 0
    <3>1. c.n \in 1..MaxTime
      BY <1>5
    <3> QED BY <1>1, <3>1
  <2>5. c.what # "START" /\ c.what # "CLEAR"
    BY <2>1
  <2> QED BY <2>2, <2>3, <2>4, <2>5
<1> QED BY <1>2, <1>3, <1>4, <1>5 DEF Command

\* What is so of an item on the work list.
LEMMA ItemFacts ==
    ASSUME NEW steps, NEW item, FromCommand(steps, item)
    PROVE  /\ item \in WorkItem /\ item.runs = 0 /\ item.period = item.actionTime
           /\ item.on = "NOW" => item.actionTime = 0 /\ ~item.periodic /\ item.what # "CLEAR"
           /\ item.on # "NOW" /\ item.what # "CLEAR" => item.actionTime > 0 /\ item.what # "START"
           /\ item.on = "PACKET" \/ item.what = "CLEAR" => ~item.periodic
           /\ item.periodic => \A step \in steps : step[item.on] <= item.period
           /\ Told(item) => item.breaks
<1>1. PICK c \in Command, breaks \in BOOLEAN :
        /\ item = Item(c, breaks)
        /\ c.what \in {"START", "STOP"} /\ c.on = "NOW" => breaks
        /\ c.periodic => \A step \in steps : step[c.on] <= c.n
  BY DEF FromCommand
<1>2. /\ item.what = c.what /\ item.on = c.on /\ item.periodic = c.periodic
      /\ item.actionTime = c.n /\ item.period = c.n /\ item.breaks = breaks
      /\ item.since = 0 /\ item.runs = 0
  BY <1>1 DEF Item
<1>3. item \in WorkItem
  BY <1>1, CommandFacts DEF Item, WorkItem
<1>4. item.periodic => \A step \in steps : step[item.on] <= item.period
  BY <1>1, <1>2
<1>5. Told(item) => item.breaks
  BY <1>1, <1>2 DEF Told
<1> QED BY <1>2, <1>3, <1>4, <1>5, CommandFacts

\* An item that is scheduled for the first time.
LEMMA TimedFirst ==
    ASSUME NEW steps, NEW item, FromCommand(steps, item), item.what # "CLEAR",
           now \in [Kind -> Nat], NEW kind, kind = ListOf(item), NEW new, new = Timed([item EXCEPT !.since = now[kind]])
    PROVE  /\ kind \in Kind /\ Good(steps, now[kind], kind, new)
           /\ new.what = item.what /\ new.on = item.on
<1> DEFINE start == [item EXCEPT !.since = now[kind]]
           p == item.period
<1>1. /\ item \in WorkItem /\ kind \in Kind /\ now[kind] \in Nat /\ item.actionTime \in Nat
      /\ p = item.actionTime /\ item.runs = 0
  BY ItemFacts, Belongs, Times
<1>2. /\ start \in WorkItem /\ start.what = item.what /\ start.on = item.on
      /\ start.periodic = item.periodic /\ start.period = p
      /\ start.actionTime = item.actionTime /\ start.since = now[kind] /\ start.runs = 0
      /\ p = item.period /\ new = Timed(start)
  BY <1>1 DEF WorkItem
<1> HIDE DEF start, p
<1>3. CASE ~item.periodic
  <2>1. new = start
    BY <1>2, <1>3 DEF Timed
  <2>2. Placed(steps, kind, new)
    BY <1>1, <1>2, <1>3, <2>1, ItemFacts DEF Placed, ListOf
  <2>3. Regular(now[kind], new)
    BY <1>2, <1>3, <2>1 DEF Regular
  <2>4. new.actionTime >= now[kind] \/ new.actionTime < new.since
    BY <1>1, <1>2, <2>1
  <2> QED BY <1>1, <1>2, <2>1, <2>2, <2>3, <2>4 DEF Good
<1>4. CASE item.periodic
  <2>1. /\ item.on # "NOW" /\ kind = item.on /\ p \in Nat \ {0} /\ kind # "PACKET"
    BY <1>1, <1>4, ItemFacts, Belongs
  <2>2. PICK q \in Nat : q = now[kind] \div p
    BY <1>1, <2>1, Division
  <2>3. q * p <= now[kind] /\ now[kind] < q * p + p /\ (q + 1) * p = q * p + p /\ q * p \in Nat
    BY <1>1, <2>1, <2>2, Division, OneMore
  <2>4. PICK time \in Nat : time = (q + 1) * p /\ time = q * p + p
    BY <2>1, <2>3
  <2>5. new = [start EXCEPT !.actionTime = time]
    <3>1. CASE kind = "SSCMARK"
      <4>1. new = [start EXCEPT !.actionTime = NextMark(start)]
        BY <1>2, <1>4, <2>1, <3>1 DEF Timed
      <4>2. CASE p > now[kind]
        <5>1. q = 0
          BY <1>1, <2>1, <2>2, <4>2, Smaller
        <5>2. NextMark(start) = p
          BY <1>1, <1>2, <3>1, <4>2 DEF NextMark
        <5>3. time = p
          BY <2>1, <2>4, <5>1
        <5> QED BY <4>1, <5>2, <5>3
      <4>3. CASE ~(p > now[kind])
        <5>1. PICK u \in Nat : u = now[kind] - p
          BY <1>1, <2>1, <4>3
        <5>2. (u + p) \div p = u \div p + 1 /\ u + p = now[kind]
          BY <5>1, <1>1, <2>1, NextMultiple
        <5>3. PICK d \in Nat : d = u \div p
          BY <5>1, <2>1, Division
        <5>4. q = d + 1
          BY <5>2, <5>3, <2>2
        <5>5. NextMark(start) = p + (d + 1) * p
          BY <5>1, <5>3, <1>1, <1>2, <3>1, <4>3 DEF NextMark
        <5>6. NextMark(start) = time
          BY <5>4, <5>5, <2>1, <2>4
        <5> QED BY <4>1, <5>6
      <4> QED BY <4>2, <4>3
    <3>2. CASE kind # "SSCMARK"
      <4>1. new = [start EXCEPT !.actionTime = NextPeriod(start)]
        BY <1>2, <1>4, <2>1, <3>2 DEF Timed
      <4>2. NextPeriod(start) = ((now[kind] + p) \div p) * p
        BY <1>2, <2>1 DEF NextPeriod
      <4>3. (now[kind] + p) \div p = q + 1
        BY <1>1, <2>1, <2>2, NextMultiple
      <4> QED BY <2>4, <4>1, <4>2, <4>3
    <3> QED BY <3>1, <3>2
  <2>6. /\ new \in WorkItem /\ new.what = start.what /\ new.on = start.on
        /\ new.periodic = start.periodic /\ new.period = start.period
        /\ new.actionTime = time /\ new.since = start.since /\ new.runs = start.runs
    BY <1>2, <2>5 DEF WorkItem
  <2>7. time > now[kind] /\ time <= now[kind] + p /\ time > 0
    BY <2>3, <2>4, <1>1, <2>1
  <2>8. Placed(steps, kind, new)
    BY <1>1, <1>2, <2>1, <2>6, <2>7, ItemFacts DEF Placed, ListOf, p
  <2>9. Regular(now[kind], new)
    <3>1. Turn(new) = q + 1
      BY <1>2, <2>2, <2>6 DEF Turn
    <3> QED BY <3>1, <1>1, <1>2, <2>1, <2>4, <2>6, <2>7 DEF Regular
  <2> QED BY <1>1, <1>2, <2>6, <2>7, <2>8, <2>9 DEF Good
<1> QED BY <1>3, <1>4

\* A periodic item that happens and is scheduled again.
LEMMA TimedAgain ==
    ASSUME NEW steps, NEW item, NEW kind \in Kind, Good(steps, now[kind], kind, item),
           item.periodic, now \in [Kind -> Nat], IsDue(item),
           NEW start, start = [item EXCEPT !.runs = @ + 1], NEW new, new = Timed(start)
    PROVE  /\ Good(steps, now[kind], kind, new)
           /\ new.what = item.what /\ new.on = item.on
           /\ new.on = kind /\ item.actionTime <= now[kind]
<1> DEFINE p == item.period
<1>1. /\ item \in WorkItem /\ now[kind] \in Nat /\ item.on = kind /\ p \in Nat \ {0}
      /\ item.runs \in Nat /\ item.since \in Nat /\ item.actionTime \in Nat /\ kind # "PACKET"
  BY Belongs DEF Good, Placed, WorkItem
<1>2. /\ start \in WorkItem /\ start.what = item.what /\ start.on = item.on
      /\ start.periodic = item.periodic /\ start.period = p
      /\ start.actionTime = item.actionTime /\ start.since = item.since
      /\ start.runs = item.runs + 1 /\ p = item.period /\ new = Timed(start)
  <2>1. new = Timed(start) /\ p = item.period
    OBVIOUS
  <2>2. item \in WorkItem /\ item.runs + 1 \in Nat
    BY <1>1
  <2>3. start = [item EXCEPT !.runs = item.runs + 1]
    BY <1>1 DEF WorkItem
  <2>4. PICK r \in Nat : r = item.runs + 1
    BY <2>2
  <2>5. start = [item EXCEPT !.runs = r]
    BY <2>3, <2>4
  <2>6. /\ start \in WorkItem /\ start.what = item.what /\ start.on = item.on
        /\ start.periodic = item.periodic /\ start.period = item.period
        /\ start.actionTime = item.actionTime /\ start.since = item.since
        /\ start.runs = r
    BY <2>2, <2>4, <2>5 DEF WorkItem
  <2> QED BY <2>1, <2>4, <2>6
<1> HIDE DEF p
<1>3. item.actionTime <= now[kind] /\ (kind = "SSCMARK" => item.actionTime = now[kind])
  BY <1>1, Six DEF IsDue
<1>4. PICK q \in Nat : q = Turn(item)
  <2>1. item.since \div p \in Nat
    BY <1>1, Division
  <2>2. Turn(item) = item.runs + 1 + item.since \div p
    BY <1>2 DEF Turn
  <2> QED BY <1>1, <2>1, <2>2
<1>5. /\ item.actionTime = q * p /\ now[kind] < q * p + p
      /\ (q + 1) * p = q * p + p /\ q * p \in Nat
  <2>1. item.actionTime = q * p /\ now[kind] < item.actionTime + p
    BY <1>2, <1>4 DEF Good, Regular
  <2>2. (q + 1) * p = q * p + p /\ q * p \in Nat
    BY <1>1, OneMore
  <2> QED BY <2>1, <2>2
<1>6. q = now[kind] \div p
  BY <1>1, <1>3, <1>5, Quotient
<1>7. PICK time \in Nat : time = (q + 1) * p /\ time = q * p + p
  BY <1>1, <1>5
<1>8. new = [start EXCEPT !.actionTime = time]
  <2>1. CASE kind = "SSCMARK"
    <3>1. new = [start EXCEPT !.actionTime = NextMark(start)]
      BY <1>1, <1>2, <2>1 DEF Timed
    <3>2. NextMark(start) = item.actionTime + ((now[kind] - item.actionTime) \div p + 1) * p
      BY <1>1, <1>2, <1>3, <2>1 DEF NextMark
    <3>3. now[kind] - item.actionTime = 0 /\ 0 \div p = 0
      <4>1. now[kind] - item.actionTime = 0
        BY <1>1, <1>3, <2>1
      <4>2. 0 \div p = 0
        BY <1>1, Smaller
      <4> QED BY <4>1, <4>2
    <3>4. NextMark(start) = item.actionTime + (0 + 1) * p
      BY <3>2, <3>3
    <3>5. (0 + 1) * p = p
      BY <1>1
    <3> QED BY <1>5, <1>7, <3>1, <3>4, <3>5
  <2>2. CASE kind # "SSCMARK"
    <3>1. new = [start EXCEPT !.actionTime = NextPeriod(start)]
      BY <1>1, <1>2, <2>2 DEF Timed
    <3>2. NextPeriod(start) = ((now[kind] + p) \div p) * p
      BY <1>1, <1>2 DEF NextPeriod
    <3>3. (now[kind] + p) \div p = q + 1
      BY <1>1, <1>6, NextMultiple
    <3> QED BY <1>7, <3>1, <3>2, <3>3
  <2> QED BY <2>1, <2>2
<1>9. /\ new \in WorkItem /\ new.what = start.what /\ new.on = start.on
      /\ new.periodic = start.periodic /\ new.period = start.period
      /\ new.actionTime = time /\ new.since = start.since /\ new.runs = start.runs
  BY <1>2, <1>8 DEF WorkItem
<1>10. time > now[kind] /\ time <= now[kind] + p /\ time > 0
  BY <1>1, <1>3, <1>5, <1>7
<1>11. Placed(steps, kind, new)
  BY <1>1, <1>2, <1>9, <1>10, Six DEF Good, Placed, ListOf, p
<1>12. Regular(now[kind], new)
  <2>1. item.since \div p \in Nat
    BY <1>1, Division
  <2>2. Turn(new) = (item.runs + 1) + 1 + item.since \div p
    BY <1>2, <1>9 DEF Turn
  <2>3. Turn(item) = item.runs + 1 + item.since \div p
    BY DEF Turn, p
  <2>4. Turn(new) = q + 1
    BY <1>1, <1>4, <2>1, <2>2, <2>3
  <2> QED BY <2>4, <1>1, <1>2, <1>7, <1>9, <1>10 DEF Regular
<1> QED BY <1>1, <1>2, <1>3, <1>9, <1>10, <1>11, <1>12 DEF Good

\* The place of the ready item of a list.
LEMMA Ready ==
    ASSUME lists \in [Kind -> Seq(WorkItem)], NEW kind \in Kind
    PROVE  /\ ReadyAt(kind) # 0 =>
                 /\ ReadyAt(kind) \in DOMAIN lists[kind] /\ IsDue(lists[kind][ReadyAt(kind)])
                 /\ kind # "SSCMARK" => ReadyAt(kind) = 1
           /\ ReadyAt(kind) = 0 =>
                 /\ kind # "SSCMARK" /\ lists[kind] # <<>> => ~IsDue(lists[kind][1])
                 /\ kind = "SSCMARK" => \A i \in DOMAIN lists[kind] : ~IsDue(lists[kind][i])
<1>1. PICK list \in Seq(WorkItem) : list = lists[kind]
  OBVIOUS
<1>2. list # <<>> => 1 \in DOMAIN list /\ Head(list) = list[1]
  OBVIOUS
<1>3. CASE kind # "SSCMARK"
  BY <1>1, <1>2, <1>3 DEF ReadyAt
<1>4. CASE kind = "SSCMARK"
  <2> DEFINE I == {i \in 1..Len(list) : IsDue(list[i])}
  <2>1. ReadyAt(kind) = IF I # {} THEN Min(I) ELSE 0
    BY <1>1, <1>4 DEF ReadyAt, SelectInSeq
  <2>2. I \in SUBSET Nat /\ 0 \notin I
    OBVIOUS
  <2>3. \A i \in I : i \in DOMAIN list /\ IsDue(list[i])
    OBVIOUS
  <2>4. I = {} => \A i \in DOMAIN list : ~IsDue(list[i])
    OBVIOUS
  <2> HIDE DEF I
  <2>5. I # {} => Min(I) \in I
    BY <2>2, MinIsLeast
  <2> QED BY <1>1, <1>4, <2>1, <2>2, <2>3, <2>4, <2>5
<1> QED BY <1>3, <1>4

\* The first list with a ready item.
LEMMA ReadyFirst ==
    /\ FirstReady = 0 => \A kind \in Kind : ReadyAt(kind) = 0
    /\ FirstReady # 0 => Kinds[FirstReady] \in Kind /\ ReadyAt(Kinds[FirstReady]) # 0
    /\ FirstReady # 1 => ReadyAt("CYCLE") = 0
    /\ ReadyAt("CYCLE") = 0 => FirstReady # 1
    /\ FirstReady # 0 /\ Kinds[FirstReady] # "CYCLE" => ReadyAt("CYCLE") = 0
<1> DEFINE I == {i \in 1..6 : ReadyAt(Kinds[i]) # 0}
<1>1. FirstReady = IF I # {} THEN Min(I) ELSE 0
  <2>1. Len(Kinds) = 6
    BY DEF Kinds
  <2> QED BY <2>1 DEF FirstReady, SelectInSeq
<1>2. I \in SUBSET Nat /\ I \subseteq 1..6
  OBVIOUS
<1>3. \A i \in 1..6 : i \in I <=> ReadyAt(Kinds[i]) # 0
  OBVIOUS
<1> HIDE DEF I
<1>4. I # {} => Min(I) \in I /\ \A i \in I : Min(I) <= i
  BY <1>2, MinIsLeast
<1>5. \A kind \in Kind : \E i \in 1..6 : Kinds[i] = kind
  BY Six DEF Kinds
<1>6. 1 \in I => FirstReady = 1
  <2> SUFFICES ASSUME 1 \in I PROVE FirstReady = 1
    OBVIOUS
  <2>1. I # {}
    OBVIOUS
  <2>2. Min(I) \in 1..6 /\ Min(I) <= 1
    BY <1>2, <1>4, <2>1
  <2>3. Min(I) = 1
    BY <2>2
  <2> QED BY <1>1, <2>1, <2>3
<1>7. FirstReady # 0 => FirstReady \in I
  BY <1>1, <1>4
<1>8. FirstReady = 0 => I = {}
  BY <1>1, <1>2, <1>4
<1>9. Kinds[1] = "CYCLE" /\ 1 \in 1..6
  BY Six
<1>10. ASSUME FirstReady = 0, NEW kind \in Kind PROVE ReadyAt(kind) = 0
  BY <1>3, <1>5, <1>8, <1>10
<1>11. ASSUME FirstReady # 0 PROVE Kinds[FirstReady] \in Kind /\ ReadyAt(Kinds[FirstReady]) # 0
  BY <1>2, <1>3, <1>7, <1>11, Six
<1>12. 1 \in I <=> ReadyAt("CYCLE") # 0
  BY <1>3, <1>9
<1>13. ReadyAt("CYCLE") = 0 => FirstReady # 1
  BY <1>7, <1>12
<1>14. FirstReady # 1 => ReadyAt("CYCLE") = 0
  BY <1>6, <1>12
<1> QED BY <1>9, <1>10, <1>11, <1>13, <1>14

\* The head of a list in order, and the items now to be done in it.
LEMMA HeadFirst ==
    ASSUME NEW list \in Seq(WorkItem), Sorted(list)
    PROVE  \A i \in DOMAIN list : 1 \in DOMAIN list /\ list[1].actionTime <= list[i].actionTime
BY DEF Sorted

\* If the head of the list of cycles is not to be done now, nothing in it is.
LEMMA NoneNow ==
    ASSUME ListsInv, lists["CYCLE"] # <<>> => lists["CYCLE"][1].on # "NOW"
    PROVE  \A i \in DOMAIN lists["CYCLE"] : lists["CYCLE"][i].on # "NOW" /\ ~Told(lists["CYCLE"][i])
<1>1. PICK list \in Seq(WorkItem) : list = lists["CYCLE"]
  BY Six DEF ListsInv
<1>2. Sorted(list) /\ \A i \in DOMAIN list : Placed(scenario.steps, "CYCLE", list[i])
  BY <1>1, Six DEF ListsInv, Good
<1> SUFFICES ASSUME NEW i \in DOMAIN list PROVE list[i].on # "NOW"
  BY <1>1 DEF Told
<1>3. 1 \in DOMAIN list /\ list[1].actionTime <= list[i].actionTime
  BY <1>2, HeadFirst
<1>4. list[1].on # "NOW"
  BY <1>1, <1>3
<1>5. list[1].actionTime > 0 /\ list[1].actionTime \in Nat /\ list[i].actionTime \in Nat
  BY <1>2, <1>3, <1>4, Times DEF Placed
<1>6. list[i].on = "NOW" => list[i].actionTime = 0
  BY <1>2 DEF Placed
<1> QED BY <1>3, <1>5, <1>6

-----------------------------------------------------------------------------
(* Commands on the work list *)

\* An item put at the end of a list.
LEMMA Appended ==
    ASSUME NEW list \in Seq(WorkItem), NEW item \in WorkItem, NEW res, res = Append(list, item)
    PROVE  /\ res \in Seq(WorkItem) /\ Spliced(res, list, Len(list) + 1, item)
           /\ \A i \in DOMAIN list : ~(i >= Len(list) + 1)
BY DEF Spliced

\* A command that is given.
LEMMA WorkGrows ==
    ASSUME WorkInv, LoopInv, ToldInv, NEW item, FromCommand(scenario.steps, item),
           ctrlWorkList' = Append(ctrlWorkList, item), UNCHANGED <<scenario, lists>>,
           item.breaks \/ sysBreak => sysBreak',
           Told(item) => lastTold' = item.what,
           ~Told(item) => lastTold' = lastTold /\ (pmStopped' <=> pmStopped)
    PROVE  /\ ctrlWorkList' \in Seq(WorkItem)
           /\ \A i \in DOMAIN ctrlWorkList' : /\ FromCommand(scenario.steps, ctrlWorkList'[i])
                                              /\ ctrlWorkList'[i].runs = 0
                                              /\ ctrlWorkList'[i].breaks => sysBreak'
           /\ ToldInv'
<1>1. PICK list, res : /\ list \in Seq(WorkItem) /\ list = ctrlWorkList
                        /\ res = ctrlWorkList' /\ res = Append(list, item)
  BY DEF WorkInv
<1> list \in Seq(WorkItem)
  BY <1>1
<1>2. item \in WorkItem /\ item.runs = 0
  BY ItemFacts
<1>3. /\ res \in Seq(WorkItem) /\ Spliced(res, list, Len(list) + 1, item)
      /\ \A i \in DOMAIN list : ~(i >= Len(list) + 1)
  BY <1>1, <1>2, Appended
<1>4. \A i \in DOMAIN list : /\ FromCommand(scenario.steps, list[i]) /\ list[i].runs = 0
                             /\ list[i].breaks => sysBreak'
  BY <1>1 DEF WorkInv, TypeOK, LoopInv
<1>5. ASSUME NEW i \in DOMAIN res
      PROVE  /\ FromCommand(scenario.steps, res[i]) /\ res[i].runs = 0
             /\ res[i].breaks => sysBreak'
  <2>1. res[i] = item \/ \E j \in DOMAIN list : res[i] = list[j]
    BY <1>3, SplicedPlaces
  <2> QED BY <2>1, <1>2, <1>4
<1>6. CASE Told(item)
  <2>1. ~NoneTold(res) /\ LastTold(res, item.what)
    BY <1>3, <1>6, SplicedTold
  <2> QED BY <1>1, <1>3, <1>5, <1>6, <2>1 DEF ToldInv
<1>7. CASE ~Told(item)
  <2>1. /\ NoneTold(list) <=> NoneTold(res)
        /\ LastTold(list, lastTold) <=> LastTold(res, lastTold)
    BY <1>3, <1>7, SplicedTold
  <2> QED BY <1>1, <1>3, <1>5, <1>7, <2>1 DEF ToldInv
<1> QED BY <1>6, <1>7

\* CMD_Start, CMD_Stop, CMD_Exit, ...
LEMMA Tells ==
    ASSUME WorkInv, LoopInv, ToldInv, NEW c \in Command, Tell(c), UNCHANGED <<scenario, lists>>,
           c.periodic => \A step \in scenario.steps : step[c.on] <= c.n
    PROVE  /\ ctrlWorkList' \in Seq(WorkItem)
           /\ \A i \in DOMAIN ctrlWorkList' : /\ FromCommand(scenario.steps, ctrlWorkList'[i])
                                              /\ ctrlWorkList'[i].runs = 0
                                              /\ ctrlWorkList'[i].breaks => sysBreak'
           /\ ToldInv'
           /\ sysBreak' = TRUE /\ pmStopped' \in BOOLEAN /\ exitTold' \in BOOLEAN
           /\ lastTold' \in {"START", "STOP"} /\ (~pmStopped => ~pmStopped')
<1> DEFINE item == Item(c, TRUE)
<1>1. FromCommand(scenario.steps, item)
  BY DEF FromCommand
<1>2. item.what = c.what /\ item.on = c.on
  BY DEF Item
<1>3. ctrlWorkList' = Append(ctrlWorkList, item) /\ sysBreak' = TRUE
  BY DEF Tell, Breaks
<1> HIDE DEF item
<1>4. Told(item) => lastTold' = item.what
  BY <1>2 DEF Told, Tell
<1>5. ~Told(item) => lastTold' = lastTold /\ (pmStopped' <=> pmStopped)
  <2> SUFFICES ASSUME ~Told(item) PROVE lastTold' = lastTold /\ (pmStopped' <=> pmStopped)
    OBVIOUS
  <2>1. ~(c.on = "NOW" /\ c.what \in {"START", "STOP"})
    BY <1>2 DEF Told
  <2>2. c.on # "NOW" => c.what # "START"
    BY CommandFacts
  <2>3. c.what # "START"
    BY <2>1, <2>2
  <2>4. lastTold' = lastTold
    BY <2>1 DEF Tell
  <2> QED BY <2>3, <2>4 DEF Tell
<1>6. /\ pmStopped' \in BOOLEAN /\ exitTold' \in BOOLEAN /\ (~pmStopped => ~pmStopped')
      /\ lastTold' \in {"START", "STOP"}
  <2>1. lastTold \in {"START", "STOP"}
    BY DEF WorkInv, TypeOK
  <2>2. lastTold' \in {"START", "STOP"}
    BY <2>1 DEF Tell
  <2> QED BY <2>2 DEF Tell
<1> QED BY <1>1, <1>3, <1>4, <1>5, <1>6, WorkGrows

\* Commands to be obeyed now that the controller gives itself.
LEMMA NowIsCommand ==
    ASSUME NEW what \in {"START", "STOP", "EXIT"}
    PROVE  Now(what) \in Command /\ ~Now(what).periodic
BY DEF Now, Command

\* Lists that stay as they are.
LEMMA ListsStay ==
    ASSUME ListsInv, UNCHANGED <<scenario, now, lists>>
    PROVE  ListsInv'
BY DEF ListsInv

\* The type invariant from its parts.
LEMMA Typed ==
    ASSUME scenario' \in Scenarios, ctrlWorkList' \in Seq(WorkItem), ListsInv',
           \A i \in DOMAIN ctrlWorkList' : /\ FromCommand(scenario.steps, ctrlWorkList'[i])
                                           /\ ctrlWorkList'[i].runs = 0,
           UNCHANGED scenario,
           pc' \in {"parse", "loop", "events", "inform", "execute", "clock", "exited", "failed"},
           now' \in [Kind -> 0..MaxTime], stop' \in [StopKind -> Nat],
           {sysBreak', pmStopped', pmExiting', marked', exitTold'} \subseteq BOOLEAN,
           commands' \in 0..MaxCommands, lastTold' \in {"START", "STOP"}
    PROVE  WorkInv'
<1>1. \A kind \in Kind : \A i \in DOMAIN lists'[kind] : ListOf(lists'[kind][i]) = kind
  BY DEF ListsInv, Good, Placed
<1> QED BY <1>1 DEF WorkInv, TypeOK

-----------------------------------------------------------------------------
(* Every step keeps the invariant *)

\* The first state: nothing is told, scheduled or due.
LEMMA Initial == Init => IInv
<1> SUFFICES ASSUME Init PROVE IInv
  OBVIOUS
<1>1. /\ scenario \in Scenarios /\ pc = "parse" /\ ctrlWorkList = <<>> /\ lists = [k \in Kind |-> <<>>]
      /\ now = [k \in Kind |-> 0] /\ stop = [k \in StopKind |-> 0]
      /\ sysBreak = FALSE /\ pmStopped = TRUE /\ pmExiting = FALSE /\ marked = FALSE
      /\ commands = 0 /\ lastTold = "STOP" /\ exitTold = FALSE
  BY DEF Init, NoStop
<1>2. MaxTime \in Nat /\ MaxCommands \in Nat
  BY ControllerConstants
<1>3. now \in [Kind -> 0..MaxTime] /\ stop \in [StopKind -> Nat] /\ commands \in 0..MaxCommands
  BY <1>1, <1>2
<1>4. /\ lists \in [Kind -> Seq(WorkItem)] /\ \A kind \in Kind : DOMAIN lists[kind] = {}
  BY <1>1
<1>5. ctrlWorkList \in Seq(WorkItem) /\ DOMAIN ctrlWorkList = {}
  BY <1>1
<1>6. WorkInv
  BY <1>1, <1>3, <1>4, <1>5 DEF WorkInv, TypeOK
<1>7. ListsInv
  BY <1>4, Six DEF ListsInv, Sorted
<1>8. LoopInv /\ InformInv /\ StopInv /\ FailInv
  BY <1>1, <1>5 DEF LoopInv, InformInv, StopInv, FailInv
<1>9. ToldInv
  BY <1>1, <1>4, <1>5, Six DEF ToldInv, LastTold
<1> QED BY <1>6, <1>7, <1>8, <1>9 DEF IInv

\* What is told stays told.
LEMMA ToldStays ==
    ASSUME ToldInv, UNCHANGED <<ctrlWorkList, lists, lastTold, pmStopped>>
    PROVE  ToldInv'
BY DEF ToldInv

\* A command goes to the end of the work list and breaks the execution.
LEMMA GiveCommandKeeps ==
    ASSUME IInv, NEW c \in scenario.commands, GiveCommand(c)
    PROVE  IInv'
<1>1. WorkInv /\ ListsInv /\ LoopInv /\ ToldInv /\ InformInv /\ StopInv /\ FailInv
  BY DEF IInv
<1>2. /\ Tell(c) /\ UNCHANGED <<scenario, pc, lists, now, stop, pmExiting, marked>>
      /\ commands < MaxCommands /\ commands' = commands + 1
      /\ pc \in {"parse", "events", "inform", "clock"}
  BY DEF GiveCommand, PerformsForeignCode
<1>3. /\ c \in Command /\ (c.periodic => \A step \in scenario.steps : step[c.on] <= c.n)
  BY <1>1, ControllerConstants DEF WorkInv
<1>4. /\ ctrlWorkList' \in Seq(WorkItem)
      /\ \A i \in DOMAIN ctrlWorkList' : /\ FromCommand(scenario.steps, ctrlWorkList'[i])
                                         /\ ctrlWorkList'[i].runs = 0
                                         /\ ctrlWorkList'[i].breaks => sysBreak'
      /\ ToldInv'
      /\ sysBreak' = TRUE /\ pmStopped' \in BOOLEAN /\ exitTold' \in BOOLEAN
      /\ lastTold' \in {"START", "STOP"} /\ (~pmStopped => ~pmStopped')
  BY <1>1, <1>2, <1>3, Tells
<1>5. ListsInv'
  BY <1>1, <1>2, ListsStay
<1>6. commands' \in 0..MaxCommands
  BY <1>1, <1>2, ControllerConstants DEF WorkInv, TypeOK
<1>7. WorkInv'
  <2>1. /\ scenario \in Scenarios /\ now \in [Kind -> 0..MaxTime] /\ stop \in [StopKind -> Nat]
        /\ {pmExiting, marked} \subseteq BOOLEAN
    BY <1>1 DEF WorkInv, TypeOK
  <2>2. {sysBreak', pmStopped', pmExiting', marked', exitTold'} \subseteq BOOLEAN
    BY <1>2, <1>4, <2>1
  <2>3. pc' \in {"parse", "loop", "events", "inform", "execute", "clock", "exited", "failed"}
    BY <1>2
  <2> QED BY <1>2, <1>4, <1>5, <1>6, <2>1, <2>2, <2>3, Typed
<1>8. LoopInv'
  BY <1>1, <1>2, <1>4 DEF LoopInv
<1>9. InformInv' /\ StopInv'
  BY <1>1, <1>2 DEF InformInv, StopInv
<1>10. FailInv'
  BY <1>2 DEF FailInv
<1> QED BY <1>4, <1>5, <1>7, <1>8, <1>9, <1>10 DEF IInv

\* The end of a thread asks for an exit and breaks nothing.
LEMMA CheckExitConditionsKeeps ==
    ASSUME IInv, CheckExitConditions
    PROVE  IInv'
<1> DEFINE item == Item(Now("EXIT"), FALSE)
<1>1. WorkInv /\ ListsInv /\ LoopInv /\ ToldInv /\ InformInv /\ StopInv /\ FailInv
  BY DEF IInv
<1>2. /\ UNCHANGED <<scenario, pc, lists, now, stop, sysBreak, pmStopped, pmExiting, marked, lastTold, exitTold>>
      /\ commands < MaxCommands /\ commands' = commands + 1 /\ pc = "clock"
      /\ ctrlWorkList' = Append(ctrlWorkList, item)
  BY DEF CheckExitConditions, stateVars
<1>3. FromCommand(scenario.steps, item) /\ ~Told(item) /\ item.breaks = FALSE
  <2>1. Now("EXIT") \in Command /\ ~Now("EXIT").periodic /\ Now("EXIT").what = "EXIT"
    BY NowIsCommand DEF Now
  <2> QED BY <2>1 DEF FromCommand, Told, Item
<1> HIDE DEF item
<1>4. /\ ctrlWorkList' \in Seq(WorkItem)
      /\ \A i \in DOMAIN ctrlWorkList' : /\ FromCommand(scenario.steps, ctrlWorkList'[i])
                                         /\ ctrlWorkList'[i].runs = 0
                                         /\ ctrlWorkList'[i].breaks => sysBreak'
      /\ ToldInv'
  BY <1>1, <1>2, <1>3, WorkGrows
<1>5. ListsInv'
  BY <1>1, <1>2, ListsStay
<1>6. commands' \in 0..MaxCommands
  BY <1>1, <1>2, ControllerConstants DEF WorkInv, TypeOK
<1>7. WorkInv'
  <2>1. /\ scenario \in Scenarios /\ now \in [Kind -> 0..MaxTime] /\ stop \in [StopKind -> Nat]
        /\ {sysBreak, pmStopped, pmExiting, marked, exitTold} \subseteq BOOLEAN
        /\ lastTold \in {"START", "STOP"}
    BY <1>1 DEF WorkInv, TypeOK
  <2>2. pc' \in {"parse", "loop", "events", "inform", "execute", "clock", "exited", "failed"}
    BY <1>2
  <2> QED BY <1>2, <1>4, <1>5, <1>6, <2>1, <2>2, Typed
<1>8. LoopInv'
  BY <1>1, <1>2, <1>4 DEF LoopInv
<1>9. InformInv' /\ StopInv'
  BY <1>1, <1>2 DEF InformInv, StopInv
<1>10. FailInv'
  BY <1>2 DEF FailInv
<1> QED BY <1>4, <1>5, <1>7, <1>8, <1>9, <1>10 DEF IInv

\* Round the controller's loop again, perhaps with a command of its own.
LEMMA LoopAgain ==
    ASSUME IInv, UNCHANGED <<scenario, lists, now, pmExiting, commands>>, pc' = "loop",
           stop' \in [StopKind -> Nat], marked' \in BOOLEAN,
           \/ \E what \in {"START", "STOP"} : Tell(Now(what))
           \/ UNCHANGED <<ctrlWorkList, sysBreak, pmStopped, lastTold, exitTold>>
    PROVE  IInv'
<1>1. WorkInv /\ ListsInv /\ LoopInv /\ ToldInv
  BY DEF IInv
<1>2. /\ scenario \in Scenarios /\ now \in [Kind -> 0..MaxTime] /\ commands \in 0..MaxCommands
      /\ pmExiting \in BOOLEAN
  BY <1>1 DEF WorkInv, TypeOK
<1>3. /\ ctrlWorkList' \in Seq(WorkItem)
      /\ \A i \in DOMAIN ctrlWorkList' : /\ FromCommand(scenario.steps, ctrlWorkList'[i])
                                         /\ ctrlWorkList'[i].runs = 0
                                         /\ ctrlWorkList'[i].breaks => sysBreak'
      /\ ToldInv'
      /\ sysBreak' \in BOOLEAN /\ pmStopped' \in BOOLEAN /\ exitTold' \in BOOLEAN
      /\ lastTold' \in {"START", "STOP"}
  <2>1. CASE \E what \in {"START", "STOP"} : Tell(Now(what))
    <3>1. PICK what \in {"START", "STOP"} : Tell(Now(what))
      BY <2>1
    <3>2. Now(what) \in Command /\ ~Now(what).periodic
      BY NowIsCommand
    <3>3. /\ ctrlWorkList' \in Seq(WorkItem)
          /\ \A i \in DOMAIN ctrlWorkList' : /\ FromCommand(scenario.steps, ctrlWorkList'[i])
                                             /\ ctrlWorkList'[i].runs = 0
                                             /\ ctrlWorkList'[i].breaks => sysBreak'
          /\ ToldInv'
          /\ sysBreak' = TRUE /\ pmStopped' \in BOOLEAN /\ exitTold' \in BOOLEAN
          /\ lastTold' \in {"START", "STOP"} /\ (~pmStopped => ~pmStopped')
      BY <1>1, <3>1, <3>2, Tells
    <3> QED BY <3>3
  <2>2. CASE UNCHANGED <<ctrlWorkList, sysBreak, pmStopped, lastTold, exitTold>>
    <3>1. ToldInv'
      BY <1>1, <2>2, ToldStays
    <3>2. /\ sysBreak' \in BOOLEAN /\ pmStopped' \in BOOLEAN /\ exitTold' \in BOOLEAN
          /\ lastTold' \in {"START", "STOP"}
      BY <1>1, <2>2 DEF WorkInv, TypeOK
    <3>3. /\ ctrlWorkList' \in Seq(WorkItem)
          /\ \A i \in DOMAIN ctrlWorkList' : /\ FromCommand(scenario.steps, ctrlWorkList'[i])
                                             /\ ctrlWorkList'[i].runs = 0
                                             /\ ctrlWorkList'[i].breaks => sysBreak'
      BY <1>1, <2>2 DEF WorkInv, TypeOK, LoopInv
    <3> QED BY <3>1, <3>2, <3>3
  <2> QED BY <2>1, <2>2
<1>4. ListsInv'
  BY <1>1, ListsStay
<1>5. WorkInv'
  <2>1. {sysBreak', pmStopped', pmExiting', marked', exitTold'} \subseteq BOOLEAN
    BY <1>2, <1>3
  <2> QED BY <1>2, <1>3, <1>4, <2>1, Typed
<1>6. LoopInv'
  BY <1>3 DEF LoopInv
<1>7. InformInv' /\ StopInv' /\ FailInv'
  BY DEF InformInv, StopInv, FailInv
<1> QED BY <1>3, <1>4, <1>5, <1>6, <1>7 DEF IInv

\* The loop is entered, with a command to start if there is no workbench.
LEMMA ActivateKeeps ==
    ASSUME IInv, Activate
    PROVE  IInv'
<1>1. stop \in [StopKind -> Nat] /\ marked \in BOOLEAN
  BY DEF IInv, WorkInv, TypeOK
<1>2. UNCHANGED <<scenario, lists, now, stop, pmExiting, marked, commands>> /\ pc' = "loop"
  BY DEF Activate
<1>3. \/ Tell(Now("START"))
      \/ UNCHANGED <<ctrlWorkList, sysBreak, pmStopped, lastTold, exitTold>>
  BY DEF Activate
<1>4. stop' \in [StopKind -> Nat] /\ marked' \in BOOLEAN
  BY <1>1, <1>2
<1>5. \/ \E what \in {"START", "STOP"} : Tell(Now(what))
      \/ UNCHANGED <<ctrlWorkList, sysBreak, pmStopped, lastTold, exitTold>>
  BY <1>3
<1> QED BY <1>2, <1>4, <1>5, LoopAgain

\* The execution ends, with a command to stop if the marker was committed.
LEMMA ExecuteEndKeeps ==
    ASSUME IInv, ExecuteEnd
    PROVE  IInv'
<1>1. UNCHANGED <<scenario, lists, now, pmExiting, commands>> /\ pc' = "loop"
  BY DEF ExecuteEnd
<1>2. stop' \in [StopKind -> Nat] /\ marked' \in BOOLEAN
  BY DEF ExecuteEnd, NoStop
<1>3. \/ Tell(Now("STOP"))
      \/ UNCHANGED <<ctrlWorkList, sysBreak, pmStopped, lastTold, exitTold>>
  BY DEF ExecuteEnd
<1>4. \/ \E what \in {"START", "STOP"} : Tell(Now(what))
      \/ UNCHANGED <<ctrlWorkList, sysBreak, pmStopped, lastTold, exitTold>>
  BY <1>3
<1> QED BY <1>1, <1>2, <1>4, LoopAgain

\* The work list and what was told last stay as they are.
LEMMA WorkStays ==
    ASSUME WorkInv, ToldInv, ListsInv',
           UNCHANGED <<scenario, ctrlWorkList, lists, lastTold, pmStopped, pmExiting, exitTold, commands>>,
           pc' \in {"parse", "loop", "events", "inform", "execute", "clock", "exited", "failed"},
           now' \in [Kind -> 0..MaxTime], stop' \in [StopKind -> Nat],
           sysBreak' \in BOOLEAN, marked' \in BOOLEAN
    PROVE  WorkInv' /\ ToldInv'
<1>1. ToldInv'
  BY ToldStays
<1>2. /\ scenario' \in Scenarios /\ ctrlWorkList' \in Seq(WorkItem)
      /\ \A i \in DOMAIN ctrlWorkList' : /\ FromCommand(scenario.steps, ctrlWorkList'[i])
                                         /\ ctrlWorkList'[i].runs = 0
  BY DEF WorkInv, TypeOK
<1>3. /\ {pmStopped', pmExiting', exitTold'} \subseteq BOOLEAN
      /\ commands' \in 0..MaxCommands /\ lastTold' \in {"START", "STOP"}
  BY DEF WorkInv, TypeOK
<1>4. {sysBreak', pmStopped', pmExiting', marked', exitTold'} \subseteq BOOLEAN
  BY <1>3
<1> QED BY <1>1, <1>2, <1>3, <1>4, Typed

\* The break is cleared only when the work list is empty.
LEMMA ClearBreakKeeps ==
    ASSUME IInv, ClearBreak
    PROVE  IInv'
<1>1. WorkInv /\ ListsInv /\ LoopInv /\ ToldInv
  BY DEF IInv
<1>2. /\ UNCHANGED <<scenario, ctrlWorkList, lists, now, stop, pmStopped, pmExiting, marked, commands, lastTold, exitTold>>
      /\ ctrlWorkList = <<>> /\ sysBreak' = FALSE /\ pc' = "events"
  BY DEF ClearBreak, stateVars, toldVars
<1>3. ListsInv'
  BY <1>1, <1>2, ListsStay
<1>4. WorkInv' /\ ToldInv'
  <2>1. now' \in [Kind -> 0..MaxTime] /\ stop' \in [StopKind -> Nat] /\ marked' \in BOOLEAN
    BY <1>1, <1>2 DEF WorkInv, TypeOK
  <2> QED BY <1>1, <1>2, <1>3, <2>1, WorkStays
<1>5. LoopInv' /\ InformInv' /\ StopInv' /\ FailInv'
  BY <1>1, <1>2 DEF LoopInv, InformInv, StopInv, FailInv
<1> QED BY <1>3, <1>4, <1>5 DEF IInv

\* Clock() returns to the loop of SYS_Execute.
LEMMA ClockEndKeeps ==
    ASSUME IInv, ClockEnd
    PROVE  IInv'
<1>1. WorkInv /\ ListsInv /\ LoopInv /\ ToldInv /\ StopInv
  BY DEF IInv
<1>2. /\ UNCHANGED <<scenario, ctrlWorkList, lists, now, stop, sysBreak, pmStopped, pmExiting, marked, commands, lastTold, exitTold>>
      /\ pc = "clock" /\ pc' = "execute"
  BY DEF ClockEnd, stateVars, toldVars
<1>3. ListsInv'
  BY <1>1, <1>2, ListsStay
<1>4. WorkInv' /\ ToldInv'
  <2>1. /\ now' \in [Kind -> 0..MaxTime] /\ stop' \in [StopKind -> Nat] /\ marked' \in BOOLEAN
        /\ sysBreak' \in BOOLEAN
    BY <1>1, <1>2 DEF WorkInv, TypeOK
  <2> QED BY <1>1, <1>2, <1>3, <2>1, WorkStays
<1>5. LoopInv' /\ InformInv' /\ StopInv' /\ FailInv'
  BY <1>1, <1>2 DEF LoopInv, InformInv, StopInv, FailInv
<1> QED BY <1>3, <1>4, <1>5 DEF IInv

\* If the head of a list in order lies ahead, all of it does.
LEMMA AllAhead ==
    ASSUME ListsInv, now \in [Kind -> 0..MaxTime], NEW kind \in StopKind,
           lists[kind] # <<>> => lists[kind][1].actionTime > now[kind]
    PROVE  \A i \in DOMAIN lists[kind] : Ahead(now[kind], kind, lists[kind][i])
<1>1. PICK list \in Seq(WorkItem) : list = lists[kind]
  BY Six DEF ListsInv
<1>2. Sorted(list) /\ \A i \in DOMAIN list : Placed(scenario.steps, kind, list[i])
  BY <1>1, Six DEF ListsInv, Good
<1>3. PICK time \in Nat : time = now[kind]
  BY Six, ControllerConstants
<1>4. ASSUME NEW i \in DOMAIN list PROVE list[i].on # "NOW" /\ list[i].actionTime > time
  <2>1. 1 \in DOMAIN list /\ list[1].actionTime <= list[i].actionTime /\ list # <<>>
    BY <1>2, HeadFirst
  <2>2. list[1].actionTime \in Nat /\ list[i].actionTime \in Nat
    BY <2>1, Times
  <2>3. list[i].actionTime > time
    BY <1>1, <1>3, <2>1, <2>2
  <2>4. list[i].on = "NOW" => list[i].actionTime = 0
    BY <1>2 DEF Placed
  <2> QED BY <2>2, <2>3, <2>4
<1> QED BY <1>1, <1>3, <1>4 DEF Ahead

\* When no event is ready, everything in the lists lies ahead.
LEMMA EventsDoneKeeps ==
    ASSUME IInv, EventsDone
    PROVE  IInv'
<1>1. WorkInv /\ ListsInv /\ LoopInv /\ ToldInv
  BY DEF IInv
<1>2. /\ UNCHANGED <<scenario, ctrlWorkList, lists, now, stop, sysBreak, pmStopped, pmExiting, marked, commands, lastTold, exitTold>>
      /\ pc = "events" /\ (FirstReady = 0 \/ NanosecondMissed)
      /\ pc' = IF NanosecondMissed THEN "failed" ELSE "inform"
  BY DEF EventsDone, stateVars, toldVars
<1>3. ListsInv'
  BY <1>1, <1>2, ListsStay
<1>4. now \in [Kind -> 0..MaxTime] /\ lists \in [Kind -> Seq(WorkItem)]
  BY <1>1 DEF WorkInv, TypeOK, ListsInv
<1>5. WorkInv' /\ ToldInv'
  <2>1. /\ now' \in [Kind -> 0..MaxTime] /\ stop' \in [StopKind -> Nat] /\ marked' \in BOOLEAN
        /\ sysBreak' \in BOOLEAN
    BY <1>1, <1>2 DEF WorkInv, TypeOK
  <2> QED BY <1>1, <1>2, <1>3, <2>1, WorkStays
<1>6. LoopInv' /\ StopInv'
  BY <1>1, <1>2 DEF LoopInv, StopInv
<1>7. \A kind \in Kind : lists[kind] # <<>> => Head(lists[kind]) = lists[kind][1] /\ 1 \in DOMAIN lists[kind]
  <2>1. \A list \in Seq(WorkItem) : list # <<>> => Head(list) = list[1] /\ 1 \in DOMAIN list
    OBVIOUS
  <2> QED BY <1>4, <2>1
<1>8. CASE NanosecondMissed
  <2>1. pc' = "failed"
    BY <1>2, <1>8
  <2>2. ReadyAt("CYCLE") = 0 /\ "CYCLE" \in Kind
    BY <1>8, ReadyFirst, Six DEF NanosecondMissed
  <2>3. lists["CYCLE"] # <<>> => ~IsDue(Head(lists["CYCLE"]))
    BY <1>4, <1>7, <2>2, Ready
  <2>4. (lists["CYCLE"] # <<>> => ~IsDue(Head(lists["CYCLE"])))'
    BY <1>2, <2>3 DEF IsDue
  <2>5. FailInv'
    BY <1>2, <1>8, <2>4 DEF FailInv, NanosecondMissed
  <2>6. InformInv'
    BY <2>1 DEF InformInv
  <2> QED BY <1>3, <1>5, <1>6, <2>5, <2>6 DEF IInv
<1>9. CASE ~NanosecondMissed
  <2>1. pc' = "inform" /\ FirstReady = 0
    BY <1>2, <1>9
  <2>2. \A kind \in Kind : ReadyAt(kind) = 0
    BY <2>1, ReadyFirst
  <2>3. ASSUME NEW kind \in Kind \ {"SSCMARK"}, lists[kind] # <<>>
        PROVE  lists[kind][1].actionTime > now[kind]
    <3>1. ~IsDue(lists[kind][1])
      BY <1>4, <2>2, <2>3, Ready
    <3>2. lists[kind][1].on = kind
      <4>1. Placed(scenario.steps, kind, lists[kind][1])
        BY <1>1, <1>7, <2>3 DEF ListsInv, Good
      <4>2. lists[kind][1].on # "NOW"
        BY <3>1 DEF IsDue
      <4> QED BY <4>1, <4>2 DEF Placed, ListOf
    <3>3. lists[kind][1].actionTime \in Nat /\ now[kind] \in Nat
      <4>1. PICK list \in Seq(WorkItem) : list = lists[kind]
        BY <1>4
      <4>2. list[1].actionTime \in Nat
        BY <1>7, <2>3, <4>1, Times
      <4> QED BY <1>4, <4>1, <4>2, ControllerConstants
    <3>4. CASE kind = "NANOSECOND"
      <4>1. lists[kind][1].actionTime # now[kind]
        BY <3>1, <3>2, <3>4 DEF IsDue
      <4>2. ~(lists[kind][1].actionTime < now[kind])
        BY <1>7, <1>9, <2>1, <2>3, <3>4 DEF NanosecondMissed
      <4> QED BY <3>3, <4>1, <4>2
    <3>5. CASE kind # "NANOSECOND"
      <4>1. ~(lists[kind][1].actionTime <= now[kind])
        BY <3>1, <3>2, <3>5, <2>3, Six DEF IsDue
      <4> QED BY <3>3, <4>1
    <3> QED BY <3>4, <3>5
  <2>4. ASSUME NEW i \in DOMAIN lists["SSCMARK"]
        PROVE  Ahead(now["SSCMARK"], "SSCMARK", lists["SSCMARK"][i])
    <3>1. ~IsDue(lists["SSCMARK"][i])
      BY <1>4, <2>2, <2>4, Ready, Six
    <3>2. Good(scenario.steps, now["SSCMARK"], "SSCMARK", lists["SSCMARK"][i])
      BY <1>1, <2>4, Six DEF ListsInv
    <3>3. lists["SSCMARK"][i].on = "SSCMARK"
      BY <3>2, Six DEF Good, Placed, ListOf
    <3>4. lists["SSCMARK"][i].actionTime # now["SSCMARK"]
      BY <3>1, <3>3 DEF IsDue
    <3>5. lists["SSCMARK"][i].actionTime \in Nat /\ now["SSCMARK"] \in Nat
      <4>1. PICK list \in Seq(WorkItem) : list = lists["SSCMARK"]
        BY <1>4, Six
      <4>2. list[i].actionTime \in Nat
        BY <2>4, <4>1, Times
      <4>3. now["SSCMARK"] \in 0..MaxTime
        BY <1>4, Six
      <4> QED BY <4>1, <4>2, <4>3, ControllerConstants
    <3>6. \/ lists["SSCMARK"][i].actionTime >= now["SSCMARK"]
          \/ lists["SSCMARK"][i].actionTime < lists["SSCMARK"][i].since
      BY <3>2 DEF Good
    <3> QED BY <3>3, <3>4, <3>5, <3>6 DEF Ahead
  <2>5. \A kind \in StopKind : \A i \in DOMAIN lists[kind] : Ahead(now[kind], kind, lists[kind][i])
    <3>1. \A kind \in StopKind : kind \in Kind \ {"SSCMARK"}
      BY Six
    <3> QED BY <1>1, <1>4, <2>3, <3>1, AllAhead
  <2>6. lists["PACKET"] # <<>> => Head(lists["PACKET"]).actionTime > now["PACKET"]
    BY <1>7, <2>3, Six
  <2>7. \A kind \in Kind \ {"PACKET"} : kind \in StopKind \/ kind = "SSCMARK"
    BY Six
  <2>8. InformInv'
    BY <1>2, <2>4, <2>5, <2>6, <2>7 DEF InformInv
  <2>9. FailInv'
    BY <2>1 DEF FailInv
  <2> QED BY <1>3, <1>5, <1>6, <2>8, <2>9 DEF IInv
<1> QED BY <1>8, <1>9

\* When the workbench has been informed, the next event is later, and no item
\* is waited for beyond its time.
LEMMA NextEventLater ==
    ASSUME WorkInv, ListsInv, InformInv, pc = "inform", NEW kind \in StopKind
    PROVE  /\ NextEvent(kind) \in Nat /\ NextEvent(kind) > now[kind]
           /\ \A i \in DOMAIN lists[kind] : NextEvent(kind) <= lists[kind][i].actionTime
           /\ kind = "MACROINST" /\ lists["SSCMARK"] # <<>> => NextEvent(kind) <= now[kind] + 1
<1>1. PICK list \in Seq(WorkItem) : list = lists[kind]
  BY Six DEF ListsInv
<1>2. PICK time \in 0..MaxTime : time = now[kind]
  BY Six DEF WorkInv, TypeOK
<1>3. time \in Nat /\ MaxTime \in Nat
  BY <1>2, ControllerConstants
<1>4. Sorted(list)
  BY <1>1 DEF ListsInv
<1>5. \A i \in DOMAIN list : list[i].actionTime > time /\ list[i].actionTime \in Nat
  <2>1. \A i \in DOMAIN list : list[i].actionTime > time
    BY <1>1, <1>2, Six DEF InformInv, Ahead
  <2> QED BY <2>1, Times
<1>6. HeadTime(kind) \in Nat /\ HeadTime(kind) > time
      /\ \A i \in DOMAIN list : HeadTime(kind) <= list[i].actionTime
  <2>1. CASE list = <<>>
    BY <1>1, <1>2, <1>3, <2>1 DEF HeadTime, Never
  <2>2. CASE list # <<>>
    <3>1. 1 \in DOMAIN list /\ HeadTime(kind) = list[1].actionTime
      BY <1>1, <2>2 DEF HeadTime
    <3> QED BY <1>4, <1>5, <3>1, HeadFirst
  <2> QED BY <2>1, <2>2
<1>7. CASE kind = "MACROINST" /\ lists["SSCMARK"] # <<>>
  <2>1. NextEvent(kind) = time + 1
    BY <1>2, <1>7 DEF NextEvent
  <2> QED BY <1>1, <1>2, <1>3, <1>5, <2>1
<1>8. CASE ~(kind = "MACROINST" /\ lists["SSCMARK"] # <<>>)
  <2>1. NextEvent(kind) = HeadTime(kind)
    BY <1>8 DEF NextEvent
  <2> QED BY <1>1, <1>2, <1>6, <1>8, <2>1
<1> QED BY <1>7, <1>8

\* SYS_Execute is told to stop before anything is due; its ASSERTX never fails.
LEMMA InformDoneKeeps ==
    ASSUME IInv, InformDone
    PROVE  IInv'
<1>1. WorkInv /\ ListsInv /\ LoopInv /\ ToldInv /\ InformInv
  BY DEF IInv
<1>2. /\ UNCHANGED <<scenario, ctrlWorkList, lists, now, sysBreak, pmStopped, pmExiting, marked, commands, lastTold, exitTold>>
      /\ pc = "inform"
  BY DEF InformDone, stateVars, toldVars
<1>3. ListsInv'
  BY <1>1, <1>2, ListsStay
<1>4. /\ now' \in [Kind -> 0..MaxTime] /\ stop \in [StopKind -> Nat] /\ marked' \in BOOLEAN
      /\ sysBreak' \in BOOLEAN
  BY <1>1, <1>2 DEF WorkInv, TypeOK
<1>5. CASE pc' = "exited" /\ UNCHANGED stop
  <2>1. WorkInv' /\ ToldInv'
    BY <1>1, <1>2, <1>3, <1>4, <1>5, WorkStays
  <2>2. LoopInv' /\ InformInv' /\ StopInv' /\ FailInv'
    BY <1>1, <1>2, <1>5 DEF LoopInv, InformInv, StopInv, FailInv
  <2> QED BY <1>3, <2>1, <2>2 DEF IInv
<1>6. CASE pc' = "loop" /\ UNCHANGED stop
  BY <1>2, <1>4, <1>6, LoopAgain
<1>7. CASE /\ ~pmStopped /\ stop' = [kind \in StopKind |-> NextEvent(kind)]
           /\ pc' = IF NextIsLater THEN "execute" ELSE "failed"
  <2>1. \A kind \in StopKind :
           /\ NextEvent(kind) \in Nat /\ NextEvent(kind) > now[kind]
           /\ \A i \in DOMAIN lists[kind] : NextEvent(kind) <= lists[kind][i].actionTime
           /\ kind = "MACROINST" /\ lists["SSCMARK"] # <<>> => NextEvent(kind) <= now[kind] + 1
    BY <1>1, <1>2, NextEventLater
  <2>2. \A kind \in Kind : now[kind] \in Nat /\ now[kind] < Never
    <3>1. now \in [Kind -> 0..MaxTime]
      BY <1>1 DEF WorkInv, TypeOK
    <3> QED BY <3>1, ControllerConstants DEF Never
  <2>3. NextIsLater
    <3>1. \A kind \in StopKind : NextEvent(kind) # now[kind]
      <4> SUFFICES ASSUME NEW kind \in StopKind PROVE NextEvent(kind) # now[kind]
        OBVIOUS
      <4>1. NextEvent(kind) \in Nat /\ NextEvent(kind) > now[kind] /\ now[kind] \in Nat
        BY <2>1, <2>2, Six
      <4> QED BY <4>1
    <3>2. HeadTime("PACKET") # now["PACKET"]
      <4>1. now["PACKET"] \in Nat /\ now["PACKET"] < Never
        BY <2>2, Six
      <4>2. CASE lists["PACKET"] = <<>>
        BY <4>1, <4>2, ControllerConstants DEF HeadTime, Never
      <4>3. CASE lists["PACKET"] # <<>>
        <5>1. PICK list \in Seq(WorkItem) : list = lists["PACKET"]
          BY <1>1, Six DEF ListsInv
        <5>2. Head(list).actionTime \in Nat
          BY <4>3, <5>1, Times
        <5>3. Head(list).actionTime > now["PACKET"]
          BY <1>1, <1>2, <4>3, <5>1 DEF InformInv
        <5> QED BY <4>1, <4>3, <5>1, <5>2, <5>3 DEF HeadTime
      <4> QED BY <4>2, <4>3
    <3> QED BY <3>1, <3>2 DEF NextIsLater
  <2>4. pc' = "execute"
    BY <1>7, <2>3
  <2>5. stop' \in [StopKind -> Nat] /\ \A kind \in StopKind : stop'[kind] = NextEvent(kind)
    BY <1>7, <2>1
  <2>6. WorkInv' /\ ToldInv'
    BY <1>1, <1>2, <1>3, <1>4, <2>4, <2>5, WorkStays
  <2>7. StopInv'
    <3>1. \A kind \in StopKind : \A i \in DOMAIN lists[kind] :
             lists[kind][i].on # "NOW" /\ stop'[kind] <= lists[kind][i].actionTime
      BY <1>1, <1>2, <2>1, <2>5, Six DEF InformInv, Ahead
    <3>2. lists["SSCMARK"] # <<>> => stop'["MACROINST"] <= now["MACROINST"] + 1
      BY <2>1, <2>5, Six
    <3>3. \A i \in DOMAIN lists["SSCMARK"] : Ahead(now["SSCMARK"], "SSCMARK", lists["SSCMARK"][i])
      BY <1>1, <1>2, Six DEF InformInv
    <3> QED BY <1>2, <3>1, <3>2, <3>3 DEF StopInv
  <2>8. LoopInv'
    BY <1>1, <1>2, <1>7, <2>4 DEF LoopInv
  <2>9. InformInv' /\ FailInv'
    BY <2>4 DEF InformInv, FailInv
  <2> QED BY <1>3, <2>6, <2>7, <2>8, <2>9 DEF IInv
<1> QED BY <1>5, <1>6, <1>7 DEF InformDone

\* A periodic action waits for a time after it was scheduled.
LEMMA AfterSince ==
    ASSUME NEW steps, NEW time, NEW kind, NEW item, Good(steps, time, kind, item), item.periodic
    PROVE  item.actionTime > item.since
<1> DEFINE p == item.period
<1>1. /\ p \in Nat \ {0} /\ item.runs \in Nat /\ item.since \in Nat
      /\ item.actionTime = Turn(item) * p
  BY DEF Good, Placed, Regular, WorkItem
<1>2. PICK d \in Nat : d = item.since \div p
  BY <1>1, Division
<1>3. item.since < d * p + p /\ d * p \in Nat
  BY <1>1, <1>2, Division
<1>4. Turn(item) = item.runs + 1 + d
  BY <1>2 DEF Turn
<1> HIDE DEF p
<1>5. \A r \in Nat : (r + 1 + d) * p = r * p + d * p + p /\ r * p \in Nat
  BY <1>1
<1>6. PICK r \in Nat : r = item.runs
  BY <1>1
<1>7. item.actionTime = r * p + d * p + p /\ r * p \in Nat
  BY <1>1, <1>4, <1>5, <1>6
<1> QED BY <1>1, <1>3, <1>7

\* An item before and after Clock().
LEMMA StillGood ==
    ASSUME NEW steps, NEW step \in steps, NEW kind \in Kind, NEW item, NEW time \in Nat,
           step[kind] \in Nat, kind = "SSCMARK" => step[kind] <= 1,
           Good(steps, time, kind, item), kind # "PACKET" => Ahead(time, kind, item)
    PROVE  Good(steps, time + step[kind], kind, item)
<1>1. PICK n \in Nat : n = step[kind]
  OBVIOUS
<1>2. item \in WorkItem /\ item.actionTime \in Nat /\ item.since \in Nat /\ item.period \in Nat
  BY DEF Good, Placed, WorkItem
<1>3. Regular(time + n, item)
  <2> SUFFICES ASSUME item.periodic
               PROVE  item.actionTime <= time + n + item.period /\ time + n < item.actionTime + item.period
    BY DEF Good, Regular
  <2>1. kind # "PACKET" /\ n <= item.period /\ item.actionTime <= time + item.period
    BY <1>1 DEF Good, Placed, Regular
  <2>2. item.actionTime > time
    BY <2>1, <1>2, AfterSince DEF Ahead
  <2> QED BY <1>2, <2>1, <2>2
<1>4. kind = "SSCMARK" => item.actionTime >= time + n \/ item.actionTime < item.since
  <2> SUFFICES ASSUME kind = "SSCMARK" PROVE item.actionTime >= time + n \/ item.actionTime < item.since
    OBVIOUS
  <2>1. n <= 1 /\ (item.actionTime > time \/ item.actionTime < item.since)
    BY <1>1 DEF Ahead
  <2> QED BY <1>2, <2>1
<1> QED BY <1>1, <1>3, <1>4 DEF Good

\* As long as SYS_Execute goes on, nothing is due.
LEMMA StillAhead ==
    ASSUME WorkInv, ListsInv, StopInv, pc = "execute", MayClock, NEW kind \in Kind \ {"PACKET"}
    PROVE  \A i \in DOMAIN lists[kind] : Ahead(now[kind], kind, lists[kind][i])
<1>1. PICK list \in Seq(WorkItem) : list = lists[kind]
  BY DEF ListsInv
<1>2. now \in [Kind -> 0..MaxTime] /\ stop \in [StopKind -> Nat] /\ \A k \in StopKind : now[k] < stop[k]
  BY DEF WorkInv, TypeOK, MayClock
<1>3. CASE kind \in StopKind
  <2>1. now[kind] \in Nat /\ stop[kind] \in Nat /\ now[kind] < stop[kind]
    BY <1>2, <1>3, ControllerConstants
  <2>2. \A i \in DOMAIN list : list[i].on # "NOW" /\ stop[kind] <= list[i].actionTime
    BY <1>1, <1>3 DEF StopInv
  <2>3. \A i \in DOMAIN list : list[i].actionTime \in Nat
    BY Times
  <2>4. \A i \in DOMAIN list : list[i].actionTime > now[kind]
    BY <2>1, <2>2, <2>3
  <2> QED BY <1>1, <2>2, <2>4 DEF Ahead
<1>4. CASE kind = "SSCMARK"
  <2>1. now["MACROINST"] \in Nat /\ stop["MACROINST"] \in Nat /\ now["MACROINST"] < stop["MACROINST"]
    BY <1>2, Six, ControllerConstants
  <2>2. ~(stop["MACROINST"] <= now["MACROINST"])
    BY <2>1
  <2> QED BY <1>4, <2>2 DEF StopInv
<1> QED BY <1>3, <1>4, Six

\* Clock() passes over no stop, no mark and no period.
LEMMA ClockKeeps ==
    ASSUME IInv, Clock
    PROVE  IInv'
<1>1. WorkInv /\ ListsInv /\ LoopInv /\ ToldInv /\ StopInv
  BY DEF IInv
<1>2. /\ UNCHANGED <<scenario, ctrlWorkList, lists, stop, sysBreak, pmStopped, pmExiting, commands, lastTold, exitTold>>
      /\ pc = "execute" /\ MayClock /\ pc' = "clock" /\ marked' \in {FALSE, scenario.marker}
  BY DEF Clock, stateVars, toldVars
<1>3. PICK step \in scenario.steps : now' = [kind \in Kind |-> now[kind] + step[kind]]
  BY DEF Clock, Advances
<1>4. scenario \in Scenarios /\ now \in [Kind -> 0..MaxTime] /\ stop \in [StopKind -> Nat] /\ sysBreak \in BOOLEAN
  BY <1>1 DEF WorkInv, TypeOK
<1>5. /\ step \in [Kind -> Nat] /\ step["SSCMARK"] <= 1 /\ step["SSCMARK"] <= step["MACROINST"]
      /\ scenario.marker \in BOOLEAN
  BY <1>3, <1>4, ControllerConstants
<1>6. \A kind \in Kind : now[kind] \in Nat /\ now'[kind] = now[kind] + step[kind] /\ step[kind] \in Nat
  BY <1>3, <1>4, <1>5, ControllerConstants
<1>7. now' \in [Kind -> 0..MaxTime]
  <2>1. \A kind \in Kind : now'[kind] <= MaxTime
    BY DEF Clock, Bounded
  <2>2. \A kind \in Kind : now'[kind] \in Nat
    BY <1>6
  <2>3. \A kind \in Kind : now'[kind] \in 0..MaxTime
    BY <2>1, <2>2, ControllerConstants
  <2> QED BY <1>3, <2>3
<1>8. \A kind \in Kind \ {"PACKET"} : \A i \in DOMAIN lists[kind] : Ahead(now[kind], kind, lists[kind][i])
  BY <1>1, <1>2, StillAhead
<1>9. ListsInv'
  <2> SUFFICES ASSUME NEW kind \in Kind, NEW i \in DOMAIN lists[kind]
               PROVE  Good(scenario.steps, now'[kind], kind, lists[kind][i])
    BY <1>1, <1>2 DEF ListsInv
  <2>1. Good(scenario.steps, now[kind], kind, lists[kind][i])
    BY <1>1 DEF ListsInv
  <2>2. kind # "PACKET" => Ahead(now[kind], kind, lists[kind][i])
    BY <1>8
  <2>3. now[kind] \in Nat /\ step[kind] \in Nat /\ (kind = "SSCMARK" => step[kind] <= 1)
    BY <1>5, <1>6
  <2>4. Good(scenario.steps, now[kind] + step[kind], kind, lists[kind][i])
    BY <1>3, <2>1, <2>2, <2>3, StillGood
  <2> QED BY <1>6, <2>4
<1>10. WorkInv' /\ ToldInv'
  <2>1. stop' \in [StopKind -> Nat] /\ marked' \in BOOLEAN /\ sysBreak' \in BOOLEAN
    BY <1>2, <1>4, <1>5
  <2> QED BY <1>1, <1>2, <1>7, <1>9, <2>1, WorkStays
<1>11. StopInv'
  <2>1. /\ now["MACROINST"] \in Nat /\ now["SSCMARK"] \in Nat /\ stop["MACROINST"] \in Nat
        /\ step["MACROINST"] \in Nat /\ step["SSCMARK"] \in Nat
        /\ now'["MACROINST"] = now["MACROINST"] + step["MACROINST"]
        /\ now'["SSCMARK"] = now["SSCMARK"] + step["SSCMARK"]
    BY <1>4, <1>6, Six
  <2>2. lists["SSCMARK"] # <<>> => stop["MACROINST"] <= now["MACROINST"] + 1
    BY <1>1, <1>2 DEF StopInv
  <2>3. lists["SSCMARK"] # <<>> => stop["MACROINST"] <= now'["MACROINST"] + 1
    BY <2>1, <2>2
  <2>4. ASSUME NEW i \in DOMAIN lists["SSCMARK"]
        PROVE  \/ Ahead(now'["SSCMARK"], "SSCMARK", lists["SSCMARK"][i])
               \/ stop["MACROINST"] <= now'["MACROINST"]
    <3>1. CASE step["MACROINST"] = 0
      <4>1. step["SSCMARK"] = 0
        BY <1>5, <2>1, <3>1
      <4>2. now'["SSCMARK"] = now["SSCMARK"]
        BY <2>1, <4>1
      <4> QED BY <1>8, <4>2, Six
    <3>2. CASE step["MACROINST"] # 0
      <4>1. lists["SSCMARK"] # <<>>
        OBVIOUS
      <4> QED BY <2>1, <2>2, <3>2, <4>1
    <3> QED BY <3>1, <3>2
  <2>5. \A kind \in StopKind : \A i \in DOMAIN lists[kind] :
           lists[kind][i].on # "NOW" /\ stop[kind] <= lists[kind][i].actionTime
    BY <1>1, <1>2 DEF StopInv
  <2> QED BY <1>2, <2>3, <2>4, <2>5 DEF StopInv
<1>12. LoopInv' /\ InformInv' /\ FailInv'
  BY <1>1, <1>2 DEF LoopInv, InformInv, FailInv
<1> QED BY <1>9, <1>10, <1>11, <1>12 DEF IInv

-----------------------------------------------------------------------------
(* Scheduling *)

\* What Schedule() does with an item that is not to clear a list.
LEMMA Schedules ==
    ASSUME NEW ls \in [Kind -> Seq(WorkItem)], NEW kind \in Kind, kind \in StopKind => Sorted(ls[kind]),
           NEW item, item.what # "CLEAR", kind = ListOf(item), NEW new \in WorkItem, new = Timed(item)
    PROVE  \E res, p :
              /\ res \in Seq(WorkItem)
              /\ Scheduled(ls, item) = [ls EXCEPT ![kind] = res]
              /\ Spliced(res, ls[kind], p, new)
              /\ kind \in StopKind =>
                    /\ Sorted(res)
                    /\ \A i \in DOMAIN ls[kind] : i >= p => ls[kind][i].actionTime > new.actionTime
<1>1. PICK list \in Seq(WorkItem) : list = ls[kind]
  OBVIOUS
<1>2. item.on \in {"PACKET", "SSCMARK"} <=> kind \notin StopKind
  BY Six DEF ListOf
<1>3. CASE kind \in StopKind
  <2>1. PICK res : res = InsertOrdered(list, new)
    OBVIOUS
  <2>2. /\ res \in Seq(WorkItem) /\ Sorted(res)
        /\ \E p : /\ Spliced(res, list, p, new)
                  /\ \A i \in DOMAIN list : i >= p => list[i].actionTime > new.actionTime
    BY <1>1, <1>3, <2>1, OrderedKeeps
  <2>3. Scheduled(ls, item) = [ls EXCEPT ![kind] = res]
    BY <1>1, <1>2, <1>3, <2>1 DEF Scheduled
  <2> QED BY <1>1, <2>2, <2>3
<1>4. CASE kind \notin StopKind
  <2>1. PICK res : res = Append(list, new)
    OBVIOUS
  <2>2. res \in Seq(WorkItem) /\ Spliced(res, list, Len(list) + 1, new)
    BY <2>1, Appended
  <2>3. Scheduled(ls, item) = [ls EXCEPT ![kind] = res]
    BY <1>1, <1>2, <1>4, <2>1 DEF Scheduled
  <2> QED BY <1>1, <1>4, <2>2, <2>3
<1> QED BY <1>3, <1>4

\* One list is replaced by another.
LEMMA OneList ==
    ASSUME ListsInv, UNCHANGED <<scenario, now>>, NEW kind \in Kind, NEW res \in Seq(WorkItem),
           lists' = [lists EXCEPT ![kind] = res], kind \in StopKind => Sorted(res),
           \A i \in DOMAIN res : Good(scenario.steps, now[kind], kind, res[i])
    PROVE  ListsInv'
<1>1. lists \in [Kind -> Seq(WorkItem)]
  BY DEF ListsInv
<1>2. lists' \in [Kind -> Seq(WorkItem)]
  BY <1>1
<1>3. lists'[kind] = res /\ \A k \in Kind : k # kind => lists'[k] = lists[k]
  BY <1>1
<1>4. \A k \in Kind : \A i \in DOMAIN lists'[k] : Good(scenario.steps, now[k], k, lists'[k][i])
  BY <1>3 DEF ListsInv
<1>5. \A k \in StopKind : Sorted(lists'[k])
  <2> SUFFICES ASSUME NEW k \in StopKind PROVE Sorted(lists'[k])
    OBVIOUS
  <2>1. k \in Kind
    BY Six
  <2>2. k # kind => Sorted(lists'[k])
    BY <1>3, <2>1 DEF ListsInv
  <2> QED BY <1>3, <2>2
<1> QED BY <1>2, <1>4, <1>5 DEF ListsInv

\* The head of the work list and the rest of it.
LEMMA Tailed ==
    ASSUME NEW list \in Seq(WorkItem), list # <<>>
    PROVE  /\ Tail(list) \in Seq(WorkItem) /\ Spliced(list, Tail(list), 1, Head(list))
           /\ \A i \in DOMAIN Tail(list) : \E j \in DOMAIN list : Tail(list)[i] = list[j]
           /\ 1 \in DOMAIN list /\ Head(list) = list[1]
<1>1. /\ Tail(list) \in Seq(WorkItem) /\ Len(Tail(list)) = Len(list) - 1
      /\ \A i \in 1..Len(Tail(list)) : Tail(list)[i] = list[i + 1]
      /\ 1 \in DOMAIN list /\ Head(list) = list[1]
  OBVIOUS
<1>2. Spliced(list, Tail(list), 1, Head(list))
  <2>1. Len(list) \in Nat /\ Len(Tail(list)) \in Nat /\ Len(list) = Len(Tail(list)) + 1
    BY <1>1
  <2>2. 1 \in 1..Len(Tail(list)) + 1
    BY <2>1
  <2> QED BY <1>1, <2>1, <2>2 DEF Spliced
<1> QED BY <1>1, <1>2, SplicedPlaces

\* An item goes from the work list to its place in the schedule.
LEMMA ScheduleItemKeeps ==
    ASSUME IInv, ScheduleItem
    PROVE  IInv'
<1>1. WorkInv /\ ListsInv /\ LoopInv /\ ToldInv
  BY DEF IInv
<1>2. /\ UNCHANGED <<scenario, pc, now, stop, sysBreak, pmStopped, pmExiting, marked, commands, lastTold, exitTold>>
      /\ pc = "loop" /\ ctrlWorkList # <<>>
  BY DEF ScheduleItem, stateVars, toldVars
<1>3. PICK work, rest, item :
         /\ work \in Seq(WorkItem)
         /\ work = ctrlWorkList /\ rest = Tail(work) /\ item = Head(work)
  BY <1>1 DEF WorkInv
<1> work \in Seq(WorkItem)
  BY <1>3
<1>4. /\ rest \in Seq(WorkItem) /\ Spliced(work, rest, 1, item)
      /\ \A i \in DOMAIN rest : \E j \in DOMAIN work : rest[i] = work[j]
      /\ 1 \in DOMAIN work /\ item = work[1]
  BY <1>2, <1>3, Tailed
<1>5. \A i \in DOMAIN work : /\ FromCommand(scenario.steps, work[i]) /\ work[i].runs = 0
                             /\ work[i].breaks => sysBreak
  BY <1>1, <1>3 DEF WorkInv, TypeOK, LoopInv
<1>6. FromCommand(scenario.steps, item) /\ item \in WorkItem
  BY <1>4, <1>5, ItemFacts
<1>7. ctrlWorkList' = rest
  BY <1>3 DEF ScheduleItem
<1>8. \A i \in DOMAIN rest : /\ FromCommand(scenario.steps, rest[i]) /\ rest[i].runs = 0
                             /\ rest[i].breaks => sysBreak
  BY <1>4, <1>5
<1>9. PICK kind, start, ls, list :
         /\ kind \in Kind
         /\ kind = ListOf(item) /\ start = [item EXCEPT !.since = now[kind]] /\ ls = lists
         /\ list = ls[kind]
  <2>1. ListOf(item) \in Kind
    BY <1>6, Belongs
  <2> QED BY <2>1
<1> kind \in Kind
  BY <1>9
<1>17. ls \in [Kind -> Seq(WorkItem)] /\ list \in Seq(WorkItem)
  BY <1>1, <1>9 DEF ListsInv
<1>10. lists' = Scheduled(ls, start)
  BY <1>3, <1>9 DEF ScheduleItem
<1>11. now \in [Kind -> 0..MaxTime] /\ now \in [Kind -> Nat]
  BY <1>1, ControllerConstants DEF WorkInv, TypeOK
<1>12. start.what = item.what /\ start.on = item.on /\ ListOf(start) = kind
  BY <1>6, <1>9 DEF WorkItem, ListOf
<1>13. "CYCLE" \in Kind /\ "CYCLE" \in StopKind
  BY Six
<1>14. ListsInv' /\ ToldInv'
  <2>1. CASE item.what = "CLEAR"
    <3>1. ~Told(item) /\ item.on = kind
      BY <1>6, <1>9, <2>1, ItemFacts DEF Told, ListOf
    <3>2. PICK res : res = ClearProgress(list)
      OBVIOUS
    <3>3. lists' = [ls EXCEPT ![kind] = res]
      BY <1>9, <1>10, <1>12, <1>17, <2>1, <3>1, <3>2 DEF Scheduled
    <3>4. /\ res \in Seq(WorkItem)
          /\ \A n \in DOMAIN res : \E i \in DOMAIN list : res[n] = list[i]
          /\ Sorted(list) => Sorted(res)
          /\ NoneTold(res) => NoneTold(list)
          /\ LastTold(list, lastTold) => LastTold(res, lastTold)
      <4>1. \A l, r, what : l \in Seq(WorkItem) /\ r = ClearProgress(l) =>
               /\ r \in Seq(WorkItem) /\ \A n \in DOMAIN r : \E i \in DOMAIN l : r[n] = l[i]
               /\ Sorted(l) => Sorted(r)
               /\ NoneTold(r) => NoneTold(l)
               /\ LastTold(l, what) => LastTold(r, what)
        BY ClearedKeeps
      <4>2. list \in Seq(WorkItem)
        BY <1>17
      <4>4. res \in Seq(WorkItem)
        BY <3>2, <4>1, <4>2, Zenon
      <4>5. Sorted(list) => Sorted(res)
        BY <3>2, <4>1, <4>2, Zenon
      <4>6. NoneTold(res) => NoneTold(list)
        BY <3>2, <4>1, <4>2, Zenon
      <4>7. LastTold(list, lastTold) => LastTold(res, lastTold)
        BY <3>2, <4>1, <4>2, Zenon
      <4>8. \A n \in DOMAIN res : \E i \in DOMAIN list : res[n] = list[i]
        BY <3>2, <4>1, <4>2
      <4> QED BY <4>4, <4>5, <4>6, <4>7, <4>8
    <3>5. ListsInv'
      <4>1. \A i \in DOMAIN res : Good(scenario.steps, now[kind], kind, res[i])
        BY <1>1, <1>9, <3>4 DEF ListsInv
      <4>2. kind \in StopKind => Sorted(res)
        BY <1>1, <1>9, <3>4 DEF ListsInv
      <4>3. lists' = [lists EXCEPT ![kind] = res]
        BY <1>9, <3>3
      <4> QED BY <1>1, <1>2, <3>4, <4>1, <4>2, <4>3, OneList
    <3>6. /\ NoneTold(rest) <=> NoneTold(work)
          /\ LastTold(rest, lastTold) <=> LastTold(work, lastTold)
      BY <1>4, <3>1, SplicedTold
    <3>7. /\ NoneTold(lists'["CYCLE"]) => NoneTold(lists["CYCLE"])
          /\ LastTold(lists["CYCLE"], lastTold) => LastTold(lists'["CYCLE"], lastTold)
      <4>1. CASE kind = "CYCLE"
        BY <1>9, <3>3, <3>4, <4>1
      <4>2. CASE kind # "CYCLE"
        BY <1>9, <1>13, <3>3, <4>2
      <4> QED BY <4>1, <4>2
    <3>8. ToldInv'
      BY <1>1, <1>2, <1>3, <1>7, <3>6, <3>7 DEF ToldInv
    <3> QED BY <3>5, <3>8
  <2>2. CASE item.what # "CLEAR"
    <3>1. PICK new \in WorkItem : new = Timed(start) /\ Good(scenario.steps, now[kind], kind, new)
                                  /\ new.what = item.what /\ new.on = item.on
      BY <1>6, <1>9, <1>11, <2>2, TimedFirst DEF Good, Placed
    <3>2. /\ kind \in StopKind => Sorted(ls[kind])
          /\ start.what # "CLEAR" /\ kind = ListOf(start) /\ new = Timed(start)
      BY <1>1, <1>9, <1>12, <2>2, <3>1 DEF ListsInv
    <3>4. PICK res, p :
              /\ res \in Seq(WorkItem)
              /\ Scheduled(ls, start) = [ls EXCEPT ![kind] = res]
              /\ Spliced(res, ls[kind], p, new)
              /\ kind \in StopKind =>
                    /\ Sorted(res)
                    /\ \A i \in DOMAIN ls[kind] : i >= p => ls[kind][i].actionTime > new.actionTime
      BY <1>17, <3>2, Schedules
    <3> res \in Seq(WorkItem)
      BY <3>4
    <3>3. /\ Scheduled(ls, start) = [ls EXCEPT ![kind] = res]
          /\ Spliced(res, list, p, new)
          /\ kind \in StopKind =>
                /\ Sorted(res)
                /\ \A i \in DOMAIN list : i >= p => list[i].actionTime > new.actionTime
      BY <1>9, <3>4
    <3>5. ListsInv'
      <4>1. \A i \in DOMAIN res : res[i] = new \/ \E j \in DOMAIN list : res[i] = list[j]
        BY <1>17, <3>3, SplicedPlaces
      <4>2. \A i \in DOMAIN list : Good(scenario.steps, now[kind], kind, list[i])
        BY <1>1, <1>9, <3>4 DEF ListsInv
      <4>3. \A i \in DOMAIN res : Good(scenario.steps, now[kind], kind, res[i])
        BY <3>1, <4>1, <4>2
      <4>4. lists' = [lists EXCEPT ![kind] = res]
        BY <1>9, <1>10, <3>3
      <4> QED BY <1>1, <1>2, <3>3, <4>3, <4>4, OneList
    <3>6. Told(new) <=> Told(item)
      BY <3>1 DEF Told
    <3>7. kind # "CYCLE" => lists'["CYCLE"] = lists["CYCLE"] /\ ~Told(item)
      <4>1. kind # "CYCLE" => ~Told(item)
        BY <1>9 DEF Told, ListOf
      <4>2. kind # "CYCLE" => lists'["CYCLE"] = lists["CYCLE"]
        BY <1>9, <1>10, <1>13, <1>17, <3>3
      <4> QED BY <4>1, <4>2
    <3>8. kind = "CYCLE" => lists'["CYCLE"] = res /\ lists["CYCLE"] = list
      BY <1>9, <1>10, <1>17, <3>3
    <3>9. CASE ~Told(item)
      <4>1. /\ NoneTold(rest) <=> NoneTold(work)
            /\ LastTold(rest, lastTold) <=> LastTold(work, lastTold)
        BY <1>4, <3>9, SplicedTold
      <4>2. /\ NoneTold(list) <=> NoneTold(res)
            /\ LastTold(list, lastTold) <=> LastTold(res, lastTold)
        BY <1>17, <3>3, <3>6, <3>9, SplicedTold
      <4>3. /\ NoneTold(lists'["CYCLE"]) <=> NoneTold(lists["CYCLE"])
            /\ LastTold(lists["CYCLE"], lastTold) <=> LastTold(lists'["CYCLE"], lastTold)
        BY <3>7, <3>8, <4>2
      <4>4. ToldInv'
        BY <1>1, <1>2, <1>3, <1>7, <4>1, <4>3 DEF ToldInv
      <4> QED BY <3>5, <4>4
    <3>10. CASE Told(item)
      <4>1. kind = "CYCLE" /\ kind \in StopKind
        BY <1>9, <3>10, Six DEF Told, ListOf
      <4>2. LastTold(work, lastTold)
        BY <1>1, <1>3 DEF ToldInv
      <4>3. LastTold(rest, lastTold) /\ (NoneTold(rest) => lastTold = item.what)
        BY <1>4, <3>10, <4>2, SplicedTold
      <4>4. new.actionTime = 0
        BY <3>1, <3>10 DEF Told, Good, Placed
      <4>5. \A i \in DOMAIN list : i >= p => ~Told(list[i])
        <5> SUFFICES ASSUME NEW i \in DOMAIN list, i >= p PROVE ~Told(list[i])
          OBVIOUS
        <5>1. list[i].actionTime > 0 /\ list[i].actionTime \in Nat
          BY <1>17, <3>3, <4>1, <4>4, Times
        <5>2. Placed(scenario.steps, kind, list[i])
          BY <1>1, <1>9 DEF ListsInv, Good
        <5>3. list[i].on = "NOW" => list[i].actionTime = 0
          BY <5>2 DEF Placed
        <5> QED BY <5>1, <5>3 DEF Told
      <4>6. LastTold(res, new.what) /\ ~NoneTold(res)
        BY <1>17, <3>3, <3>6, <3>10, <4>5, SplicedTold
      <4>7. NoneTold(rest) => LastTold(lists'["CYCLE"], lastTold)
        BY <3>1, <3>8, <4>1, <4>3, <4>6
      <4>8. ToldInv'
        BY <1>2, <1>7, <3>8, <4>1, <4>3, <4>6, <4>7 DEF ToldInv
      <4> QED BY <3>5, <4>8
    <3> QED BY <3>9, <3>10
  <2> QED BY <2>1, <2>2
<1>15. WorkInv'
  <2>1. /\ scenario \in Scenarios /\ now \in [Kind -> 0..MaxTime] /\ stop \in [StopKind -> Nat]
        /\ {sysBreak, pmStopped, pmExiting, marked, exitTold} \subseteq BOOLEAN
        /\ lastTold \in {"START", "STOP"} /\ commands \in 0..MaxCommands
    BY <1>1 DEF WorkInv, TypeOK
  <2> QED BY <1>2, <1>4, <1>7, <1>8, <1>14, <2>1, Typed
<1>16. LoopInv' /\ InformInv' /\ StopInv' /\ FailInv'
  BY <1>2, <1>7, <1>8 DEF LoopInv, InformInv, StopInv, FailInv
<1> QED BY <1>14, <1>15, <1>16 DEF IInv

\* An item that happens leaves its list, and a periodic one goes into it again.
LEMMA ProcessesLists ==
    ASSUME WorkInv, ListsInv, ProcessEvent
    PROVE  \E kind \in Kind, item \in WorkItem, res \in Seq(WorkItem) :
              /\ kind = Kinds[FirstReady] /\ item = lists[kind][ReadyAt(kind)]
              /\ Placed(scenario.steps, kind, item) /\ IsDue(item)
              /\ lists' = [lists EXCEPT ![kind] = res] /\ ListsInv'
              /\ kind = "CYCLE" => item = lists["CYCLE"][1]
              /\ \A i \in DOMAIN res : \/ res[i].on = item.on /\ item.on # "NOW"
                                       \/ \E j \in DOMAIN lists[kind] : res[i] = lists[kind][j]
              /\ item.on = "NOW" => Spliced(lists[kind], res, 1, item)
<1>1. lists \in [Kind -> Seq(WorkItem)] /\ now \in [Kind -> Nat] /\ UNCHANGED <<scenario, now>>
  BY ControllerConstants DEF ListsInv, WorkInv, TypeOK, ProcessEvent
<1>2. FirstReady # 0
  BY DEF ProcessEvent
<1>3. PICK kind, k, list, item, rest, ls :
         /\ kind \in Kind
         /\ kind = Kinds[FirstReady] /\ k = ReadyAt(kind) /\ k # 0 /\ list = lists[kind] /\ item = list[k]
         /\ rest = RemoveAt(list, k) /\ ls = [lists EXCEPT ![kind] = rest]
  BY <1>2, ReadyFirst
<1> kind \in Kind
  BY <1>3
<1>4. list \in Seq(WorkItem) /\ k \in DOMAIN list /\ IsDue(item) /\ (kind # "SSCMARK" => k = 1)
  BY <1>1, <1>3, Ready
<1>5. rest \in Seq(WorkItem) /\ Spliced(list, rest, k, item)
  BY <1>3, <1>4, RemovedPlace
<1>6. item \in WorkItem /\ Good(scenario.steps, now[kind], kind, item)
  BY <1>3, <1>4 DEF ListsInv
<1>7. \A i \in DOMAIN list : Good(scenario.steps, now[kind], kind, list[i])
  BY <1>3 DEF ListsInv
<1>8. \A i \in DOMAIN rest : \E j \in DOMAIN list : rest[i] = list[j]
  BY <1>4, <1>5, SplicedPlaces
<1>9. \A i \in DOMAIN rest : Good(scenario.steps, now[kind], kind, rest[i])
  BY <1>7, <1>8
<1>10. kind \in StopKind => Sorted(rest)
  <2>1. kind \in StopKind => Sorted(list)
    BY <1>3 DEF ListsInv
  <2> QED BY <1>4, <1>5, <2>1, SplicedSorted
<1>11. Placed(scenario.steps, kind, item)
  BY <1>6 DEF Good
<1>12. kind = "CYCLE" => item = lists["CYCLE"][1]
  BY <1>3, <1>4
<1>13. item.on = "NOW" => kind = "CYCLE" /\ k = 1 /\ ~item.periodic
  BY <1>4, <1>11 DEF Placed, ListOf
<1>14. lists' = IF item.periodic THEN Scheduled(ls, [item EXCEPT !.runs = @ + 1]) ELSE ls
  BY <1>1, <1>3 DEF ProcessEvent
<1>15. CASE ~item.periodic
  <2>1. lists' = [lists EXCEPT ![kind] = rest]
    BY <1>3, <1>14, <1>15
  <2>2. ListsInv'
    BY <1>1, <1>5, <1>9, <1>10, <2>1, OneList
  <2>3. item.on = "NOW" => Spliced(lists[kind], rest, 1, item)
    BY <1>3, <1>5, <1>13
  <2>4. \A i \in DOMAIN rest : \E j \in DOMAIN lists[kind] : rest[i] = lists[kind][j]
    BY <1>3, <1>8
  <2>5. \A i \in DOMAIN rest : \/ rest[i].on = item.on /\ item.on # "NOW"
                               \/ \E j \in DOMAIN lists[kind] : rest[i] = lists[kind][j]
    BY <2>4
  <2>6. kind = Kinds[FirstReady] /\ item = lists[kind][ReadyAt(kind)] /\ IsDue(item) /\ item \in WorkItem
    BY <1>3, <1>4, <1>6
  <2> QED BY <1>5, <1>11, <1>12, <2>1, <2>2, <2>3, <2>5, <2>6, Zenon
<1>16. CASE item.periodic
  <2>1. PICK again, new : again = [item EXCEPT !.runs = @ + 1] /\ new = Timed(again)
    OBVIOUS
  <2>2. /\ Good(scenario.steps, now[kind], kind, new) /\ new.on = item.on /\ new.on = kind
        /\ new \in WorkItem
    <3>1. new = Timed(again) /\ again = [item EXCEPT !.runs = @ + 1]
      BY <2>1
    <3>2. Good(scenario.steps, now[kind], kind, new) /\ new.on = item.on /\ new.on = kind
      BY <1>1, <1>4, <1>6, <1>16, <3>1, TimedAgain
    <3> QED BY <3>2 DEF Good, Placed
  <2>3. again.what # "CLEAR" /\ kind = ListOf(again)
    <3>1. again.what = item.what /\ again.on = item.on
      BY <1>6, <2>1 DEF WorkItem
    <3> QED BY <1>11, <3>1 DEF Placed, ListOf
  <2>4. ls \in [Kind -> Seq(WorkItem)] /\ ls[kind] = rest /\ (kind \in StopKind => Sorted(ls[kind]))
    BY <1>1, <1>3, <1>5, <1>10
  <2>5. PICK res, p :
              /\ res \in Seq(WorkItem)
              /\ Scheduled(ls, again) = [ls EXCEPT ![kind] = res]
              /\ Spliced(res, ls[kind], p, new)
              /\ kind \in StopKind =>
                    /\ Sorted(res)
                    /\ \A i \in DOMAIN ls[kind] : i >= p => ls[kind][i].actionTime > new.actionTime
    <3>1. new \in WorkItem /\ new = Timed(again)
      BY <2>1, <2>2
    <3> QED BY <2>3, <2>4, <3>1, Schedules
  <2> res \in Seq(WorkItem)
    BY <2>5
  <2>6. \A i \in DOMAIN res : res[i] = new \/ \E j \in DOMAIN rest : res[i] = rest[j]
    BY <1>5, <2>4, <2>5, SplicedPlaces
  <2>7. lists' = [lists EXCEPT ![kind] = res]
    <3>1. lists' = [ls EXCEPT ![kind] = res]
      BY <1>14, <1>16, <2>1, <2>5
    <3> QED BY <1>1, <1>3, <3>1
  <2>8. ListsInv'
    <3>1. \A i \in DOMAIN res : Good(scenario.steps, now[kind], kind, res[i])
      BY <1>9, <2>2, <2>6
    <3> QED BY <1>1, <2>5, <2>7, <3>1, OneList
  <2>9. item.on # "NOW"
    BY <1>13, <1>16
  <2>10. \A i \in DOMAIN res : \/ res[i].on = item.on /\ item.on # "NOW"
                               \/ \E j \in DOMAIN lists[kind] : res[i] = lists[kind][j]
    <3>1. \A i \in DOMAIN res : res[i].on = item.on \/ \E j \in DOMAIN list : res[i] = list[j]
      BY <1>8, <2>2, <2>6
    <3> QED BY <1>3, <2>9, <3>1
  <2>11. kind = Kinds[FirstReady] /\ item = lists[kind][ReadyAt(kind)] /\ IsDue(item) /\ item \in WorkItem
    BY <1>3, <1>4, <1>6
  <2> QED BY <1>11, <1>12, <2>7, <2>8, <2>9, <2>10, <2>11, Zenon
<1> QED BY <1>15, <1>16

\* An action that happens is the next one told.
LEMMA ProcessEventKeeps ==
    ASSUME IInv, ProcessEvent
    PROVE  IInv'
<1>1. WorkInv /\ ListsInv /\ LoopInv /\ ToldInv
  BY DEF IInv
<1>2. /\ UNCHANGED <<scenario, pc, ctrlWorkList, now, stop, sysBreak, marked, commands, exitTold>>
      /\ pc = "events" /\ FirstReady # 0
  BY DEF ProcessEvent
<1>3. PICK kind \in Kind, item \in WorkItem, res \in Seq(WorkItem) :
              /\ kind = Kinds[FirstReady] /\ item = lists[kind][ReadyAt(kind)]
              /\ Placed(scenario.steps, kind, item) /\ IsDue(item)
              /\ lists' = [lists EXCEPT ![kind] = res] /\ ListsInv'
              /\ kind = "CYCLE" => item = lists["CYCLE"][1]
              /\ \A i \in DOMAIN res : \/ res[i].on = item.on /\ item.on # "NOW"
                                       \/ \E j \in DOMAIN lists[kind] : res[i] = lists[kind][j]
              /\ item.on = "NOW" => Spliced(lists[kind], res, 1, item)
  BY <1>1, ProcessesLists
<1>4. lists \in [Kind -> Seq(WorkItem)] /\ "CYCLE" \in Kind
  BY <1>1, Six DEF ListsInv
<1>5. PICK list \in Seq(WorkItem) : list = lists["CYCLE"]
  BY <1>4
<1>6. /\ pmStopped' = (item.what = "STOP" \/ (pmStopped /\ item.what # "START"))
      /\ pmExiting' = (pmExiting \/ item.what = "EXIT")
      /\ lastTold' = IF item.what = "STOP" /\ item.on # "NOW" /\ ~ToldSince THEN "STOP" ELSE lastTold
  BY <1>3 DEF ProcessEvent
<1>7. pmStopped' \in BOOLEAN /\ pmExiting' \in BOOLEAN /\ lastTold' \in {"START", "STOP"}
  <2>1. lastTold \in {"START", "STOP"}
    BY <1>1 DEF WorkInv, TypeOK
  <2>2. lastTold' \in {"START", "STOP"}
    BY <1>6, <2>1
  <2> QED BY <1>6, <2>2
<1>8. ToldSince <=> ~NoneTold(ctrlWorkList)
  BY DEF ToldSince, NoneTold, Told
<1>9. ASSUME ~NoneTold(ctrlWorkList) PROVE ToldInv'
  <2>1. lastTold' = lastTold
    BY <1>6, <1>8, <1>9
  <2>2. ~NoneTold(ctrlWorkList') /\ LastTold(ctrlWorkList', lastTold')
    BY <1>1, <1>2, <1>9, <2>1 DEF ToldInv
  <2> QED BY <2>2 DEF ToldInv
<1>10. ASSUME NoneTold(ctrlWorkList) PROVE ToldInv'
  <2>1. NoneTold(ctrlWorkList') /\ LastTold(ctrlWorkList', lastTold')
    BY <1>2, <1>10 DEF NoneTold, LastTold
  <2>2. /\ LastTold(list, lastTold)
        /\ NoneTold(list) => (pmStopped <=> lastTold = "STOP")
    BY <1>1, <1>5, <1>10 DEF ToldInv
  <2>3. lastTold' = IF item.what = "STOP" /\ item.on # "NOW" THEN "STOP" ELSE lastTold
    BY <1>6, <1>8, <1>10
  <2>4. ToldInv'
    <3>1. CASE item.on = "NOW"
      <4>1. kind = "CYCLE" /\ lists'["CYCLE"] = res /\ Spliced(list, res, 1, item)
        BY <1>3, <1>4, <1>5, <3>1 DEF Placed, ListOf
      <4>2. lastTold' = lastTold
        BY <1>6, <2>3, <3>1
      <4>3. CASE Told(item)
        <5>1. LastTold(res, lastTold) /\ (NoneTold(res) => lastTold = item.what)
          BY <2>2, <4>1, <4>3, SplicedTold
        <5>2. item.what \in {"START", "STOP"}
          BY <4>3 DEF Told
        <5>3. pmStopped' <=> item.what = "STOP"
          <6>1. CASE item.what = "STOP"
            BY <1>6, <2>3, <6>1
          <6>2. CASE item.what = "START"
            BY <1>6, <2>3, <6>2
          <6> QED BY <5>2, <6>1, <6>2
        <5>4. NoneTold(res) => (pmStopped' <=> lastTold' = "STOP")
          BY <4>2, <5>1, <5>3
        <5> QED BY <2>1, <4>1, <4>2, <5>1, <5>4 DEF ToldInv
      <4>4. CASE ~Told(item)
        <5>1. /\ NoneTold(res) <=> NoneTold(list)
              /\ LastTold(res, lastTold) <=> LastTold(list, lastTold)
          BY <4>1, <4>4, SplicedTold
        <5>2. item.what # "START" /\ item.what # "STOP"
          BY <3>1, <4>4 DEF Told
        <5>3. pmStopped' <=> pmStopped
          BY <1>6, <2>3, <5>2
        <5>4. NoneTold(res) => (pmStopped' <=> lastTold' = "STOP")
          BY <2>2, <4>2, <5>1, <5>3
        <5> QED BY <2>1, <2>2, <4>1, <4>2, <5>1, <5>4 DEF ToldInv
      <4> QED BY <4>3, <4>4
    <3>2. CASE item.on # "NOW"
      <4>1. lists["CYCLE"] # <<>> => lists["CYCLE"][1].on # "NOW"
        <5>1. CASE kind = "CYCLE"
          BY <1>3, <3>2, <5>1
        <5>2. CASE kind # "CYCLE"
          <6>1. ReadyAt("CYCLE") = 0
            BY <1>2, <1>3, <5>2, ReadyFirst
          <6>2. lists["CYCLE"] # <<>> => ~IsDue(lists["CYCLE"][1])
            BY <1>4, <6>1, Ready
          <6> QED BY <6>2 DEF IsDue
        <5> QED BY <5>1, <5>2
      <4>2. \A i \in DOMAIN list : list[i].on # "NOW" /\ ~Told(list[i])
        BY <1>1, <1>5, <4>1, NoneNow
      <4>3. NoneTold(list)
        BY <4>2 DEF NoneTold
      <4>4. PICK after : after = lists'["CYCLE"]
        OBVIOUS
      <4>5. \A i \in DOMAIN after : ~Told(after[i])
        <5>1. CASE kind = "CYCLE"
          <6>1. after = res
            BY <1>3, <1>4, <4>4, <5>1
          <6>2. \A i \in DOMAIN res : \/ res[i].on # "NOW"
                                      \/ \E j \in DOMAIN list : res[i] = list[j]
            BY <1>3, <1>5, <3>2, <5>1
          <6> QED BY <4>2, <6>1, <6>2 DEF Told
        <5>2. CASE kind # "CYCLE"
          <6>1. after = list
            BY <1>3, <1>4, <1>5, <4>4, <5>2
          <6> QED BY <4>2, <6>1
        <5> QED BY <5>1, <5>2
      <4>6. LastTold(after, lastTold')
        BY <4>5 DEF LastTold
      <4>7. pmStopped' <=> lastTold' = "STOP"
        <5>1. pmStopped <=> lastTold = "STOP"
          BY <2>2, <4>3
        <5>2. item.what # "START"
          BY <1>3, <3>2 DEF Placed
        <5>3. CASE item.what = "STOP"
          BY <1>6, <2>3, <3>2, <5>3
        <5>4. CASE item.what # "STOP"
          BY <1>6, <2>3, <5>1, <5>2, <5>4
        <5> QED BY <5>3, <5>4
      <4> QED BY <2>1, <4>4, <4>6, <4>7 DEF ToldInv
    <3> QED BY <3>1, <3>2
  <2> QED BY <2>4
<1>11. ToldInv'
  BY <1>9, <1>10
<1>12. WorkInv'
  <2>1. /\ scenario \in Scenarios /\ now \in [Kind -> 0..MaxTime] /\ stop \in [StopKind -> Nat]
        /\ {sysBreak, marked, exitTold} \subseteq BOOLEAN /\ commands \in 0..MaxCommands
    BY <1>1 DEF WorkInv, TypeOK
  <2>2. {sysBreak', pmStopped', pmExiting', marked', exitTold'} \subseteq BOOLEAN
    BY <1>2, <1>7, <2>1
  <2>3. /\ ctrlWorkList' \in Seq(WorkItem)
        /\ \A i \in DOMAIN ctrlWorkList' : /\ FromCommand(scenario.steps, ctrlWorkList'[i])
                                           /\ ctrlWorkList'[i].runs = 0
    BY <1>1, <1>2 DEF WorkInv, TypeOK
  <2>4. pc' \in {"parse", "loop", "events", "inform", "execute", "clock", "exited", "failed"}
    BY <1>2
  <2> QED BY <1>2, <1>3, <1>7, <2>1, <2>2, <2>3, <2>4, Typed
<1>13. LoopInv' /\ InformInv' /\ StopInv' /\ FailInv'
  BY <1>1, <1>2 DEF LoopInv, InformInv, StopInv, FailInv
<1> QED BY <1>3, <1>11, <1>12, <1>13 DEF IInv

-----------------------------------------------------------------------------
(* Theorems *)

\* Every reachable state satisfies the inductive invariant.
THEOREM Inductive == Spec => []IInv
<1>1. Init => IInv
  BY Initial
<1>2. IInv /\ [Next]_vars => IInv'
  <2> SUFFICES ASSUME IInv, [Next]_vars PROVE IInv'
    OBVIOUS
  <2>1. CASE Activate
    BY <2>1, ActivateKeeps
  <2>2. CASE ScheduleItem
    BY <2>2, ScheduleItemKeeps
  <2>3. CASE ClearBreak
    BY <2>3, ClearBreakKeeps
  <2>4. CASE ProcessEvent
    BY <2>4, ProcessEventKeeps
  <2>5. CASE EventsDone
    BY <2>5, EventsDoneKeeps
  <2>6. CASE InformDone
    BY <2>6, InformDoneKeeps
  <2>7. CASE Clock
    BY <2>7, ClockKeeps
  <2>8. CASE ClockEnd
    BY <2>8, ClockEndKeeps
  <2>9. CASE ExecuteEnd
    BY <2>9, ExecuteEndKeeps
  <2>10. CASE \E c \in scenario.commands : GiveCommand(c)
    BY <2>10, GiveCommandKeeps
  <2>11. CASE CheckExitConditions
    BY <2>11, CheckExitConditionsKeeps
  <2>12. CASE UNCHANGED vars
    BY <2>12 DEF vars, stateVars, toldVars, IInv, WorkInv, TypeOK, ListsInv, LoopInv, ToldInv,
                 InformInv, StopInv, FailInv, IsDue
  <2> QED BY <2>1, <2>2, <2>3, <2>4, <2>5, <2>6, <2>7, <2>8, <2>9, <2>10, <2>11, <2>12
          DEF Next, Step, Finished
<1> QED BY <1>1, <1>2, PTL DEF Spec

\* When SYS_Execute clocks the model no action is due or overdue and no command
\* waits, whatever was told, and only the VERIFYX for nanoseconds can fail.
THEOREM OverdueNever == Spec => []NothingOverdue
<1>1. IInv => NothingOverdue
  <2> SUFFICES ASSUME IInv PROVE NothingOverdue
    OBVIOUS
  <2>1. WorkInv /\ ListsInv /\ LoopInv /\ StopInv /\ FailInv /\ TypeOK
    BY DEF IInv, WorkInv
  <2>2. pc = "failed" => NanosecondMissed
    <3> SUFFICES ASSUME pc = "failed" PROVE NanosecondMissed
      OBVIOUS
    <3>1. lists["CYCLE"] # <<>> => ~IsDue(Head(lists["CYCLE"]))
      BY <2>1 DEF FailInv
    <3>2. ReadyAt("CYCLE") = 0
      BY <3>1 DEF ReadyAt
    <3>3. FirstReady # 1
      BY <3>2, ReadyFirst
    <3> QED BY <2>1, <3>3 DEF FailInv, NanosecondMissed
  <2>3. ASSUME pc = "execute", MayClock
        PROVE  /\ \A kind \in Kind \ {"PACKET"} : \A i \in DOMAIN lists[kind] :
                     /\ lists[kind][i].on # "NOW"
                     /\ \/ lists[kind][i].actionTime > now[kind]
                        \/ kind = "SSCMARK" /\ lists[kind][i].actionTime < lists[kind][i].since
               /\ \A i \in DOMAIN ctrlWorkList : ~ctrlWorkList[i].breaks
    <3>1. \A kind \in Kind \ {"PACKET"} : \A i \in DOMAIN lists[kind] :
             Ahead(now[kind], kind, lists[kind][i])
      BY <2>1, <2>3, StillAhead
    <3>2. \A i \in DOMAIN ctrlWorkList : ~ctrlWorkList[i].breaks
      BY <2>1, <2>3 DEF LoopInv, MayClock
    <3> QED BY <3>1, <3>2 DEF Ahead
  <2> QED BY <2>1, <2>2, <2>3 DEF NothingOverdue
<1> QED BY <1>1, Inductive, PTL

\* When the workbench is informed a periodic action has happened once for every
\* multiple of its period since it was scheduled.
THEOREM OncePerPeriod == Spec => []EveryPeriodOnce
<1>1. IInv => EveryPeriodOnce
  <2> SUFFICES ASSUME IInv, pc = "inform", NEW kind \in Kind, NEW i \in DOMAIN lists[kind],
                      NEW item, item = lists[kind][i], item.periodic
               PROVE  item.runs = now[kind] \div item.period - item.since \div item.period
    BY DEF EveryPeriodOnce
  <2>1. WorkInv /\ ListsInv /\ InformInv
    BY DEF IInv
  <2>2. Good(scenario.steps, now[kind], kind, item)
    BY <2>1 DEF ListsInv
  <2>3. PICK time \in Nat : time = now[kind]
    BY <2>1, ControllerConstants DEF WorkInv, TypeOK
  <2>4. PICK p \in Nat \ {0} : p = item.period
    BY <2>2 DEF Good, Placed, WorkItem
  <2>5. PICK d \in Nat : d = item.since \div p
    BY <2>2, <2>4, Division DEF Good, Placed, WorkItem
  <2>6. PICK q \in Nat : q = item.runs + d
    BY <2>2, <2>5 DEF Good, Placed, WorkItem
  <2>7. item.runs \in Nat /\ item.actionTime \in Nat /\ item.since \in Nat /\ kind # "PACKET"
    BY <2>2 DEF Good, Placed, WorkItem
  <2>8. Turn(item) = q + 1
    BY <2>4, <2>5, <2>6, <2>7 DEF Turn
  <2>9. item.actionTime = (q + 1) * p /\ item.actionTime <= time + p
    BY <2>2, <2>3, <2>4, <2>8 DEF Good, Regular
  <2>10. item.actionTime > time
    <3>1. item.actionTime > item.since
      BY <2>2, AfterSince
    <3>2. Ahead(time, kind, item)
      BY <2>1, <2>3, <2>7 DEF InformInv
    <3> QED BY <2>7, <3>1, <3>2 DEF Ahead
  <2>11. (q + 1) * p = q * p + p /\ q * p \in Nat
    BY OneMore
  <2>12. q * p <= time /\ time < q * p + p
    BY <2>9, <2>10, <2>11
  <2>13. q = time \div p
    BY <2>12, Quotient
  <2> QED BY <2>3, <2>4, <2>5, <2>6, <2>7, <2>13
<1> QED BY <1>1, Inductive, PTL

\* The model is clocked only if the last thing told was to start it.
THEOREM ClockedAsTold == Spec => StoppedAsTold
<1>1. IInv /\ [Next]_vars => [now' # now => lastTold = "START"]_vars
  <2> SUFFICES ASSUME IInv, Next, now' # now PROVE lastTold = "START"
    BY DEF vars
  <2>1. Clock
    BY DEF Next, Step, Activate, ScheduleItem, ClearBreak, ProcessEvent, EventsDone, InformDone,
           ClockEnd, ExecuteEnd, GiveCommand, CheckExitConditions, Finished, vars
  <2>2. WorkInv /\ ListsInv /\ LoopInv /\ ToldInv /\ StopInv
    BY DEF IInv
  <2>3. pc = "execute" /\ MayClock
    BY <2>1 DEF Clock
  <2>4. NoneTold(ctrlWorkList)
    <3> SUFFICES ASSUME NEW i \in DOMAIN ctrlWorkList PROVE ~Told(ctrlWorkList[i])
      BY DEF NoneTold
    <3>1. ~ctrlWorkList[i].breaks
      BY <2>2, <2>3 DEF LoopInv, MayClock
    <3>2. FromCommand(scenario.steps, ctrlWorkList[i])
      BY <2>2 DEF WorkInv
    <3> QED BY <3>1, <3>2, ItemFacts
  <2>5. NoneTold(lists["CYCLE"])
    BY <2>2, <2>3, Six DEF StopInv, NoneTold, Told
  <2>6. ~pmStopped
    BY <2>2, <2>3 DEF LoopInv
  <2>7. lastTold # "STOP"
    BY <2>2, <2>4, <2>5, <2>6 DEF ToldInv
  <2>8. lastTold \in {"START", "STOP"}
    BY <2>2 DEF WorkInv, TypeOK
  <2> QED BY <2>7, <2>8
<1> QED BY <1>1, Inductive, PTL DEF Spec, StoppedAsTold

=============================================================================
