-------------------------- MODULE ReplacementPolicy --------------------------
(***************************************************************************)
(* The replacement policies of cache.h: what they remember of one set of   *)
(* the cache and which way they give up.  A policy p is a record with its  *)
(* name, the number of ways and, for the pseudo LRU trees, the number of   *)
(* trees to choose from at random (top) and of ways at each leaf (bottom). *)
(* A bit vector is the set of its bits, and getting a way at random is the *)
(* set of the ways one can get.  At most 31 ways: a way is an INT8 in the  *)
(* list of lru_info and shifts an int in getLRU and GetVictim.             *)
(***************************************************************************)
EXTENDS Integers, Sequences, FiniteSets, FiniteSetsExt

NIL == -1

WaysOf(p) == 0..p.ways - 1

-----------------------------------------------------------------------------
(* lru_info: a doubly linked list from the MRU way (next) to the LRU way *)

LruInfo(n) == [next |-> [w \in 0..n - 1 |-> w - 1],
               prev |-> [w \in 0..n - 1 |-> IF w = n - 1 THEN NIL ELSE w + 1],
               mru  |-> n - 1, lru |-> 0]

\* w's neighbours connected together
Unlinked(l, w) ==
    [l EXCEPT !.next = [v \in DOMAIN @ |-> IF v = l.prev[w] THEN l.next[w] ELSE @[v]],
              !.prev = [v \in DOMAIN @ |-> IF v = l.next[w] THEN l.prev[w] ELSE @[v]]]

\* Mutant: a way that was the LRU one stays it.
ListMRUKeepsLru(l, w) ==
    IF l.mru = w THEN l
    ELSE LET u == Unlinked(l, w)
         IN  [u EXCEPT !.next[w] = l.mru, !.prev[w] = NIL, !.prev[l.mru] = w, !.mru = w]

ListMRU(l, w) ==
    IF l.mru = w THEN l
    ELSE LET u == Unlinked(l, w)
         IN  [u EXCEPT !.next[w] = l.mru, !.prev[w] = NIL, !.prev[l.mru] = w,
                       !.mru = w, !.lru = IF @ = w THEN l.prev[w] ELSE @]

ListLRU(l, w) ==
    IF l.lru = w THEN l
    ELSE LET u == Unlinked(l, w)
         IN  [u EXCEPT !.next[w] = NIL, !.prev[w] = l.lru, !.next[l.lru] = w,
                       !.lru = w, !.mru = IF @ = w THEN l.next[w] ELSE @]

\* getLRU(reserved_mask): the first from the LRU end that is not reserved
ListVictim(l, reserved) ==
    LET skip(w) == IF w \in reserved THEN l.prev[w] ELSE w
        at[i \in 0..Cardinality(DOMAIN l.next)] == IF i = 0 THEN l.lru ELSE skip(at[i - 1])
    IN  at[Cardinality(DOMAIN l.next)]

-----------------------------------------------------------------------------
(* ev7_replacement_info: a bit for each way used since all bits were set *)

EV7MRU(p, mask, w) == IF mask \cup {w} = WaysOf(p) THEN {w} ELSE mask \cup {w}

findFirstClear(p, mask, reserved) ==
    Min(IF mask \cup reserved = WaysOf(p) THEN WaysOf(p) \ reserved
                                          ELSE WaysOf(p) \ (mask \cup reserved))

-----------------------------------------------------------------------------
(* PLRU_Mask: the bits of the tree on the way to each leaf, and their
   values when it is the LRU one *)

PLRULeafs == {1, 2, 3, 4, 6, 8, 12, 16, 24}

\* Two leaves after one another have the same bits on their way.
Twice(s) == [i \in 1..2 * Len(s) |-> s[(i + 1) \div 2]]

mask == [n \in PLRULeafs |->
    CASE n = 1 -> <<{}>>
      [] n = 2 -> <<{0}, {0}>>
      [] n = 3 -> <<{0, 1}, {0, 2}, {1, 2}>>
      [] n = 4 -> <<{0, 2}, {0, 2}, {1, 2}, {1, 2}>>
      [] n = 6 -> <<{0, 3, 4}, {0, 3, 4}, {1, 3, 5}, {1, 3, 5}, {2, 4, 5}, {2, 4, 5}>>
      [] n = 8 -> <<{0, 1, 3}, {0, 1, 3}, {0, 1, 4}, {0, 1, 4},
                    {0, 2, 5}, {0, 2, 5}, {0, 2, 6}, {0, 2, 6}>>
      [] n = 12 -> Twice(<<{0, 2, 9, 10}, {1, 2, 9, 10}, {3, 5, 9, 11}, {4, 5, 9, 11},
                           {6, 8, 10, 11}, {7, 8, 10, 11}>>)
      [] n = 16 -> Twice(<<{0, 2, 6, 14}, {1, 2, 6, 14}, {3, 5, 6, 14}, {4, 5, 6, 14},
                           {7, 9, 13, 14}, {8, 9, 13, 14}, {10, 12, 13, 14}, {11, 12, 13, 14}>>)
      [] n = 24 -> Twice(<<{0, 2, 6, 21, 22}, {1, 2, 6, 21, 22}, {3, 5, 6, 21, 22},
                           {4, 5, 6, 21, 22}, {7, 9, 13, 21, 23}, {8, 9, 13, 21, 23},
                           {10, 12, 13, 21, 23}, {11, 12, 13, 21, 23}, {14, 16, 20, 22, 23},
                           {15, 16, 20, 22, 23}, {17, 19, 20, 22, 23}, {18, 19, 20, 22, 23}>>)]

compare == [n \in PLRULeafs |->
    CASE n = 1 -> <<{}>>
      [] n = 2 -> <<{}, {0}>>
      [] n = 3 -> <<{}, {0}, {1, 2}>>
      [] n = 4 -> <<{}, {0}, {2}, {1, 2}>>
      [] n = 6 -> <<{}, {0}, {3}, {1, 3}, {4, 5}, {2, 4, 5}>>
      [] n = 8 -> <<{}, {3}, {1}, {1, 4}, {0}, {0, 5}, {0, 2}, {0, 2, 6}>>
      [] n = 12 -> <<{}, {0}, {2}, {1, 2}, {9}, {3, 9}, {5, 9}, {4, 5, 9},
                     {10, 11}, {6, 10, 11}, {8, 10, 11}, {7, 8, 10, 11}>>
      [] n = 16 -> <<{}, {0}, {2}, {1, 2}, {6}, {3, 6}, {5, 6}, {4, 5, 6},
                     {14}, {7, 14}, {9, 14}, {8, 9, 14},
                     {13, 14}, {10, 13, 14}, {12, 13, 14}, {11, 12, 13, 14}>>
      [] n = 24 -> <<{}, {0}, {2}, {1, 2}, {6}, {3, 6}, {5, 6}, {4, 5, 6},
                     {21}, {7, 21}, {9, 21}, {8, 9, 21},
                     {13, 21}, {10, 13, 21}, {12, 13, 21}, {11, 12, 13, 21},
                     {22, 23}, {14, 22, 23}, {16, 22, 23}, {15, 16, 22, 23},
                     {20, 22, 23}, {17, 20, 22, 23}, {19, 20, 22, 23}, {18, 19, 20, 22, 23}>>]

\* Mutant: the bits on the way to the leaf are cleared, not turned away from it.
LeafMRUCleared(n, leaf, state) == state \ mask[n][leaf + 1]

LeafMRU(n, leaf, state) ==
    (mask[n][leaf + 1] \ compare[n][leaf + 1]) \cup (state \ mask[n][leaf + 1])

LeafLRU(n, leaf, state) == compare[n][leaf + 1] \cup (state \ mask[n][leaf + 1])

\* NIL stands for the ASSERT that there is a possible way.
getLRUWayFor(n, state) ==
    LET leafs == {i \in 0..n - 1 : state \cap mask[n][i + 1] = compare[n][i + 1]}
    IN  IF leafs = {} THEN NIL ELSE Min(leafs)

\* A reserved leaf is treated as MRU, Ways times at most (NIL: an ASSERT).
getLRUWayWithReservations(n, state, rsvd) ==
    LET skip(s) == LET leaf == getLRUWayFor(n, s)
                   IN  IF leaf \in rsvd THEN LeafMRU(n, leaf, s) ELSE s
        at[i \in 0..n] == IF i = 0 THEN state ELSE skip(at[i - 1])
        last == getLRUWayFor(n, at[n])
    IN  IF last \in rsvd THEN NIL ELSE last

(* PLRUTree and GeneralizedPseudoLRUReplacement *)

treeSize(p) == p.ways \div p.top
NumLeafs(p) == treeSize(p) \div p.bottom

Group(p, leaf) == {leaf + b * NumLeafs(p) : b \in 0..p.bottom - 1}

\* Mutant: a leaf is reserved if any of its ways is.
FullLeafsAny(p, rsvd) == {leaf \in 0..NumLeafs(p) - 1 : Group(p, leaf) \cap rsvd # {}}

FullLeafs(p, rsvd) == {leaf \in 0..NumLeafs(p) - 1 : Group(p, leaf) \subseteq rsvd}

\* The ways one can get from a tree: its LRU leaf and any free way at it.
getPLRUWay(p, state, rsvd) ==
    LET leaf == getLRUWayWithReservations(NumLeafs(p), state, FullLeafs(p, rsvd))
    IN  IF leaf = NIL THEN {NIL} ELSE Group(p, leaf) \ rsvd

TreeWays(p, t) == t * treeSize(p)..(t + 1) * treeSize(p) - 1

TreeVictims(p, trees, reserved) ==
    UNION {LET rsvd == {w - t * treeSize(p) : w \in reserved \cap TreeWays(p, t)}
           IN  {w + t * treeSize(p) : w \in getPLRUWay(p, trees[t], rsvd)} :
             t \in {u \in 0..p.top - 1 : ~(TreeWays(p, u) \subseteq reserved)}}

\* way & NumLeafs, where setMRU has way % NumLeafs
BitAnd(m, n) == LET both(b) == IF (m \div b) % 2 = 1 /\ (n \div b) % 2 = 1 THEN b ELSE 0
                IN  both(1) + both(2) + both(4) + both(8) + both(16)

\* The states setLRU may leave: an index past the tables makes it any.
setLRU(p, way, state) ==
    LET leaf == BitAnd(way, NumLeafs(p))
    IN  IF leaf < NumLeafs(p) THEN {LeafLRU(NumLeafs(p), leaf, state)}
                              ELSE SUBSET UNION {mask[NumLeafs(p)][i] : i \in 1..NumLeafs(p)}

-----------------------------------------------------------------------------
(* The victim policies *)

Policies == {"LRU", "Random", "RandomNotMRU", "EV7", "PLRU"}

\* LRUReplacement, EV7_scheme_replacement and the trees know reserved ways.
KnowsReserved(p) == p.name \in {"LRU", "EV7", "PLRU"}

NewInfo(p) == [list |-> LruInfo(p.ways), mask |-> {}, trees |-> [t \in 0..p.top - 1 |-> {}]]

makeMRU(p, s, w) ==
    CASE p.name = "EV7"  -> [s EXCEPT !.mask = EV7MRU(p, @, w)]
      [] p.name = "PLRU" -> [s EXCEPT !.trees[w \div treeSize(p)] =
                                LeafMRU(NumLeafs(p), (w % treeSize(p)) % NumLeafs(p), @)]
      [] OTHER           -> [s EXCEPT !.list = ListMRU(@, w)]

\* The makeLRU of the EV7 scheme is lru_info's: it leaves the mask alone.
makeLRU(p, s, w) ==
    IF p.name = "PLRU"
    THEN LET t == w \div treeSize(p)
         IN  {[s EXCEPT !.trees[t] = x] : x \in setLRU(p, w % treeSize(p), s.trees[t])}
    ELSE {[s EXCEPT !.list = ListLRU(@, w)]}

\* The ways GetVictim may return.
GetVictim(p, s, reserved) ==
    CASE p.name = "LRU"          -> {ListVictim(s.list, reserved)}
      [] p.name = "Random"       -> WaysOf(p)
      [] p.name = "RandomNotMRU" -> {(1 + s.list.mru + r) % p.ways : r \in 0..p.ways - 2}
      [] p.name = "EV7"          -> {findFirstClear(p, s.mask, reserved)}
      [] p.name = "PLRU"         -> TreeVictims(p, s.trees, reserved)
=============================================================================
