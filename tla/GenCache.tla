------------------------------ MODULE GenCache ------------------------------
(***************************************************************************)
(* One set (index) of the caches of one level (gen_cache_class in cache.h),*)
(* their replacement information, and the lines that CACHE_MANAGER knows   *)
(* of for that level.  Warm lines turn cold misses into hits.              *)
(*                                                                         *)
(* The caches of a level share no line at the same time: "individual lines *)
(* are always accessed only by a single thread" (cache_manager_smp.h), so  *)
(* a lookup is one step.  Valid and dirty bits, owner ids and data are left*)
(* out: no decision of the cache depends on them.                          *)
(***************************************************************************)
EXTENDS ReplacementPolicy, SequencesExt

CONSTANTS
    Cache,        \* the caches of the level (LevelInstance)
    Tag,          \* tags of this index
    NoTag,        \* 0xdeadbeef
    Variants      \* policy, warm_percent, initial_warmed_state, Register, setClearLines

ASSUME CacheConstants ==
    /\ NoTag \notin Tag
    /\ \A v \in Variants :
          /\ v.policy.name \in Policies /\ v.policy.ways \in 1..31
          /\ v.policy.top \in Nat \ {0} /\ v.policy.bottom \in Nat \ {0}
          /\ v.policy.name # "LRU" => v.policy.ways > 1
          /\ v.policy.name = "PLRU" =>
                NumLeafs(v.policy) \in PLRULeafs
                /\ NumLeafs(v.policy) * v.policy.bottom * v.policy.top = v.policy.ways
          /\ v.caches \subseteq Cache /\ v.tags \subseteq Tag
          /\ v.warmPercent \in 0..100 /\ v.warmed \in {"Shared", "Exclusive", "Perfect"}

VARIABLES
    variant,
    line,                    \* TagArray[index]
    repl,                    \* LruArray[index], trees[index]
    state_,                  \* the caches that each line has an entry for
    clear_lines, activated,
    order                    \* history: ways by how recently they were used

vars == <<variant, line, repl, state_, clear_lines, activated, order>>

p     == variant.policy
Caches == variant.caches
Ways  == WaysOf(p)

\* The constructor.
Init ==
    /\ variant \in Variants
    /\ line = [c \in Caches |-> [w \in Ways |->
                  [tag |-> NoTag, status |-> IF variant.warmPercent > 0 THEN "Warm" ELSE "Invalid"]]]
    /\ repl = [c \in Caches |-> NewInfo(p)]
    /\ state_ = [t \in variant.tags |-> {}]
    /\ clear_lines = FALSE /\ activated = TRUE
    /\ order = [c \in Caches |-> [i \in 1..p.ways |-> p.ways - i]]

-----------------------------------------------------------------------------
(* CACHE_MANAGER *)

\* The manager after SetStatus(Level, c, index, tag, status).
Told(mgr, c, tag, status) ==
    IF ~activated \/ ~variant.registered \/ tag = NoTag THEN mgr
    ELSE IF status \in {"Invalid", "Reserved"} /\ clear_lines
         THEN [mgr EXCEPT ![tag] = @ \ {c}]
         ELSE [mgr EXCEPT ![tag] = @ \cup {c}]

\* GetStatus(Level, index, tag) # S_INVALID
Known(tag) == state_[tag] # {}

setClearLines ==
    /\ variant.clears /\ ~clear_lines
    /\ clear_lines' = TRUE
    /\ UNCHANGED <<variant, line, repl, state_, activated, order>>

deactivate ==
    /\ variant.registered /\ activated
    /\ activated' = FALSE
    /\ UNCHANGED <<variant, line, repl, state_, clear_lines, order>>

-----------------------------------------------------------------------------
(* Lines *)

WithTag(lines, tag) == {w \in Ways : lines[w].tag = tag}
HitWays(lines, tag) == {w \in WithTag(lines, tag) : lines[w].status \notin {"Invalid", "Reserved"}}
ReservedWays(lines) == {w \in Ways : lines[w].status = "Reserved"}

\* SetStatus: a perfect line stays perfect.
SetStatus(l, status) == [l EXCEPT !.status = IF @ = "Perfect" THEN @ ELSE status]

Filled(lines, w, tag, status) == [lines EXCEPT ![w] = SetStatus([@ EXCEPT !.tag = tag], status)]

\* Not warmFactor > rand_factor, which a warm_percent of 100 makes always true.
MayBeCold == variant.warmPercent < 100

\* Mutant: a line that a peer cache has is warmed too.
WarmsPeers(tag) == TRUE

Warms(tag) == ~Known(tag)

\* Mutant: a reserved line is not found.
FoundWaysValid(lines, tag) == HitWays(lines, tag)

\* The ways FindWay returns without warming one: a valid line before a reserved one.
FoundWays(lines, tag) ==
    IF HitWays(lines, tag) # {} THEN HitWays(lines, tag)
    ELSE WithTag(lines, tag) \cap ReservedWays(lines)

\* FindWay: the way found, the lines afterwards and whether one was warmed.
FindWay(c, tag, isProbe) ==
    LET ways == FoundWays(line[c], tag)
        warm == IF isProbe THEN {} ELSE {w \in Ways : line[c][w].status = "Warm"}
        found(w) == [way |-> w, lines |-> line[c], warmed |-> FALSE]
    IN  IF ways # {} THEN {found(Max(ways))}
        ELSE IF WithTag(line[c], tag) # {} \/ warm = {} THEN {found(NIL)}
        ELSE {[way |-> w, lines |-> Filled(line[c], w, tag, variant.warmed), warmed |-> TRUE] :
                 w \in {x \in warm : Warms(tag)}}
             \cup {[way |-> NIL, lines |-> Filled(line[c], w, tag, "Invalid"), warmed |-> FALSE] :
                      w \in {x \in warm : ~Warms(tag) \/ MayBeCold}}

\* GetVictimState: an invalid line first, then what the policy gives.
VictimWays(c, lines) ==
    LET invalid == {w \in Ways : lines[w].status = "Invalid"}
    IN  IF invalid # {} THEN {Min(invalid)} ELSE GetVictim(p, repl[c], ReservedWays(lines))

\* The ASSERTs of GetVictim: not all the ways may be reserved, and none of a
\* policy that does not support it.
MayGetVictim(lines) ==
    ReservedWays(lines) = {} \/ (KnowsReserved(p) /\ ReservedWays(lines) # Ways)

\* GetLineState
GetLineState(c, tag, isProbe) ==
    /\ \E f \in FindWay(c, tag, isProbe) :
          /\ line' = [line EXCEPT ![c] = f.lines]
          /\ state_' = IF f.warmed THEN Told(state_, c, tag, variant.warmed) ELSE state_
    /\ UNCHANGED <<variant, repl, clear_lines, activated, order>>

WarmUpFill(c, tag, replWay, status) ==
    /\ ~Known(tag)
    /\ \E f \in FindWay(c, tag, FALSE) :
          \/ /\ f.way # NIL
             /\ line' = [line EXCEPT ![c] = f.lines]
             /\ state_' = IF f.warmed THEN Told(state_, c, tag, variant.warmed) ELSE state_
          \/ /\ f.way = NIL
             /\ replWay = NIL => MayGetVictim(f.lines)
             /\ \E w \in (IF replWay = NIL THEN VictimWays(c, f.lines) ELSE {replWay}) :
                   /\ line' = [line EXCEPT ![c] = Filled(f.lines, w, tag, status)]
                   /\ state_' = Told(Told(state_, c, f.lines[w].tag, "Invalid"), c, tag, status)
    /\ UNCHANGED <<variant, repl, clear_lines, activated, order>>

\* A client changes the status of a line it has found and tells the manager; it
\* makes a reserved line valid only if no other cache has it.
ClientSetStatus(c, w, status) ==
    LET l == line[c][w]
    IN  /\ l.tag \in Tag /\ l.status # "Invalid"
        /\ l.status = "Reserved" /\ status = "Modified" => state_[l.tag] \subseteq {c}
        /\ line' = [line EXCEPT ![c][w] = SetStatus(@, status)]
        /\ state_' = Told(state_, c, l.tag, status)
        /\ UNCHANGED <<variant, repl, clear_lines, activated, order>>

ClearAllLines(c) ==
    /\ line' = [line EXCEPT ![c] = [w \in Ways |-> SetStatus(@[w], "Invalid")]]
    /\ UNCHANGED <<variant, repl, state_, clear_lines, activated, order>>

-----------------------------------------------------------------------------
(* Replacement *)

\* The policies whose makeMRU moves the way in the list of lru_info.
HasList == p.name \in {"LRU", "Random", "RandomNotMRU"}

ToHead(s, w) == <<w>> \o RemoveFirst(s, w)
ToTail(s, w) == Append(RemoveFirst(s, w), w)

MakeMRU(c, w) ==
    /\ repl' = [repl EXCEPT ![c] = makeMRU(p, @, w)]
    /\ order' = IF HasList THEN [order EXCEPT ![c] = ToHead(@, w)] ELSE order
    /\ UNCHANGED <<variant, line, state_, clear_lines, activated>>

MakeLRU(c, w) ==
    /\ \E s \in makeLRU(p, repl[c], w) : repl' = [repl EXCEPT ![c] = s]
    /\ order' = IF HasList THEN [order EXCEPT ![c] = ToTail(@, w)] ELSE order
    /\ UNCHANGED <<variant, line, state_, clear_lines, activated>>

-----------------------------------------------------------------------------
Next ==
    \/ setClearLines \/ deactivate
    \/ \E c \in Caches :
          \/ ClearAllLines(c)
          \/ \E tag \in variant.tags, isProbe \in BOOLEAN : GetLineState(c, tag, isProbe)
          \/ \E tag \in variant.tags, replWay \in Ways \cup {NIL} :
                WarmUpFill(c, tag, replWay, "Shared")
          \/ \E w \in Ways, status \in {"Modified", "Reserved", "Invalid"} :
                ClientSetStatus(c, w, status)
          \/ \E w \in Ways : MakeMRU(c, w) \/ MakeLRU(c, w)

Spec == Init /\ [][Next]_vars

-----------------------------------------------------------------------------
(* Properties *)

LineStatus == {"Perfect", "Warm", "Modified", "Exclusive", "Shared", "Invalid", "Reserved"}

TypeOK ==
    /\ variant \in Variants
    /\ line \in [Caches -> [Ways -> [tag : Tag \cup {NoTag}, status : LineStatus]]]
    /\ state_ \in [variant.tags -> SUBSET Caches]
    /\ clear_lines \in BOOLEAN /\ activated \in BOOLEAN

\* The ASSERTs of FindWay: no two ways of a cache hold the same valid line, and
\* none holds a reserved line twice, whatever was replaced, reserved or warmed.
NoLineTwice ==
    /\ TypeOK
    /\ \A c \in Caches, tag \in variant.tags :
          /\ Cardinality(HitWays(line[c], tag)) <= 1
          /\ Cardinality(WithTag(line[c], tag) \cap ReservedWays(line[c])) <= 1

\* "to avoid ending with the same line in 2+ caches" (CACHE_MANAGER): while the
\* manager is active, and forgets no line, no line is valid in two caches of a
\* level.
OneOwner ==
    activated /\ variant.registered /\ ~clear_lines =>
        \A tag \in variant.tags : Cardinality({c \in Caches : HitWays(line[c], tag) # {}}) <= 1

\* lru_info: following next from mru, or prev from lru, gives all the ways by
\* how recently they were used (the EV7 scheme does not keep its list).
ListIsRecency ==
    HasList => \A c \in Caches :
        LET l == repl[c].list
            n == p.ways
        IN  /\ l.mru = order[c][1] /\ l.lru = order[c][n]
            /\ \A i \in 1..n : /\ l.next[order[c][i]] = (IF i = n THEN NIL ELSE order[c][i + 1])
                               /\ l.prev[order[c][i]] = (IF i = 1 THEN NIL ELSE order[c][i - 1])

\* GetVictim returns a way that is not reserved whenever there is one: no ASSERT
\* of a policy fails.
VictimIsFree ==
    KnowsReserved(p) =>
        \A c \in Caches, rsvd \in SUBSET Ways :
            rsvd # Ways => LET v == GetVictim(p, repl[c], rsvd)
                           IN  v # {} /\ v \subseteq Ways \ rsvd

\* With no way reserved no policy but Random gives up the way just made MRU,
\* if a tree has another leaf, and LRU gives up the one just made LRU.
VictimFollowsUse ==
    [][\A c \in Caches : repl'[c] # repl[c] =>
          LET v == GetVictim(p, repl'[c], {})
          IN  \A w \in Ways :
                 /\ MakeMRU(c, w) /\ p.name # "Random" /\ p.ways > p.top * p.bottom => w \notin v
                 /\ MakeLRU(c, w) /\ p.name = "LRU" => v = {w}]_vars
=============================================================================
