--------------------------- MODULE GenCache_proofs ---------------------------
(***************************************************************************)
(* Proofs about GenCache, for any caches, ways, tags and warm percentage   *)
(* and every policy: no line is in a cache twice, and none is valid in two *)
(* caches of a level; the list of lru_info is the order of use, and what a *)
(* policy gives up is free and not what was just used.                     *)
(***************************************************************************)
EXTENDS GenCache, FiniteSetTheorems, WellFoundedInduction, TLAPS

-----------------------------------------------------------------------------
(* The inductive invariant *)

Lines == [Ways -> [tag : Tag \cup {NoTag}, status : LineStatus]]

\* The ways that hold a line or are reserved for it.
Present(lines, tag) == {w \in Ways : lines[w].tag = tag /\ lines[w].status # "Invalid"}

\* A line has one way, valid or reserved: a reserved way may become valid.
OneWay == \A c \in Caches, tag \in variant.tags : \A v, w \in Present(line[c], tag) : v = w

Managed == activated /\ variant.registered /\ ~clear_lines

\* The manager knows where a line is valid, and no line is in two caches.
OwnerKnown ==
    Managed =>
        \A tag \in variant.tags, c \in Caches : HitWays(line[c], tag) # {} =>
            c \in state_[tag] /\ \A d \in Caches : HitWays(line[d], tag) # {} => d = c

IInv == TypeOK /\ OneWay /\ OwnerKnown

-----------------------------------------------------------------------------
(* Lines *)

\* A way is in use for a line if it is valid or reserved.
LEMMA PresentIsFound ==
    ASSUME NEW lines \in Lines, NEW tag
    PROVE  /\ Present(lines, tag) = HitWays(lines, tag) \cup (WithTag(lines, tag) \cap ReservedWays(lines))
           /\ FoundWays(lines, tag) \subseteq Present(lines, tag)
           /\ FoundWays(lines, tag) = {} <=> Present(lines, tag) = {}
BY DEF Present, HitWays, WithTag, ReservedWays, FoundWays

\* A perfect line stays perfect when it is given a status.
LEMMA SetStatusOf ==
    ASSUME NEW l \in [tag : Tag \cup {NoTag}, status : LineStatus], NEW status \in LineStatus
    PROVE  /\ SetStatus(l, status) \in [tag : Tag \cup {NoTag}, status : LineStatus]
           /\ SetStatus(l, status).tag = l.tag
           /\ SetStatus(l, status).status = IF l.status = "Perfect" THEN "Perfect" ELSE status
BY DEF SetStatus

\* A way is filled with a line, or nothing is if there is no such way.
LEMMA FilledOf ==
    ASSUME NEW lines \in Lines, NEW w, NEW tag \in Tag, NEW status \in LineStatus
    PROVE  /\ Filled(lines, w, tag, status) \in Lines
           /\ \A v \in Ways \ {w} : Filled(lines, w, tag, status)[v] = lines[v]
           /\ w \in Ways =>
                 /\ Filled(lines, w, tag, status)[w].tag = tag
                 /\ Filled(lines, w, tag, status)[w].status =
                       IF lines[w].status = "Perfect" THEN "Perfect" ELSE status
<1>1. CASE w \in Ways
  <2> DEFINE l == [lines[w] EXCEPT !.tag = tag]
  <2>1. l \in [tag : Tag \cup {NoTag}, status : LineStatus] /\ l.tag = tag /\ l.status = lines[w].status
    BY <1>1 DEF Lines
  <2> HIDE DEF l
  <2>2. /\ SetStatus(l, status) \in [tag : Tag \cup {NoTag}, status : LineStatus]
        /\ SetStatus(l, status).tag = tag
        /\ SetStatus(l, status).status = IF lines[w].status = "Perfect" THEN "Perfect" ELSE status
    BY <2>1, SetStatusOf
  <2>3. Filled(lines, w, tag, status) = [lines EXCEPT ![w] = SetStatus(l, status)]
    BY DEF Filled, l
  <2> QED BY <1>1, <2>2, <2>3 DEF Lines
<1>2. CASE w \notin Ways
  <2>1. Filled(lines, w, tag, status) = lines
    BY <1>2 DEF Filled, Lines
  <2> QED BY <1>2, <2>1
<1> QED BY <1>1, <1>2

\* Filling a way with a line the cache does not hold: no other line appears,
\* and this one in that way only.
LEMMA FilledPresent ==
    ASSUME NEW lines \in Lines, NEW w, NEW tag \in Tag, NEW status \in LineStatus,
           Present(lines, tag) = {}, NEW other
    PROVE  /\ other # tag => Present(Filled(lines, w, tag, status), other) \subseteq Present(lines, other)
           /\ other # tag => HitWays(Filled(lines, w, tag, status), other) \subseteq HitWays(lines, other)
           /\ Present(Filled(lines, w, tag, status), tag) \subseteq {w}
           /\ status = "Invalid" /\ (w \in Ways => lines[w].status # "Perfect")
                 => Present(Filled(lines, w, tag, status), tag) = {}
<1> DEFINE new == Filled(lines, w, tag, status)
<1>1. /\ \A v \in Ways \ {w} : new[v] = lines[v]
      /\ w \in Ways => /\ new[w].tag = tag
                       /\ new[w].status = IF lines[w].status = "Perfect" THEN "Perfect" ELSE status
  BY FilledOf
<1> HIDE DEF new
<1>2. other # tag => Present(new, other) \subseteq Present(lines, other)
                     /\ HitWays(new, other) \subseteq HitWays(lines, other)
  BY <1>1 DEF Present, HitWays, WithTag
<1>3. \A v \in Ways \ {w} : v \notin Present(new, tag)
  BY <1>1 DEF Present
<1>4. Present(new, tag) \subseteq {w}
  BY <1>3 DEF Present
<1>5. status = "Invalid" /\ (w \in Ways => lines[w].status # "Perfect") => Present(new, tag) = {}
  BY <1>1, <1>4 DEF Present
<1> QED BY <1>2, <1>4, <1>5 DEF new

\* What FindWay returns: the way of the line and the lines as they were, a way
\* that has been warmed for a line no peer has, or none for a line that the
\* cache does not hold.
LEMMA FindWayOf ==
    ASSUME IInv, NEW c \in Caches, NEW tag \in variant.tags, NEW isProbe \in BOOLEAN,
           NEW f \in FindWay(c, tag, isProbe)
    PROVE  /\ f.lines \in Lines
           /\ \A other \in variant.tags : other # tag =>
                 /\ Present(f.lines, other) \subseteq Present(line[c], other)
                 /\ HitWays(f.lines, other) \subseteq HitWays(line[c], other)
           /\ \/ f.warmed = FALSE /\ f.lines = line[c] /\ (f.way = NIL => Present(f.lines, tag) = {})
              \/ f.warmed = FALSE /\ Present(f.lines, tag) = {}
              \/ f.warmed = TRUE /\ f.way # NIL /\ ~Known(tag) /\ \E w : Present(f.lines, tag) \subseteq {w}
<1> DEFINE ways == FoundWays(line[c], tag)
           warm == IF isProbe THEN {} ELSE {w \in Ways : line[c][w].status = "Warm"}
<1>1. line[c] \in Lines /\ tag \in Tag
  BY CacheConstants DEF IInv, TypeOK, Lines
<1>2. CASE ways # {}
  <2>1. f = [way |-> Max(ways), lines |-> line[c], warmed |-> FALSE]
    BY <1>2 DEF FindWay
  <2>2. PICK w \in ways : ways = {w}
    <3>1. PICK w : w \in ways
      BY <1>2
    <3>2. ways \subseteq Present(line[c], tag)
      BY <1>1, PresentIsFound
    <3>3. \A v \in ways : v = w
      BY <3>1, <3>2 DEF IInv, OneWay
    <3> QED BY <3>1, <3>3
  <2>3. w \in Int /\ w # NIL
    <3>1. w \in Ways
      BY <1>1, PresentIsFound DEF Present
    <3>2. variant.policy.ways \in Int
      BY CacheConstants DEF IInv, TypeOK
    <3> QED BY <3>1, <3>2 DEF Ways, WaysOf, p, NIL
  <2>4. Max(ways) = w
    BY <2>2, <2>3 DEF Max
  <2> QED BY <1>1, <2>1, <2>3, <2>4
<1>3. CASE ways = {} /\ (WithTag(line[c], tag) # {} \/ warm = {})
  <2>1. f = [way |-> NIL, lines |-> line[c], warmed |-> FALSE]
    BY <1>3 DEF FindWay
  <2> QED BY <1>1, <1>3, <2>1, PresentIsFound
<1>4. CASE ways = {} /\ ~(WithTag(line[c], tag) # {} \/ warm = {})
  <2>0. Present(line[c], tag) = {}
    BY <1>1, <1>4, PresentIsFound
  <2>1. PICK w \in warm :
           \/ f = [way |-> w, lines |-> Filled(line[c], w, tag, variant.warmed), warmed |-> TRUE] /\ Warms(tag)
           \/ f = [way |-> NIL, lines |-> Filled(line[c], w, tag, "Invalid"), warmed |-> FALSE]
    BY <1>4 DEF FindWay
  <2>2. w \in Ways /\ line[c][w].status = "Warm" /\ w # NIL
    <3>1. variant.policy.ways \in Int
      BY CacheConstants DEF IInv, TypeOK
    <3> QED BY <2>1, <3>1 DEF Ways, WaysOf, p, NIL
  <2>3. variant.warmed \in LineStatus /\ "Invalid" \in LineStatus
    BY CacheConstants DEF IInv, TypeOK, LineStatus
  <2>4. CASE f = [way |-> w, lines |-> Filled(line[c], w, tag, variant.warmed), warmed |-> TRUE] /\ Warms(tag)
    <3> DEFINE new == Filled(line[c], w, tag, variant.warmed)
    <3>1. /\ new \in Lines
          /\ Present(new, tag) \subseteq {w}
      BY <1>1, <2>0, <2>3, FilledOf, FilledPresent
    <3>2. \A other \in variant.tags : other # tag =>
             /\ Present(new, other) \subseteq Present(line[c], other)
             /\ HitWays(new, other) \subseteq HitWays(line[c], other)
      BY <1>1, <2>0, <2>3, FilledPresent
    <3> HIDE DEF new
    <3>3. f.way = w /\ f.lines = new /\ f.warmed = TRUE /\ ~Known(tag)
      BY <2>4 DEF new, Warms
    <3> QED BY <2>2, <3>1, <3>2, <3>3
  <2>5. CASE f = [way |-> NIL, lines |-> Filled(line[c], w, tag, "Invalid"), warmed |-> FALSE]
    BY <1>1, <2>0, <2>2, <2>3, <2>5, FilledOf, FilledPresent
  <2> QED BY <2>1, <2>4, <2>5
<1> QED BY <1>2, <1>3, <1>4

-----------------------------------------------------------------------------
(* The manager *)

\* While it is active and forgets nothing, the manager learns of every line.
LEMMA ToldOf ==
    ASSUME TypeOK, NEW mgr \in [variant.tags -> SUBSET Caches], NEW c \in Caches, NEW tag, NEW status
    PROVE  /\ Told(mgr, c, tag, status) \in [variant.tags -> SUBSET Caches]
           /\ Managed => \A t \in variant.tags : mgr[t] \subseteq Told(mgr, c, tag, status)[t]
           /\ Managed /\ tag # NoTag /\ tag \in variant.tags => c \in Told(mgr, c, tag, status)[tag]
BY DEF Told, Managed

\* What FindWay, or a fill after it, does to one cache preserves the invariant.
LEMMA OneLineChanges ==
    ASSUME IInv, NEW c \in Caches, NEW tag, NEW lines \in Lines,
           line' = [line EXCEPT ![c] = lines], state_' \in [variant.tags -> SUBSET Caches],
           UNCHANGED <<variant, clear_lines, activated>>,
           \A other \in variant.tags : other # tag =>
              /\ Present(lines, other) \subseteq Present(line[c], other)
              /\ HitWays(lines, other) \subseteq HitWays(line[c], other),
           Managed => \A t \in variant.tags : state_[t] \subseteq state_'[t],
           tag \in variant.tags =>
              /\ \A v, w \in Present(lines, tag) : v = w
              /\ Managed /\ HitWays(lines, tag) # {} => c \in state_'[tag]
              /\ HitWays(lines, tag) # {} => HitWays(line[c], tag) # {} \/ state_[tag] \subseteq {c}
    PROVE  IInv'
<1>1. line'[c] = lines /\ \A d \in Caches \ {c} : line'[d] = line[d]
  BY DEF IInv, TypeOK
<1>2. Ways' = Ways /\ Caches' = Caches /\ (Managed' <=> Managed)
      /\ \A l, t : Present(l, t)' = Present(l', t') /\ HitWays(l, t)' = HitWays(l', t')
  BY DEF Ways, WaysOf, p, Caches, Managed, Present, HitWays, WithTag
<1>3. TypeOK'
  BY <1>1, <1>2 DEF IInv, TypeOK, Lines
<1>4. OneWay'
  BY <1>1, <1>2 DEF IInv, OneWay
<1>5. OwnerKnown'
  <2> SUFFICES ASSUME Managed, NEW t \in variant.tags, NEW d \in Caches, HitWays(line'[d], t) # {}
               PROVE  d \in state_'[t] /\ \A e \in Caches : HitWays(line'[e], t) # {} => e = d
    BY <1>2 DEF OwnerKnown
  <2>1. \A e \in Caches : HitWays(line[e], t) # {} => e \in state_[t] /\ e \in state_'[t]
    BY DEF IInv, OwnerKnown
  <2>2. \A e, g \in Caches : HitWays(line[e], t) # {} /\ HitWays(line[g], t) # {} => e = g
    BY DEF IInv, OwnerKnown
  <2>3. CASE t # tag
    <3>1. \A e \in Caches : HitWays(line'[e], t) # {} => HitWays(line[e], t) # {}
      BY <1>1, <2>3
    <3> QED BY <2>1, <2>2, <3>1
  <2>4. CASE t = tag
    <3>1. \A e \in Caches : HitWays(line'[e], t) # {} => HitWays(line[e], t) # {} \/ (e = c /\ state_[t] \subseteq {c})
      BY <1>1, <2>4
    <3>2. HitWays(line'[c], t) # {} => c \in state_'[t]
      BY <1>1, <2>4
    <3> QED BY <2>1, <2>2, <3>1, <3>2
  <2> QED BY <2>3, <2>4
<1> QED BY <1>3, <1>4, <1>5 DEF IInv

-----------------------------------------------------------------------------
(* The steps *)

LEMMA StepManager ==
    ASSUME IInv, setClearLines \/ deactivate
    PROVE  IInv'
<1>1. UNCHANGED <<variant, line, state_>> /\ (Managed' => Managed)
      /\ clear_lines' \in BOOLEAN /\ activated' \in BOOLEAN
  BY DEF IInv, TypeOK, Managed, setClearLines, deactivate
<1>2. Ways' = Ways /\ Caches' = Caches
      /\ \A l, t : Present(l, t)' = Present(l', t') /\ HitWays(l, t)' = HitWays(l', t')
  BY <1>1 DEF Ways, WaysOf, p, Caches, Present, HitWays, WithTag
<1>3. TypeOK'
  BY <1>1, <1>2 DEF IInv, TypeOK
<1>4. OneWay'
  BY <1>1, <1>2 DEF IInv, OneWay
<1>5. OwnerKnown'
  BY <1>1, <1>2 DEF IInv, OwnerKnown
<1> QED BY <1>3, <1>4, <1>5 DEF IInv

\* A lookup adds a line to a way only when no way holds it and no owner is known.
LEMMA StepGetLineState ==
    ASSUME IInv, NEW c \in Caches, NEW tag \in variant.tags, NEW isProbe \in BOOLEAN,
           GetLineState(c, tag, isProbe)
    PROVE  IInv'
<1>1. PICK f \in FindWay(c, tag, isProbe) :
         /\ line' = [line EXCEPT ![c] = f.lines]
         /\ state_' = IF f.warmed THEN Told(state_, c, tag, variant.warmed) ELSE state_
  BY DEF GetLineState
<1>2. UNCHANGED <<variant, clear_lines, activated>>
  BY DEF GetLineState
<1>3. tag # NoTag /\ state_ \in [variant.tags -> SUBSET Caches]
  BY CacheConstants DEF IInv, TypeOK
<1>4. /\ state_' \in [variant.tags -> SUBSET Caches]
      /\ Managed => \A t \in variant.tags : state_[t] \subseteq state_'[t]
      /\ Managed /\ f.warmed => c \in state_'[tag]
  BY <1>1, <1>3, ToldOf DEF IInv
<1>5. HitWays(f.lines, tag) \subseteq Present(f.lines, tag)
  BY DEF HitWays, WithTag, Present
<1>6. Managed /\ HitWays(line[c], tag) # {} => c \in state_[tag]
  BY DEF IInv, OwnerKnown
<1>7. /\ \A v, w \in Present(f.lines, tag) : v = w
      /\ Managed /\ HitWays(f.lines, tag) # {} => c \in state_'[tag]
      /\ HitWays(f.lines, tag) # {} => HitWays(line[c], tag) # {} \/ state_[tag] \subseteq {c}
  <2>1. CASE f.warmed = FALSE /\ f.lines = line[c]
    BY <1>4, <1>6, <2>1 DEF IInv, OneWay
  <2>2. CASE f.warmed = FALSE /\ Present(f.lines, tag) = {}
    BY <1>5, <2>2
  <2>3. CASE f.warmed = TRUE /\ ~Known(tag) /\ \E w : Present(f.lines, tag) \subseteq {w}
    <3>1. state_[tag] = {} /\ (Managed => c \in state_'[tag])
      BY <1>4, <2>3 DEF Known
    <3>2. \A v, w \in Present(f.lines, tag) : v = w
      BY <2>3
    <3> QED BY <3>1, <3>2
  <2>4. \/ f.warmed = FALSE /\ f.lines = line[c]
        \/ f.warmed = FALSE /\ Present(f.lines, tag) = {}
        \/ f.warmed = TRUE /\ ~Known(tag) /\ \E w : Present(f.lines, tag) \subseteq {w}
    <3>1. \/ f.warmed = FALSE /\ f.lines = line[c] /\ (f.way = NIL => Present(f.lines, tag) = {})
          \/ f.warmed = FALSE /\ Present(f.lines, tag) = {}
          \/ f.warmed = TRUE /\ f.way # NIL /\ ~Known(tag) /\ \E w : Present(f.lines, tag) \subseteq {w}
      BY FindWayOf
    <3> QED BY <3>1
  <2> QED BY <2>1, <2>2, <2>3, <2>4
<1>8. /\ f.lines \in Lines
      /\ \A other \in variant.tags : other # tag =>
            /\ Present(f.lines, other) \subseteq Present(line[c], other)
            /\ HitWays(f.lines, other) \subseteq HitWays(line[c], other)
  BY FindWayOf, Zenon
<1>9. line' = [line EXCEPT ![c] = f.lines]
  BY <1>1
<1> HIDE DEF IInv
<1> QED BY <1>2, <1>4, <1>7, <1>8, <1>9, OneLineChanges

\* WarmUpFill adds a line only when the manager finds it nowhere.
LEMMA StepWarmUpFill ==
    ASSUME IInv, NEW c \in Caches, NEW tag \in variant.tags, NEW replWay,
           WarmUpFill(c, tag, replWay, "Shared")
    PROVE  IInv'
<1>0. UNCHANGED <<variant, clear_lines, activated>> /\ state_[tag] = {}
  BY DEF WarmUpFill, Known
<1>1. tag \in Tag /\ tag # NoTag /\ state_ \in [variant.tags -> SUBSET Caches] /\ "Shared" \in LineStatus
  BY CacheConstants DEF IInv, TypeOK, LineStatus
<1>2. PICK f \in FindWay(c, tag, FALSE) :
         \/ /\ f.way # NIL
            /\ line' = [line EXCEPT ![c] = f.lines]
            /\ state_' = IF f.warmed THEN Told(state_, c, tag, variant.warmed) ELSE state_
         \/ /\ f.way = NIL
            /\ \E w : /\ line' = [line EXCEPT ![c] = Filled(f.lines, w, tag, "Shared")]
                      /\ state_' = Told(Told(state_, c, f.lines[w].tag, "Invalid"), c, tag, "Shared")
  BY DEF WarmUpFill
<1>3. CASE f.way # NIL
  <2>1. GetLineState(c, tag, FALSE)
    BY <1>2, <1>3 DEF GetLineState, WarmUpFill
  <2> QED BY <2>1, StepGetLineState
<1>4. CASE f.way = NIL
  <2>1. PICK w : /\ line' = [line EXCEPT ![c] = Filled(f.lines, w, tag, "Shared")]
                 /\ state_' = Told(Told(state_, c, f.lines[w].tag, "Invalid"), c, tag, "Shared")
    BY <1>2, <1>4
  <2>2. /\ f.lines \in Lines /\ Present(f.lines, tag) = {}
        /\ \A other \in variant.tags : other # tag =>
              /\ Present(f.lines, other) \subseteq Present(line[c], other)
              /\ HitWays(f.lines, other) \subseteq HitWays(line[c], other)
    BY <1>4, FindWayOf
  <2> DEFINE lines == Filled(f.lines, w, tag, "Shared")
  <2>3. /\ lines \in Lines
        /\ Present(lines, tag) \subseteq {w}
        /\ \A other \in variant.tags : other # tag =>
              /\ Present(lines, other) \subseteq Present(f.lines, other)
              /\ HitWays(lines, other) \subseteq HitWays(f.lines, other)
    BY <1>1, <2>2, FilledOf, FilledPresent
  <2> HIDE DEF lines
  <2> DEFINE replaced == Told(state_, c, f.lines[w].tag, "Invalid")
  <2>4. /\ replaced \in [variant.tags -> SUBSET Caches]
        /\ Managed => \A t \in variant.tags : state_[t] \subseteq replaced[t]
    BY <1>1, ToldOf DEF IInv
  <2> HIDE DEF replaced
  <2>5. state_' = Told(replaced, c, tag, "Shared")
    BY <2>1 DEF replaced
  <2>6. /\ state_' \in [variant.tags -> SUBSET Caches]
        /\ Managed => \A t \in variant.tags : replaced[t] \subseteq state_'[t]
        /\ Managed => c \in state_'[tag]
    BY <1>1, <2>4, <2>5, ToldOf DEF IInv
  <2>7. Managed => \A t \in variant.tags : state_[t] \subseteq state_'[t]
    BY <2>4, <2>6
  <2>8. line' = [line EXCEPT ![c] = lines]
    BY <2>1 DEF lines
  <2>9. \A other \in variant.tags : other # tag =>
           /\ Present(lines, other) \subseteq Present(line[c], other)
           /\ HitWays(lines, other) \subseteq HitWays(line[c], other)
    BY <2>2, <2>3
  <2>10. \A u, v \in Present(lines, tag) : u = v
    BY <2>3
  <2> QED BY <1>0, <2>3, <2>6, <2>7, <2>8, <2>9, <2>10, OneLineChanges
<1> QED BY <1>3, <1>4

\* A client gives a state to a line that is present, or takes one away.
LEMMA StepClientSetStatus ==
    ASSUME IInv, NEW c \in Caches, NEW w \in Ways, NEW status \in {"Modified", "Reserved", "Invalid"},
           ClientSetStatus(c, w, status)
    PROVE  IInv'
<1> DEFINE l == line[c][w]
           new == [line[c] EXCEPT ![w] = SetStatus(l, status)]
<1>1. UNCHANGED <<variant, clear_lines, activated>>
  BY DEF ClientSetStatus
<1>2. /\ l.tag \in Tag /\ l.status # "Invalid"
      /\ l.status = "Reserved" /\ status = "Modified" => state_[l.tag] \subseteq {c}
      /\ line' = [line EXCEPT ![c] = new]
      /\ state_' = Told(state_, c, l.tag, status)
  BY DEF ClientSetStatus
<1>3. /\ line[c] \in Lines /\ status \in LineStatus /\ state_ \in [variant.tags -> SUBSET Caches]
      /\ l.tag # NoTag
  BY <1>2, CacheConstants DEF IInv, TypeOK, Lines, LineStatus
<1>4. /\ new \in Lines
      /\ \A v \in Ways \ {w} : new[v] = line[c][v]
      /\ new[w].tag = l.tag
      /\ new[w].status = IF l.status = "Perfect" THEN "Perfect" ELSE status
  <2>1. /\ SetStatus(l, status) \in [tag : Tag \cup {NoTag}, status : LineStatus]
        /\ SetStatus(l, status).tag = l.tag
        /\ SetStatus(l, status).status = IF l.status = "Perfect" THEN "Perfect" ELSE status
    BY <1>3, SetStatusOf DEF Lines
  <2> QED BY <1>3, <2>1 DEF Lines
<1>5. /\ state_' \in [variant.tags -> SUBSET Caches]
      /\ Managed => \A t \in variant.tags : state_[t] \subseteq state_'[t]
      /\ Managed /\ l.tag \in variant.tags => c \in state_'[l.tag]
  BY <1>2, <1>3, ToldOf DEF IInv
<1> DEFINE tag == l.tag
<1>6. \A other \in variant.tags : other # tag =>
         /\ Present(new, other) \subseteq Present(line[c], other)
         /\ HitWays(new, other) \subseteq HitWays(line[c], other)
  BY <1>4 DEF Present, HitWays, WithTag
<1>7. Present(new, tag) \subseteq Present(line[c], tag)
  BY <1>2, <1>4 DEF Present
<1>8. HitWays(new, tag) # {} => HitWays(line[c], tag) # {} \/ state_[tag] \subseteq {c}
  <2>1. CASE l.status = "Reserved" /\ status # "Modified"
    <3>1. HitWays(new, tag) \subseteq HitWays(line[c], tag)
      BY <1>4, <2>1 DEF HitWays, WithTag
    <3> QED BY <3>1
  <2>2. CASE l.status # "Reserved"
    BY <1>2, <2>2 DEF HitWays, WithTag
  <2> QED BY <1>2, <2>1, <2>2
<1>9. tag \in variant.tags => \A u, v \in Present(new, tag) : u = v
  BY <1>7 DEF IInv, OneWay
<1> HIDE DEF new, l
<1> QED BY <1>1, <1>2, <1>4, <1>5, <1>6, <1>8, <1>9, OneLineChanges

\* Invalidating a cache takes lines away only.
LEMMA StepClearAllLines ==
    ASSUME IInv, NEW c \in Caches, ClearAllLines(c)
    PROVE  IInv'
<1> DEFINE new == [w \in Ways |-> SetStatus(line[c][w], "Invalid")]
<1>1. /\ line' = [line EXCEPT ![c] = new]
      /\ UNCHANGED <<variant, state_, clear_lines, activated>>
  BY DEF ClearAllLines
<1>2. line[c] \in Lines /\ "Invalid" \in LineStatus /\ NoTag \notin variant.tags
      /\ state_ \in [variant.tags -> SUBSET Caches]
  BY CacheConstants DEF IInv, TypeOK, Lines, LineStatus
<1>3. \A w \in Ways : /\ new[w] \in [tag : Tag \cup {NoTag}, status : LineStatus]
                     /\ new[w].tag = line[c][w].tag
                     /\ new[w].status = IF line[c][w].status = "Perfect" THEN "Perfect" ELSE "Invalid"
  BY <1>2, SetStatusOf DEF Lines
<1>4. new \in Lines
  BY <1>3 DEF Lines
<1> HIDE DEF new
<1>5. \A t \in variant.tags : /\ Present(new, t) \subseteq Present(line[c], t)
                             /\ HitWays(new, t) \subseteq HitWays(line[c], t)
  BY <1>3 DEF Present, HitWays, WithTag
<1> QED BY <1>1, <1>2, <1>4, <1>5, OneLineChanges

\* The replacement information decides what is replaced and nothing else here.
LEMMA StepReplacement ==
    ASSUME IInv, UNCHANGED <<variant, line, state_, clear_lines, activated>>
    PROVE  IInv'
<1>1. Ways' = Ways /\ Caches' = Caches /\ Managed' = Managed
      /\ \A l, t : Present(l, t)' = Present(l', t') /\ HitWays(l, t)' = HitWays(l', t')
  BY DEF Ways, WaysOf, p, Caches, Managed, Present, HitWays, WithTag
<1>2. TypeOK'
  BY <1>1 DEF IInv, TypeOK
<1>3. OneWay'
  BY <1>1 DEF IInv, OneWay
<1>4. OwnerKnown'
  BY <1>1 DEF IInv, OwnerKnown
<1> QED BY <1>2, <1>3, <1>4 DEF IInv

-----------------------------------------------------------------------------
(* Theorems *)

\* A new cache holds no line: all its ways have NoTag.
LEMMA InitInv == Init => IInv
<1> SUFFICES ASSUME Init PROVE IInv
  OBVIOUS
<1>1. TypeOK
  BY DEF Init, TypeOK, LineStatus
<1>2. \A c \in Caches, tag \in variant.tags : Present(line[c], tag) = {} /\ HitWays(line[c], tag) = {}
  <2>1. NoTag \notin variant.tags
    BY CacheConstants DEF Init
  <2>2. \A c \in Caches, w \in Ways : line[c][w].tag = NoTag
    BY DEF Init
  <2> QED BY <2>1, <2>2 DEF Present, HitWays, WithTag
<1>3. OneWay
  BY <1>2 DEF OneWay
<1>4. OwnerKnown
  BY <1>2 DEF OwnerKnown
<1> QED BY <1>1, <1>3, <1>4 DEF IInv

\* Every operation of the cache and of the manager preserves the invariant.
LEMMA StepInv == IInv /\ [Next]_vars => IInv'
<1> SUFFICES ASSUME IInv, [Next]_vars PROVE IInv'
  OBVIOUS
<1>1. CASE setClearLines \/ deactivate
  BY <1>1, StepManager
<1>2. CASE \E c \in Caches : ClearAllLines(c)
  BY <1>2, StepClearAllLines
<1>3. CASE \E c \in Caches, tag \in variant.tags, isProbe \in BOOLEAN : GetLineState(c, tag, isProbe)
  BY <1>3, StepGetLineState
<1>4. CASE \E c \in Caches, tag \in variant.tags, replWay \in Ways \cup {NIL} : WarmUpFill(c, tag, replWay, "Shared")
  BY <1>4, StepWarmUpFill
<1>5. CASE \E c \in Caches, w \in Ways, status \in {"Modified", "Reserved", "Invalid"} : ClientSetStatus(c, w, status)
  BY <1>5, StepClientSetStatus
<1>6. CASE \E c \in Caches, w \in Ways : MakeMRU(c, w) \/ MakeLRU(c, w)
  <2>1. UNCHANGED <<variant, line, state_, clear_lines, activated>>
    BY <1>6 DEF MakeMRU, MakeLRU
  <2> QED BY <2>1, StepReplacement
<1>7. CASE UNCHANGED vars
  BY <1>7, StepReplacement DEF vars
<1> QED BY <1>1, <1>2, <1>3, <1>4, <1>5, <1>6, <1>7 DEF Next

\* The cache's lines and the manager keep their invariant, whatever is looked
\* up, warmed, filled, reserved, invalidated or forgotten.
THEOREM Inductive == Spec => []IInv
BY InitInv, StepInv, PTL DEF Spec

\* A set whose members are all the same one has at most one.
LEMMA AtMostOne ==
    ASSUME NEW S, \A v, w \in S : v = w
    PROVE  Cardinality(S) <= 1
<1>1. CASE S = {}
  BY <1>1, FS_EmptySet
<1>2. CASE S # {}
  <2>1. PICK w : w \in S
    BY <1>2
  <2>2. S = {w}
    BY <2>1
  <2>3. Cardinality({w}) = 1
    BY FS_Singleton
  <2> QED BY <2>2, <2>3
<1> QED BY <1>1, <1>2

\* No lookup finds a line in two ways, nor reserved twice: the ASSERTs of
\* FindWay hold for any number of ways and any policy.
THEOREM NoWayTwice == Spec => []NoLineTwice
<1>1. IInv => NoLineTwice
  <2> SUFFICES ASSUME IInv, NEW c \in Caches, NEW tag \in variant.tags
               PROVE  /\ Cardinality(HitWays(line[c], tag)) <= 1
                      /\ Cardinality(WithTag(line[c], tag) \cap ReservedWays(line[c])) <= 1
    BY DEF IInv, NoLineTwice
  <2>1. \A v, w \in Present(line[c], tag) : v = w
    BY DEF IInv, OneWay
  <2>2. /\ HitWays(line[c], tag) \subseteq Present(line[c], tag)
        /\ WithTag(line[c], tag) \cap ReservedWays(line[c]) \subseteq Present(line[c], tag)
    BY DEF Present, HitWays, WithTag, ReservedWays
  <2> QED BY <2>1, <2>2, AtMostOne
<1> QED BY <1>1, Inductive, PTL

\* While CACHE_MANAGER is active and forgets no line, no line is valid in two of
\* the caches of a level, however many there are.
THEOREM NoLineShared == Spec => []OneOwner
<1>1. IInv => OneOwner
  <2> SUFFICES ASSUME IInv, Managed, NEW tag \in variant.tags
               PROVE  Cardinality({c \in Caches : HitWays(line[c], tag) # {}}) <= 1
    BY DEF OneOwner, Managed
  <2>1. \A c, d \in {e \in Caches : HitWays(line[e], tag) # {}} : c = d
    BY DEF IInv, OwnerKnown
  <2> QED BY <2>1, AtMostOne
<1> QED BY <1>1, Inductive, PTL

-----------------------------------------------------------------------------
(* Sets of natural numbers *)

\* A set of natural numbers has a least one.
LEMMA LeastOf ==
    ASSUME NEW S \in SUBSET Nat, S # {}
    PROVE  \E n \in S : \A m \in S : n <= m
<1> DEFINE R == {x \in Nat \X Nat : x[1] < x[2]}
<1>1. OpToRel(<, Nat) = R
  BY DEF OpToRel
<1>2. IsWellFoundedOn(R, Nat)
  BY <1>1, NatLessThanWellFounded
<1>3. PICK n \in S : \A m \in S : ~(<<m, n>> \in R)
  <2> HIDE DEF R
  <2> QED BY <1>2, WFMin
<1>4. ASSUME NEW m \in S PROVE n <= m
  <2>1. <<m, n>> \in Nat \X Nat /\ m \in Nat /\ n \in Nat
    OBVIOUS
  <2>2. ~(m < n)
    BY <1>3, <2>1
  <2> QED BY <2>1, <2>2
<1> QED BY <1>4

\* Min is that one.
LEMMA MinIsLeast ==
    ASSUME NEW S \in SUBSET Nat, S # {}
    PROVE  Min(S) \in S /\ \A m \in S : Min(S) <= m
BY LeastOf DEF Min

\* A property that holds at 0, and at i + 1 if it does at i, holds up to n.
LEMMA UpTo ==
    ASSUME NEW n \in Nat, NEW S, 0 \in S, \A i \in 0..n - 1 : i \in S => i + 1 \in S
    PROVE  \A i \in 0..n : i \in S
<1> DEFINE bad == {i \in 0..n : i \notin S}
<1>1. ASSUME bad # {} PROVE FALSE
  <2>1. PICK i \in bad : \A m \in bad : i <= m
    <3>1. bad \in SUBSET Nat
      OBVIOUS
    <3> HIDE DEF bad
    <3> QED BY <1>1, <3>1, LeastOf
  <2>2. i \in 0..n /\ i \notin S /\ i # 0 /\ i - 1 \in 0..n - 1
    OBVIOUS
  <2>3. i - 1 \notin bad
    BY <2>1, <2>2
  <2>4. i - 1 \in S
    BY <2>2, <2>3
  <2>5. (i - 1) + 1 \in S
    BY <2>2, <2>4
  <2> QED BY <2>2, <2>5
<1> QED BY <1>1

-----------------------------------------------------------------------------
(* The list of lru_info as an order of the ways *)

\* The n ways in an order.
Ordering(o, n) ==
    /\ o \in Seq(0..n - 1) /\ Len(o) = n
    /\ \A i, j \in 1..n : o[i] = o[j] => i = j
    /\ \A w \in 0..n - 1 : \E i \in 1..n : o[i] = w

\* The list gives them in this order.
Linked(l, o, n) ==
    /\ l.next \in [0..n - 1 -> Int] /\ l.prev \in [0..n - 1 -> Int]
    /\ l = [next |-> l.next, prev |-> l.prev, mru |-> o[1], lru |-> o[n]]
    /\ \A i \in 1..n : /\ l.next[o[i]] = (IF i = n THEN NIL ELSE o[i + 1])
                       /\ l.prev[o[i]] = (IF i = 1 THEN NIL ELSE o[i - 1])

\* What SubSeq does, element by element.
LEMMA Slices ==
    ASSUME NEW S, NEW s \in Seq(S), NEW a \in 1..Len(s) + 1, NEW b \in 0..Len(s), b >= a - 1
    PROVE  /\ SubSeq(s, a, b) \in Seq(S) /\ Len(SubSeq(s, a, b)) = b - a + 1
           /\ \A i \in 1..b - a + 1 : SubSeq(s, a, b)[i] = s[a + i - 1]
OBVIOUS

\* A sequence after another.
LEMMA Joined ==
    ASSUME NEW S, NEW s \in Seq(S), NEW t \in Seq(S)
    PROVE  /\ s \o t \in Seq(S) /\ Len(s \o t) = Len(s) + Len(t)
           /\ \A i \in 1..Len(s) : (s \o t)[i] = s[i]
           /\ \A i \in 1..Len(t) : (s \o t)[Len(s) + i] = t[i]
OBVIOUS

\* The way at place k taken out of the order.
LEMMA Removed ==
    ASSUME NEW n \in Nat, NEW o, Ordering(o, n), NEW k \in 1..n
    PROVE  /\ RemoveFirst(o, o[k]) \in Seq(0..n - 1) /\ Len(RemoveFirst(o, o[k])) = n - 1
           /\ \A i \in 1..k - 1 : RemoveFirst(o, o[k])[i] = o[i]
           /\ \A i \in k..n - 1 : RemoveFirst(o, o[k])[i] = o[i + 1]
<1> DEFINE I == {i \in 1..Len(o) : o[i] = o[k]}
           u == SubSeq(o, 1, k - 1)
           v == SubSeq(o, k + 1, n)
<1>1. I = {k} /\ k \in Int
  BY DEF Ordering
<1>2. Min(I) = k /\ I # {}
  BY <1>1 DEF Min
<1>3. \E i \in 1..Len(o) : o[i] = o[k]
  BY DEF Ordering
<1>4. RemoveFirst(o, o[k]) = RemoveAt(o, IF I # {} THEN Min(I) ELSE 0)
  BY <1>3 DEF RemoveFirst, SelectInSeq
<1>5. RemoveFirst(o, o[k]) = u \o v
  <2> HIDE DEF I
  <2> QED BY <1>2, <1>4 DEF RemoveAt, Ordering
<1>6. o \in Seq(0..n - 1) /\ Len(o) = n /\ k \in 1..n
  BY DEF Ordering
<1>7. u \in Seq(0..n - 1) /\ Len(u) = k - 1 /\ \A i \in 1..k - 1 : u[i] = o[i]
  BY <1>6, Slices
<1>8. v \in Seq(0..n - 1) /\ Len(v) = n - k /\ \A i \in 1..n - k : v[i] = o[k + i]
  BY <1>6, Slices
<1> HIDE DEF u, v
<1>9. /\ u \o v \in Seq(0..n - 1) /\ Len(u \o v) = Len(u) + Len(v)
      /\ \A i \in 1..Len(u) : (u \o v)[i] = u[i]
      /\ \A i \in 1..Len(v) : (u \o v)[Len(u) + i] = v[i]
  <2> DEFINE S == 0..n - 1
  <2>1. u \in Seq(S) /\ v \in Seq(S)
    BY <1>7, <1>8
  <2> HIDE DEF S
  <2>2. u \o v \in Seq(S)
    BY <2>1
  <2> QED BY <2>1, <2>2, Joined DEF S
<1>10. ASSUME NEW i \in k..n - 1 PROVE (u \o v)[i] = o[i + 1]
  <2> DEFINE j == i - k + 1
  <2>1. j \in 1..n - k /\ (k - 1) + j = i /\ k + j = i + 1
    OBVIOUS
  <2> HIDE DEF j
  <2> QED BY <2>1, <1>7, <1>8, <1>9
<1> QED BY <1>5, <1>7, <1>8, <1>9, <1>10

\* The order in which the way at place i was at place g[i].
Permuted(new, o, g, n) ==
    /\ new \in Seq(0..n - 1) /\ Len(new) = n
    /\ g \in [1..n -> 1..n] /\ \A i \in 1..n : new[i] = o[g[i]]
    /\ \A i, j \in 1..n : g[i] = g[j] => i = j
    /\ \A m \in 1..n : \E i \in 1..n : g[i] = m

\* An order of the ways stays one when its places are permuted.
LEMMA Rearranged ==
    ASSUME NEW n, NEW o, Ordering(o, n), NEW new, NEW g, Permuted(new, o, g, n)
    PROVE  Ordering(new, n)
<1> USE DEF Permuted
<1>1. ASSUME NEW i \in 1..n, NEW j \in 1..n, new[i] = new[j] PROVE i = j
  <2>1. g[i] \in 1..n /\ g[j] \in 1..n /\ o[g[i]] = o[g[j]]
    BY <1>1
  <2>2. g[i] = g[j]
    BY <2>1 DEF Ordering
  <2> QED BY <2>2
<1>2. ASSUME NEW w \in 0..n - 1 PROVE \E i \in 1..n : new[i] = w
  <2>1. PICK m \in 1..n : o[m] = w
    BY DEF Ordering
  <2>2. PICK i \in 1..n : g[i] = m
    OBVIOUS
  <2> QED BY <2>1, <2>2
<1> QED BY <1>1, <1>2 DEF Ordering

\* A way put at the head of the order.
LEMMA MovedToHead ==
    ASSUME NEW n \in Nat, NEW o, Ordering(o, n), NEW k \in 1..n
    PROVE  /\ Ordering(ToHead(o, o[k]), n) /\ ToHead(o, o[k])[1] = o[k]
           /\ \A i \in 1..n : ToHead(o, o[k])[i] = o[IF i = 1 THEN k ELSE IF i <= k THEN i - 1 ELSE i]
<1> DEFINE new == ToHead(o, o[k])
           r == RemoveFirst(o, o[k])
           from == [i \in 1..n |-> IF i = 1 THEN k ELSE IF i <= k THEN i - 1 ELSE i]
<1>1. /\ r \in Seq(0..n - 1) /\ Len(r) = n - 1
      /\ \A i \in 1..k - 1 : r[i] = o[i]
      /\ \A i \in k..n - 1 : r[i] = o[i + 1]
  BY Removed
<1> HIDE DEF r
<1>2. <<o[k]>> \in Seq(0..n - 1) /\ Len(<<o[k]>>) = 1 /\ <<o[k]>>[1] = o[k]
  BY DEF Ordering
<1>3. /\ new \in Seq(0..n - 1) /\ Len(new) = n /\ new[1] = o[k]
      /\ \A i \in 1..n - 1 : new[1 + i] = r[i]
  BY <1>1, <1>2, Joined DEF r, ToHead
<1> HIDE DEF new
<1>4. ASSUME NEW i \in 1..n PROVE new[i] = o[from[i]]
  <2>1. CASE i = 1
    BY <2>1, <1>3
  <2>2. CASE i # 1
    <3> DEFINE j == i - 1
    <3>1. j \in 1..n - 1 /\ 1 + j = i /\ j + 1 = i
      BY <2>2
    <3>2. from[i] = IF j < k THEN j ELSE i
      BY <2>2
    <3> HIDE DEF j, from
    <3>3. new[i] = r[j]
      BY <3>1, <1>3
    <3>4. r[j] = o[IF j < k THEN j ELSE i]
      BY <3>1, <1>1
    <3> QED BY <3>2, <3>3, <3>4
  <2> QED BY <2>1, <2>2
<1>5. from \in [1..n -> 1..n] /\ \A i, j \in 1..n : from[i] = from[j] => i = j
  OBVIOUS
<1>6. ASSUME NEW m \in 1..n PROVE \E i \in 1..n : from[i] = m
  <2> DEFINE i == IF m = k THEN 1 ELSE IF m < k THEN m + 1 ELSE m
  <2>1. i \in 1..n /\ from[i] = m
    OBVIOUS
  <2> QED BY <2>1
<1>7. Ordering(new, n)
  <2>1. \A i \in 1..n : new[i] = o[from[i]]
    BY <1>4
  <2>2. \A m \in 1..n : \E i \in 1..n : from[i] = m
    BY <1>6
  <2> HIDE DEF from
  <2>3. Permuted(new, o, from, n)
    BY <1>3, <1>5, <2>1, <2>2 DEF Permuted
  <2> QED BY <2>3, Rearranged
<1> QED BY <1>3, <1>4, <1>7 DEF new

\* A way put at the tail of the order.
LEMMA MovedToTail ==
    ASSUME NEW n \in Nat, NEW o, Ordering(o, n), NEW k \in 1..n
    PROVE  /\ Ordering(ToTail(o, o[k]), n) /\ ToTail(o, o[k])[n] = o[k]
           /\ \A i \in 1..n : ToTail(o, o[k])[i] = o[IF i = n THEN k ELSE IF i < k THEN i ELSE i + 1]
<1> DEFINE new == ToTail(o, o[k])
           r == RemoveFirst(o, o[k])
           from == [i \in 1..n |-> IF i = n THEN k ELSE IF i < k THEN i ELSE i + 1]
<1>1. /\ r \in Seq(0..n - 1) /\ Len(r) = n - 1
      /\ \A i \in 1..k - 1 : r[i] = o[i]
      /\ \A i \in k..n - 1 : r[i] = o[i + 1]
  BY Removed
<1> HIDE DEF r
<1>2. o[k] \in 0..n - 1
  BY DEF Ordering
<1>3. new \in Seq(0..n - 1) /\ Len(new) = n /\ new[n] = o[k] /\ \A i \in 1..n - 1 : new[i] = r[i]
  BY <1>1, <1>2 DEF r, ToTail
<1> HIDE DEF new
<1>4. ASSUME NEW i \in 1..n PROVE new[i] = o[from[i]]
  <2>1. CASE i = n
    BY <2>1, <1>3
  <2>2. CASE i # n
    <3>1. i \in 1..n - 1 /\ from[i] = IF i < k THEN i ELSE i + 1
      BY <2>2
    <3> HIDE DEF from
    <3>2. new[i] = r[i] /\ i \in 1..n - 1
      BY <3>1, <1>3
    <3>3. r[i] = IF i < k THEN o[i] ELSE o[i + 1]
      BY <3>1, <1>1
    <3> QED BY <3>1, <3>2, <3>3
  <2> QED BY <2>1, <2>2
<1>5. from \in [1..n -> 1..n] /\ \A i, j \in 1..n : from[i] = from[j] => i = j
  OBVIOUS
<1>6. ASSUME NEW m \in 1..n PROVE \E i \in 1..n : from[i] = m
  <2> DEFINE i == IF m = k THEN n ELSE IF m < k THEN m ELSE m - 1
  <2>1. i \in 1..n /\ from[i] = m
    OBVIOUS
  <2> QED BY <2>1
<1>7. Ordering(new, n)
  <2>1. \A i \in 1..n : new[i] = o[from[i]]
    BY <1>4
  <2>2. \A m \in 1..n : \E i \in 1..n : from[i] = m
    BY <1>6
  <2> HIDE DEF from
  <2>3. Permuted(new, o, from, n)
    BY <1>3, <1>5, <2>1, <2>2 DEF Permuted
  <2> QED BY <2>3, Rearranged
<1> QED BY <1>3, <1>4, <1>7 DEF new

\* The neighbours of the way at a place of the list.
LEMMA Neighbours ==
    ASSUME NEW n \in Nat, NEW o, Ordering(o, n), NEW l, Linked(l, o, n), NEW i \in 1..n
    PROVE  /\ o[i] \in 0..n - 1 /\ o[i] \in DOMAIN l.next /\ o[i] \in DOMAIN l.prev
           /\ \A j \in 1..n : o[i] = o[j] <=> i = j
           /\ i = n => l.next[o[i]] = NIL
           /\ i # n => i + 1 \in 1..n /\ l.next[o[i]] = o[i + 1]
           /\ i = 1 => l.prev[o[i]] = NIL
           /\ i # 1 => i - 1 \in 1..n /\ l.prev[o[i]] = o[i - 1]
<1>1. o[i] \in 0..n - 1 /\ \A j \in 1..n : o[i] = o[j] <=> i = j
  BY DEF Ordering
<1>2. o[i] \in DOMAIN l.next /\ o[i] \in DOMAIN l.prev
  BY <1>1 DEF Linked
<1>3. l.next[o[i]] = (IF i = n THEN NIL ELSE o[i + 1])
  BY DEF Linked
<1>4. l.prev[o[i]] = (IF i = 1 THEN NIL ELSE o[i - 1])
  BY DEF Linked
<1> QED BY <1>1, <1>2, <1>3, <1>4

\* makeMRU puts a way at the head of the list.
LEMMA ListHead ==
    ASSUME NEW n \in Nat, NEW o, Ordering(o, n), NEW k \in 1..n, NEW l, Linked(l, o, n)
    PROVE  Linked(ListMRU(l, o[k]), ToHead(o, o[k]), n)
<1> DEFINE r == ToHead(o, o[k])
<1>1. /\ r[1] = o[k]
      /\ \A i \in 1..n : r[i] = o[IF i = 1 THEN k ELSE IF i <= k THEN i - 1 ELSE i]
  BY MovedToHead
<1> HIDE DEF r
<1>2. /\ l = [next |-> l.next, prev |-> l.prev, mru |-> o[1], lru |-> o[n]]
      /\ l.next \in [0..n - 1 -> Int] /\ l.prev \in [0..n - 1 -> Int]
  BY DEF Linked
<1>3. /\ l.mru = o[1] /\ l.lru = o[n]
      /\ 1 \in 1..n /\ n \in 1..n /\ \A i \in 1..n : i \in Nat
  BY <1>2
<1>4. CASE k = 1
  <2>1. \A i \in 1..n : r[i] = o[i]
    <3> SUFFICES ASSUME NEW i \in 1..n PROVE r[i] = o[i]
      OBVIOUS
    <3>1. (IF i = 1 THEN k ELSE IF i <= k THEN i - 1 ELSE i) = i
      BY <1>4
    <3> QED BY <3>1, <1>1
  <2>2. ListMRU(l, o[k]) = l
    BY <1>3, <1>4 DEF ListMRU
  <2>3. ASSUME NEW i \in 1..n
        PROVE  /\ l.next[r[i]] = (IF i = n THEN NIL ELSE r[i + 1])
               /\ l.prev[r[i]] = (IF i = 1 THEN NIL ELSE r[i - 1])
    <3>1. /\ i = n => l.next[o[i]] = NIL
          /\ i # n => i + 1 \in 1..n /\ l.next[o[i]] = o[i + 1]
          /\ i = 1 => l.prev[o[i]] = NIL
          /\ i # 1 => i - 1 \in 1..n /\ l.prev[o[i]] = o[i - 1]
      BY Neighbours
    <3> QED BY <2>1, <3>1
  <2>4. r[1] = o[1] /\ r[n] = o[n]
    BY <2>1, <1>3
  <2> QED BY <1>2, <2>2, <2>3, <2>4 DEF Linked, r
<1>5. CASE k # 1
  <2> DEFINE a == o[k - 1]
             b == IF k = n THEN NIL ELSE o[k + 1]
             next == [v \in 0..n - 1 |-> IF v = o[k] THEN o[1] ELSE IF v = a THEN b ELSE l.next[v]]
             prev == [v \in 0..n - 1 |-> IF v = o[1] THEN o[k] ELSE IF v = o[k] THEN NIL
                                         ELSE IF v = b THEN a ELSE l.prev[v]]
  <2>1. k - 1 \in 1..n /\ (k # n => k + 1 \in 1..n)
    BY <1>5
  <2>2. /\ l.next[o[k]] = b /\ l.prev[o[k]] = a
        /\ o[1] # o[k] /\ a # o[k] /\ o[k] \in 0..n - 1 /\ o[1] \in 0..n - 1 /\ a \in 0..n - 1
        /\ b # o[k] /\ b \in Int /\ b # a /\ b # o[1]
    <3>1. /\ o[k] \in 0..n - 1 /\ o[1] \in 0..n - 1 /\ a \in 0..n - 1
          /\ o[1] # o[k] /\ a # o[k] /\ l.prev[o[k]] = a
      BY <1>3, <1>5, <2>1, Neighbours
    <3>2. l.next[o[k]] = b
      BY Neighbours
    <3>3. CASE k = n
      BY <3>1, <3>2, <3>3 DEF NIL
    <3>4. CASE k # n
      <4>1. /\ o[k + 1] \in 0..n - 1 /\ o[k + 1] # o[k] /\ o[k + 1] # o[1] /\ o[k + 1] # a
        <5>1. k + 1 \in 1..n /\ k + 1 # k /\ k + 1 # 1 /\ k + 1 # k - 1
          BY <2>1, <3>4
        <5> QED BY <5>1, <1>3, <2>1, Neighbours
      <4> QED BY <3>1, <3>2, <3>4, <4>1
    <3> QED BY <3>3, <3>4
  <2>3. ListMRU(l, o[k]) = [next |-> next, prev |-> prev, mru |-> o[k],
                            lru |-> IF n = k THEN a ELSE o[n]]
    <3>1. DOMAIN l.next = 0..n - 1 /\ DOMAIN l.prev = 0..n - 1
      BY <1>2
    <3>2. l.lru = o[k] <=> n = k
      BY <1>3, Neighbours
    <3>3. PICK nx, pv, w, m, q : /\ nx = l.next /\ pv = l.prev /\ w = o[k] /\ m = o[1] /\ q = o[n]
      OBVIOUS
    <3>4. l = [next |-> nx, prev |-> pv, mru |-> m, lru |-> q]
      BY <1>2, <3>3
    <3>5. PICK u : u = Unlinked(l, w)
      OBVIOUS
    <3>6. u = [next |-> [v \in 0..n - 1 |-> IF v = a THEN b ELSE nx[v]],
               prev |-> [v \in 0..n - 1 |-> IF v = b THEN a ELSE pv[v]], mru |-> m, lru |-> q]
      <4> HIDE DEF a, b
      <4>1. /\ l.next = nx /\ l.prev = pv /\ l.prev[w] = a /\ l.next[w] = b
            /\ DOMAIN nx = 0..n - 1 /\ DOMAIN pv = 0..n - 1
        BY <2>2, <3>1, <3>3
      <4>2. u = [l EXCEPT !.next = [v \in DOMAIN @ |-> IF v = a THEN b ELSE @[v]],
                          !.prev = [v \in DOMAIN @ |-> IF v = b THEN a ELSE @[v]]]
        BY <3>5, <4>1 DEF Unlinked
      <4> QED BY <3>4, <4>1, <4>2
    <3>7. PICK new : new = ListMRU(l, w)
      OBVIOUS
    <3>8. new = [u EXCEPT !.next[w] = m, !.prev[w] = NIL, !.prev[m] = w,
                          !.mru = w, !.lru = IF @ = w THEN a ELSE @]
      BY <1>3, <2>2, <3>3, <3>5, <3>7 DEF ListMRU
    <3>9. w \in 0..n - 1 /\ m \in 0..n - 1 /\ m # w /\ (q = w <=> n = k)
      BY <2>2, <3>2, <3>3, <1>3
    <3> HIDE DEF a, b
    <3>10. new = [next |-> [v \in 0..n - 1 |-> IF v = w THEN m ELSE IF v = a THEN b ELSE nx[v]],
                  prev |-> [v \in 0..n - 1 |-> IF v = m THEN w ELSE IF v = w THEN NIL
                                               ELSE IF v = b THEN a ELSE pv[v]],
                  mru |-> w, lru |-> IF n = k THEN a ELSE q]
      BY <3>6, <3>8, <3>9
    <3> QED BY <3>3, <3>7, <3>10
  <2>4. next \in [0..n - 1 -> Int] /\ prev \in [0..n - 1 -> Int]
    BY <1>2, <2>2 DEF NIL
  <2>5. r[n] = (IF n = k THEN a ELSE o[n])
    BY <1>1, <1>3, <1>5
  <2>6. ASSUME NEW i \in 1..n PROVE next[r[i]] = (IF i = n THEN NIL ELSE r[i + 1])
    <3>1. CASE i = 1
      <4>1. 2 \in 1..n /\ i # n /\ i + 1 = 2 /\ r[2] = o[1]
        BY <1>1, <1>5, <3>1
      <4> QED BY <1>1, <2>2, <3>1, <4>1
    <3>2. CASE i = k
      <4>1. r[i] = a
        BY <1>1, <1>5, <3>2
      <4>2. k # n => r[k + 1] = o[k + 1]
        BY <1>1, <2>1
      <4> QED BY <2>2, <3>2, <4>1, <4>2
    <3>3. CASE i # 1 /\ i < k
      <4> DEFINE j == i - 1
      <4>1. j \in 1..n /\ j # n /\ j # k /\ j # k - 1 /\ j + 1 = i /\ r[i] = o[j] /\ i # n
        BY <1>1, <3>3
      <4>2. i + 1 \in 1..n /\ r[i + 1] = o[i]
        <5>1. i + 1 \in 1..n /\ (i + 1) - 1 = i /\ i + 1 <= k /\ i + 1 # 1
          BY <3>3
        <5> QED BY <5>1, <1>1
      <4> HIDE DEF j
      <4>3. o[j] \in 0..n - 1 /\ o[j] # o[k] /\ o[j] # a /\ l.next[o[j]] = o[i]
        BY <2>1, <4>1, Neighbours
      <4> QED BY <4>1, <4>2, <4>3
    <3>4. CASE i > k
      <4>1. r[i] = o[i] /\ i # k /\ i # k - 1
        BY <1>1, <3>4
      <4>2. i # n => i + 1 \in 1..n /\ r[i + 1] = o[i + 1]
        <5>1. i # n => i + 1 \in 1..n /\ ~(i + 1 <= k) /\ i + 1 # 1
          BY <3>4
        <5> QED BY <5>1, <1>1
      <4>3. o[i] \in 0..n - 1 /\ o[i] # o[k] /\ o[i] # a /\ l.next[o[i]] = IF i = n THEN NIL ELSE o[i + 1]
        BY <2>1, <4>1, Neighbours
      <4> QED BY <4>1, <4>2, <4>3
    <3> QED BY <3>1, <3>2, <3>3, <3>4
  <2>7. ASSUME NEW i \in 1..n PROVE prev[r[i]] = (IF i = 1 THEN NIL ELSE r[i - 1])
    <3>1. CASE i = 1
      BY <1>1, <2>2, <3>1
    <3>2. CASE i = 2
      <4>1. r[i] = o[1] /\ i - 1 = 1 /\ r[1] = o[k]
        BY <1>1, <1>5, <3>2
      <4> QED BY <2>2, <3>2, <4>1
    <3>3. CASE i > 2 /\ i <= k
      <4> DEFINE j == i - 1
      <4>1. j \in 1..n /\ j # 1 /\ j # k /\ j # k + 1 /\ r[i] = o[j] /\ i # 1
        BY <1>1, <3>3
      <4>2. j - 1 \in 1..n /\ r[j] = o[j - 1]
        BY <1>1, <3>3
      <4> HIDE DEF j
      <4>3. o[j] \in 0..n - 1 /\ o[j] # o[k] /\ o[j] # o[1] /\ l.prev[o[j]] = o[j - 1]
        BY <1>3, <4>1, Neighbours
      <4>4. o[j] # b
        BY <2>1, <4>1, <4>3, Neighbours DEF NIL
      <4> QED BY <4>1, <4>2, <4>3, <4>4 DEF j
    <3>4. CASE i > k
      <4>1. r[i] = o[i] /\ i # k /\ i # 1 /\ i - 1 \in 1..n
        BY <1>1, <3>4
      <4>2. o[i] \in 0..n - 1 /\ o[i] # o[k] /\ o[i] # o[1] /\ l.prev[o[i]] = o[i - 1]
        BY <1>3, <4>1, Neighbours
      <4>3. CASE i = k + 1
        <5>1. b = o[i] /\ i - 1 = k /\ r[k] = a
          BY <1>1, <1>5, <3>4, <4>3
        <5> QED BY <4>1, <4>2, <5>1
      <4>4. CASE i # k + 1
        <5>1. r[i - 1] = o[i - 1]
          <6>1. ~(i - 1 <= k) /\ i - 1 # 1
            BY <3>4, <4>4
          <6> QED BY <6>1, <4>1, <1>1
        <5>2. o[i] # b
          BY <2>1, <4>2, <4>4, Neighbours DEF NIL
        <5> QED BY <4>1, <4>2, <5>1, <5>2
      <4> QED BY <4>3, <4>4
    <3> QED BY <3>1, <3>2, <3>3, <3>4
  <2> HIDE DEF next, prev, a
  <2>8. /\ ListMRU(l, o[k]).next = next /\ ListMRU(l, o[k]).prev = prev
        /\ ListMRU(l, o[k]) = [next |-> next, prev |-> prev, mru |-> r[1], lru |-> r[n]]
    BY <1>1, <2>3, <2>5
  <2> QED BY <2>4, <2>6, <2>7, <2>8 DEF Linked, r
<1> QED BY <1>4, <1>5

\* makeLRU puts a way at the tail of the list.
LEMMA ListTail ==
    ASSUME NEW n \in Nat, NEW o, Ordering(o, n), NEW k \in 1..n, NEW l, Linked(l, o, n)
    PROVE  Linked(ListLRU(l, o[k]), ToTail(o, o[k]), n)
<1> DEFINE r == ToTail(o, o[k])
<1>1. /\ r[n] = o[k]
      /\ \A i \in 1..n : r[i] = o[IF i = n THEN k ELSE IF i < k THEN i ELSE i + 1]
  BY MovedToTail
<1> HIDE DEF r
<1>2. /\ l = [next |-> l.next, prev |-> l.prev, mru |-> o[1], lru |-> o[n]]
      /\ l.next \in [0..n - 1 -> Int] /\ l.prev \in [0..n - 1 -> Int]
  BY DEF Linked
<1>3. /\ l.mru = o[1] /\ l.lru = o[n]
      /\ 1 \in 1..n /\ n \in 1..n /\ \A i \in 1..n : i \in Nat
  BY <1>2
<1>4. CASE k = n
  <2>1. \A i \in 1..n : r[i] = o[i]
    <3> SUFFICES ASSUME NEW i \in 1..n PROVE r[i] = o[i]
      OBVIOUS
    <3>1. (IF i = n THEN k ELSE IF i < k THEN i ELSE i + 1) = i
      BY <1>4
    <3> QED BY <3>1, <1>1
  <2>2. ListLRU(l, o[k]) = l
    BY <1>3, <1>4 DEF ListLRU
  <2>3. ASSUME NEW i \in 1..n
        PROVE  /\ l.next[r[i]] = (IF i = n THEN NIL ELSE r[i + 1])
               /\ l.prev[r[i]] = (IF i = 1 THEN NIL ELSE r[i - 1])
    <3>1. /\ i = n => l.next[o[i]] = NIL
          /\ i # n => i + 1 \in 1..n /\ l.next[o[i]] = o[i + 1]
          /\ i = 1 => l.prev[o[i]] = NIL
          /\ i # 1 => i - 1 \in 1..n /\ l.prev[o[i]] = o[i - 1]
      BY Neighbours
    <3> QED BY <2>1, <3>1
  <2>4. r[1] = o[1] /\ r[n] = o[n]
    BY <2>1, <1>3
  <2> QED BY <1>2, <2>2, <2>3, <2>4 DEF Linked, r
<1>5. CASE k # n
  <2> DEFINE a == IF k = 1 THEN NIL ELSE o[k - 1]
             b == o[k + 1]
             next == [v \in 0..n - 1 |-> IF v = o[n] THEN o[k] ELSE IF v = o[k] THEN NIL
                                         ELSE IF v = a THEN b ELSE l.next[v]]
             prev == [v \in 0..n - 1 |-> IF v = o[k] THEN o[n] ELSE IF v = b THEN a ELSE l.prev[v]]
  <2>1. k + 1 \in 1..n /\ (k # 1 => k - 1 \in 1..n)
    BY <1>5
  <2>2. /\ l.next[o[k]] = b /\ l.prev[o[k]] = a
        /\ o[n] # o[k] /\ b # o[k] /\ o[k] \in 0..n - 1 /\ o[n] \in 0..n - 1 /\ b \in 0..n - 1
        /\ a # o[k] /\ a \in Int /\ a # b /\ a # o[n]
    <3>1. /\ o[k] \in 0..n - 1 /\ o[n] \in 0..n - 1 /\ b \in 0..n - 1
          /\ o[n] # o[k] /\ b # o[k] /\ l.next[o[k]] = b
      BY <1>3, <1>5, <2>1, Neighbours
    <3>2. l.prev[o[k]] = a
      BY Neighbours
    <3>3. CASE k = 1
      BY <3>1, <3>2, <3>3 DEF NIL
    <3>4. CASE k # 1
      <4>1. /\ o[k - 1] \in 0..n - 1 /\ o[k - 1] # o[k] /\ o[k - 1] # o[n] /\ o[k - 1] # b
        <5>1. k - 1 \in 1..n /\ k - 1 # k /\ k - 1 # n /\ k + 1 # k - 1
          BY <2>1, <3>4
        <5> QED BY <5>1, <1>3, <2>1, Neighbours
      <4> QED BY <3>1, <3>2, <3>4, <4>1
    <3> QED BY <3>3, <3>4
  <2>3. ListLRU(l, o[k]) = [next |-> next, prev |-> prev, mru |-> IF k = 1 THEN b ELSE o[1],
                            lru |-> o[k]]
    <3>1. DOMAIN l.next = 0..n - 1 /\ DOMAIN l.prev = 0..n - 1
      BY <1>2
    <3>2. l.mru = o[k] <=> k = 1
      BY <1>3, Neighbours
    <3>3. PICK nx, pv, w, m, q : /\ nx = l.next /\ pv = l.prev /\ w = o[k] /\ m = o[1] /\ q = o[n]
      OBVIOUS
    <3>4. l = [next |-> nx, prev |-> pv, mru |-> m, lru |-> q]
      BY <1>2, <3>3
    <3>5. PICK u : u = Unlinked(l, w)
      OBVIOUS
    <3>6. u = [next |-> [v \in 0..n - 1 |-> IF v = a THEN b ELSE nx[v]],
               prev |-> [v \in 0..n - 1 |-> IF v = b THEN a ELSE pv[v]], mru |-> m, lru |-> q]
      <4> HIDE DEF a, b
      <4>1. /\ l.next = nx /\ l.prev = pv /\ l.prev[w] = a /\ l.next[w] = b
            /\ DOMAIN nx = 0..n - 1 /\ DOMAIN pv = 0..n - 1
        BY <2>2, <3>1, <3>3
      <4>2. u = [l EXCEPT !.next = [v \in DOMAIN @ |-> IF v = a THEN b ELSE @[v]],
                          !.prev = [v \in DOMAIN @ |-> IF v = b THEN a ELSE @[v]]]
        BY <3>5, <4>1 DEF Unlinked
      <4> QED BY <3>4, <4>1, <4>2
    <3>7. PICK new : new = ListLRU(l, w)
      OBVIOUS
    <3>8. new = [u EXCEPT !.next[w] = NIL, !.prev[w] = q, !.next[q] = w,
                          !.lru = w, !.mru = IF @ = w THEN b ELSE @]
      BY <1>3, <2>2, <3>3, <3>5, <3>7 DEF ListLRU
    <3>9. w \in 0..n - 1 /\ q \in 0..n - 1 /\ q # w /\ (m = w <=> k = 1)
      BY <2>2, <3>2, <3>3, <1>3
    <3> HIDE DEF a, b
    <3>10. new = [next |-> [v \in 0..n - 1 |-> IF v = q THEN w ELSE IF v = w THEN NIL
                                               ELSE IF v = a THEN b ELSE nx[v]],
                  prev |-> [v \in 0..n - 1 |-> IF v = w THEN q ELSE IF v = b THEN a ELSE pv[v]],
                  mru |-> IF k = 1 THEN b ELSE m, lru |-> w]
      BY <3>6, <3>8, <3>9
    <3> QED BY <3>3, <3>7, <3>10
  <2>4. next \in [0..n - 1 -> Int] /\ prev \in [0..n - 1 -> Int]
    BY <1>2, <2>2 DEF NIL
  <2>5. r[1] = (IF k = 1 THEN b ELSE o[1])
    <3>1. k = 1 => 1 + 1 = k + 1 /\ 1 # n
      BY <1>5
    <3>2. k # 1 => 1 # n /\ 1 < k
      BY <1>5
    <3> QED BY <3>1, <3>2, <1>1, <1>3, <1>5
  <2>6. ASSUME NEW i \in 1..n PROVE next[r[i]] = (IF i = n THEN NIL ELSE r[i + 1])
    <3>1. CASE i = n
      BY <1>1, <2>2, <3>1
    <3>2. CASE i = n - 1
      <4>1. r[i] = o[n] /\ i + 1 = n /\ r[n] = o[k] /\ i # n
        <5>1. i # n /\ ~(i < k) /\ i + 1 = n
          BY <1>5, <3>2
        <5> QED BY <1>1, <5>1
      <4> QED BY <2>2, <4>1
    <3>3. CASE i < n - 1 /\ i >= k
      <4> DEFINE j == i + 1
      <4>1. j \in 1..n /\ j # n /\ j # k /\ j # k - 1 /\ r[i] = o[j] /\ i # n
        BY <1>1, <3>3
      <4>2. j + 1 \in 1..n /\ r[j] = o[j + 1]
        <5>1. j + 1 \in 1..n /\ ~(j < k)
          BY <3>3
        <5> QED BY <5>1, <4>1, <1>1
      <4> HIDE DEF j
      <4>3. o[j] \in 0..n - 1 /\ o[j] # o[k] /\ o[j] # o[n] /\ l.next[o[j]] = o[j + 1]
        BY <1>3, <4>1, Neighbours
      <4>4. o[j] # a
        BY <2>1, <4>1, <4>3, Neighbours DEF NIL
      <4> QED BY <4>1, <4>2, <4>3, <4>4 DEF j
    <3>4. CASE i < k
      <4>1. r[i] = o[i] /\ i # k /\ i # n /\ i + 1 \in 1..n
        BY <1>1, <3>4
      <4>2. o[i] \in 0..n - 1 /\ o[i] # o[k] /\ o[i] # o[n] /\ l.next[o[i]] = o[i + 1]
        BY <1>3, <4>1, Neighbours
      <4>3. CASE i = k - 1
        <5>1. a = o[i] /\ i + 1 = k /\ r[k] = b
          BY <1>1, <1>5, <3>4, <4>3
        <5> QED BY <4>1, <4>2, <5>1
      <4>4. CASE i # k - 1
        <5>1. r[i + 1] = o[i + 1]
          <6>1. i + 1 < k /\ i + 1 # n
            BY <3>4, <4>4
          <6> QED BY <6>1, <4>1, <1>1
        <5>2. o[i] # a
          BY <2>1, <4>2, <4>4, Neighbours DEF NIL
        <5> QED BY <4>1, <4>2, <5>1, <5>2
      <4> QED BY <4>3, <4>4
    <3> QED BY <3>1, <3>2, <3>3, <3>4
  <2>7. ASSUME NEW i \in 1..n PROVE prev[r[i]] = (IF i = 1 THEN NIL ELSE r[i - 1])
    <3>1. CASE i = n
      <4>1. i # 1 /\ i - 1 \in 1..n /\ r[i - 1] = o[n] /\ r[i] = o[k]
        <5>1. i # 1 /\ i - 1 \in 1..n /\ i - 1 # n /\ ~(i - 1 < k) /\ (i - 1) + 1 = n
          BY <1>5, <3>1
        <5> QED BY <1>1, <5>1, <3>1
      <4> QED BY <2>2, <4>1
    <3>2. CASE i = k
      <4>1. r[i] = b
        BY <1>1, <1>5, <3>2
      <4>2. k # 1 => r[k - 1] = o[k - 1]
        BY <1>1, <2>1
      <4> QED BY <2>2, <3>2, <4>1, <4>2
    <3>3. CASE i # n /\ i > k
      <4> DEFINE j == i + 1
      <4>1. j \in 1..n /\ j # 1 /\ j # k /\ j # k + 1 /\ j - 1 = i /\ r[i] = o[j] /\ i # 1
        BY <1>1, <3>3
      <4>2. i - 1 \in 1..n /\ r[i - 1] = o[i]
        <5>1. i - 1 \in 1..n /\ (i - 1) + 1 = i /\ ~(i - 1 < k) /\ i - 1 # n
          BY <3>3
        <5> QED BY <5>1, <1>1
      <4> HIDE DEF j
      <4>3. o[j] \in 0..n - 1 /\ o[j] # o[k] /\ o[j] # b /\ l.prev[o[j]] = o[i]
        BY <2>1, <4>1, Neighbours
      <4> QED BY <4>1, <4>2, <4>3
    <3>4. CASE i < k
      <4>1. r[i] = o[i] /\ i # k /\ i # k + 1
        BY <1>1, <3>4
      <4>2. i # 1 => i - 1 \in 1..n /\ r[i - 1] = o[i - 1]
        <5>1. i # 1 => i - 1 \in 1..n /\ i - 1 < k /\ i - 1 # n
          BY <3>4
        <5> QED BY <5>1, <1>1
      <4>3. o[i] \in 0..n - 1 /\ o[i] # o[k] /\ o[i] # b /\ l.prev[o[i]] = IF i = 1 THEN NIL ELSE o[i - 1]
        BY <2>1, <4>1, Neighbours
      <4> QED BY <4>1, <4>2, <4>3
    <3> QED BY <3>1, <3>2, <3>3, <3>4
  <2> HIDE DEF next, prev, b
  <2>8. /\ ListLRU(l, o[k]).next = next /\ ListLRU(l, o[k]).prev = prev
        /\ ListLRU(l, o[k]) = [next |-> next, prev |-> prev, mru |-> r[1], lru |-> r[n]]
    BY <1>1, <2>3, <2>5
  <2> QED BY <2>4, <2>6, <2>7, <2>8 DEF Linked, r
<1> QED BY <1>4, <1>5

\* With a free way, the list gives the free one nearest to its tail.
LEMMA FreeWay ==
    ASSUME NEW n \in Nat, NEW o, Ordering(o, n), NEW l, Linked(l, o, n), NEW rsvd,
           NEW free \in 0..n - 1, free \notin rsvd
    PROVE  /\ ListVictim(l, rsvd) \in (0..n - 1) \ rsvd
           /\ rsvd = {} => ListVictim(l, rsvd) = o[n]
<1> DEFINE skip(w) == IF w \in rsvd THEN l.prev[w] ELSE w
           at[i \in 0..Cardinality(DOMAIN l.next)] == IF i = 0 THEN l.lru ELSE skip(at[i - 1])
           D == {i \in 0..n - 1 : o[n - i] \notin rsvd}
<1>1. ListVictim(l, rsvd) = at[Cardinality(DOMAIN l.next)]
  BY DEF ListVictim
<1>2. at = CHOOSE f : f = [i \in 0..Cardinality(DOMAIN l.next) |-> IF i = 0 THEN l.lru ELSE skip(f[i - 1])]
  OBVIOUS
<1>3. Cardinality(DOMAIN l.next) = n
  <2>1. DOMAIN l.next = 0..n - 1
    BY DEF Linked
  <2>2. Cardinality(0..n - 1) = n
    BY FS_Interval
  <2> QED BY <2>1, <2>2
<1> HIDE DEF at
<1>4. at = CHOOSE f : f = [i \in 0..n |-> IF i = 0 THEN l.lru ELSE skip(f[i - 1])]
  BY <1>2, <1>3
<1>5. PICK d \in 0..n - 1 : o[n - d] \notin rsvd /\ \A i \in 0..n - 1 : i < d => o[n - i] \in rsvd
  <2>1. PICK k \in 1..n : o[k] = free
    BY DEF Ordering
  <2>2. n - k \in D
    <3>1. n - k \in 0..n - 1 /\ n - (n - k) = k
      OBVIOUS
    <3> QED BY <2>1, <3>1
  <2>3. D \in SUBSET Nat
    OBVIOUS
  <2>4. PICK d \in D : \A m \in D : d <= m
    <3> HIDE DEF D
    <3> QED BY <2>2, <2>3, LeastOf
  <2>5. ASSUME NEW i \in 0..n - 1, i < d PROVE o[n - i] \in rsvd
    BY <2>4, <2>5
  <2> QED BY <2>4, <2>5
<1> DEFINE place(i) == n - (IF i <= d THEN i ELSE d)
           g == [i \in 0..n |-> o[place(i)]]
<1>6. ASSUME NEW i \in 0..n PROVE g[i] = IF i = 0 THEN l.lru ELSE skip(g[i - 1])
  <2>1. CASE i = 0
    <3>1. l.lru = o[n] /\ place(i) = n
      BY <2>1 DEF Linked
    <3> QED BY <2>1, <3>1
  <2>2. CASE i # 0 /\ i <= d
    <3> DEFINE j == place(i - 1)
    <3>1. j \in 1..n /\ j = n - (i - 1) /\ i - 1 < d /\ i - 1 \in 0..n - 1 /\ j # 1 /\ place(i) = j - 1
      BY <2>2
    <3>2. g[i - 1] = o[j] /\ g[i] = o[j - 1]
      BY <3>1
    <3> HIDE DEF j, g
    <3>3. o[j] \in rsvd
      BY <1>5, <3>1
    <3>4. l.prev[o[j]] = o[j - 1]
      BY <3>1, Neighbours
    <3> QED BY <2>2, <3>2, <3>3, <3>4
  <2>3. CASE i > d
    <3>1. place(i) = n - d /\ place(i - 1) = n - d /\ i # 0 /\ i - 1 \in 0..n
      BY <2>3
    <3> QED BY <1>5, <3>1
  <2> QED BY <2>1, <2>2, <2>3
<1>7. g = [i \in 0..n |-> IF i = 0 THEN l.lru ELSE skip(g[i - 1])]
  <2> HIDE DEF place
  <2>1. g = [i \in 0..n |-> g[i]]
    OBVIOUS
  <2> HIDE DEF g, skip
  <2> QED BY <1>6, <2>1
<1>8. at = [i \in 0..n |-> IF i = 0 THEN l.lru ELSE skip(at[i - 1])]
  <2> HIDE DEF g, skip
  <2> QED BY <1>4, <1>7
<1> DEFINE S == {i \in 0..n : at[i] = g[i]}
<1>9. 0 \in S
  <2> HIDE DEF g, skip
  <2>1. 0 \in 0..n
    OBVIOUS
  <2> QED BY <1>6, <1>8, <2>1
<1>10. ASSUME NEW i \in 0..n - 1, i \in S PROVE i + 1 \in S
  <2> HIDE DEF g
  <2>1. i + 1 \in 0..n /\ i + 1 # 0 /\ (i + 1) - 1 = i
    OBVIOUS
  <2>2. at[i + 1] = skip(at[i])
    BY <1>8, <2>1
  <2>3. g[i + 1] = skip(g[i])
    BY <1>6, <2>1
  <2> QED BY <1>10, <2>1, <2>2, <2>3
<1>11. n \in S
  <2> HIDE DEF S
  <2>1. n \in 0..n
    OBVIOUS
  <2> QED BY <1>9, <1>10, <2>1, UpTo
<1>12. at[n] = o[n - d] /\ n - d \in 1..n
  <2>1. place(n) = n - d /\ n \in 0..n /\ n - d \in 1..n
    OBVIOUS
  <2> QED BY <1>11, <2>1
<1>13. rsvd = {} => d = 0
  BY <1>5
<1>14. o[n - d] \in 0..n - 1
  BY <1>12 DEF Ordering
<1> HIDE DEF D, S, g, place, skip
<1>15. rsvd = {} => at[n] = o[n]
  BY <1>12, <1>13
<1> QED BY <1>1, <1>3, <1>5, <1>12, <1>14, <1>15

-----------------------------------------------------------------------------
(* The trees of the pseudo LRU *)

SmallLeafs == {1, 2, 3, 4, 6, 8}
LargeLeafs == {12, 16, 24}

\* A large tree is a tree of three, four or six groups of leaves, each of them a
\* tree of four: the bits of its groups are next to one another (FirstBit), those of
\* the tree above them somewhere else (NodeBit).
Groups(n) == n \div 4
Nodes(n) == IF n = 24 THEN 0..5 ELSE 0..2
NodeBit(n, b) == CASE n = 12 -> 9 + b
                [] n = 16 -> (IF b = 0 THEN 6 ELSE 12 + b)
                [] n = 24 -> (IF b < 3 THEN 6 + 7 * b ELSE 18 + b)
FirstBit(n, g) == IF n = 12 THEN 3 * g ELSE 3 * g + g \div 2

\* The bits as a tree of n \div 4 and as a tree of four would have them.
UpperTree(n, state) == {b \in Nodes(n) : NodeBit(n, b) \in state}
LowerTree(n, g, state) == {b \in 0..2 : FirstBit(n, g) + b \in state}

\* The leaves of the tree are in an order: the three nodes of a tree of three
\* (of three pairs) leaves compare them two by two, and without a cycle.
DecidesSmall(n, state) ==
    LET acyclic(a, b, c) == (a \in state <=> c \in state) => (b \in state <=> a \in state)
    IN  (n = 3 => acyclic(0, 1, 2)) /\ (n = 6 => acyclic(3, 4, 5))

Decides(n, state) ==
    DecidesSmall(IF n \in LargeLeafs THEN Groups(n) ELSE n,
                 IF n \in LargeLeafs THEN UpperTree(n, state) ELSE state)

\* The bits on the way to each leaf of a small tree and their values.
LEMMA Tables ==
    /\ mask[1] = <<{}>> /\ compare[1] = <<{}>>
    /\ mask[2] = <<{0}, {0}>> /\ compare[2] = <<{}, {0}>>
    /\ mask[3] = <<{0, 1}, {0, 2}, {1, 2}>> /\ compare[3] = <<{}, {0}, {1, 2}>>
    /\ mask[4] = <<{0, 2}, {0, 2}, {1, 2}, {1, 2}>> /\ compare[4] = <<{}, {0}, {2}, {1, 2}>>
    /\ mask[6] = <<{0, 3, 4}, {0, 3, 4}, {1, 3, 5}, {1, 3, 5}, {2, 4, 5}, {2, 4, 5}>>
    /\ compare[6] = <<{}, {0}, {3}, {1, 3}, {4, 5}, {2, 4, 5}>>
    /\ mask[8] = <<{0, 1, 3}, {0, 1, 3}, {0, 1, 4}, {0, 1, 4},
                   {0, 2, 5}, {0, 2, 5}, {0, 2, 6}, {0, 2, 6}>>
    /\ compare[8] = <<{}, {3}, {1}, {1, 4}, {0}, {0, 5}, {0, 2}, {0, 2, 6}>>
BY DEF mask, compare, PLRULeafs

\* A leaf of a small tree made MRU or LRU has its place in the order, whatever
\* it was before.
LEMMA LeafTouchedSmall ==
    ASSUME NEW n \in SmallLeafs, NEW leaf \in 0..n - 1, NEW state
    PROVE  DecidesSmall(n, LeafMRU(n, leaf, state)) /\ DecidesSmall(n, LeafLRU(n, leaf, state))
<1>1. CASE n = 3
  <2>1. leaf = 0 \/ leaf = 1 \/ leaf = 2
    BY <1>1
  <2> QED BY <1>1, <2>1, Tables DEF DecidesSmall, LeafMRU, LeafLRU
<1>2. CASE n = 6
  <2>1. leaf = 0 \/ leaf = 1 \/ leaf = 2 \/ leaf = 3 \/ leaf = 4 \/ leaf = 5
    BY <1>2
  <2> QED BY <1>2, <2>1, Tables DEF DecidesSmall, LeafMRU, LeafLRU
<1> QED BY <1>1, <1>2 DEF DecidesSmall

\* A small tree has a LRU leaf.
LEMMA LeafOfSmall ==
    ASSUME NEW n \in SmallLeafs, NEW state, DecidesSmall(n, state)
    PROVE  \E leaf \in 0..n - 1 : state \cap mask[n][leaf + 1] = compare[n][leaf + 1]
<1> DEFINE leafs == {i \in 0..n - 1 : state \cap mask[n][i + 1] = compare[n][i + 1]}
<1>1. CASE n = 1
  <2>1. 0 \in leafs
    BY <1>1, Tables
  <2> QED BY <2>1
<1>2. CASE n = 2
  <2>1. 0 \in leafs \/ 1 \in leafs
    BY <1>2, Tables
  <2> QED BY <2>1
<1>3. CASE n = 3
  <2>1. 0 \in leafs \/ 1 \in leafs \/ 2 \in leafs
    BY <1>3, Tables DEF DecidesSmall
  <2> QED BY <2>1
<1>4. CASE n = 4
  <2>1. 0 \in leafs \/ 1 \in leafs \/ 2 \in leafs \/ 3 \in leafs
    BY <1>4, Tables
  <2> QED BY <2>1
<1>5. CASE n = 6
  <2>1. 0 \in leafs \/ 1 \in leafs \/ 2 \in leafs \/ 3 \in leafs \/ 4 \in leafs \/ 5 \in leafs
    BY <1>5, Tables DEF DecidesSmall
  <2> QED BY <2>1
<1>6. CASE n = 8
  <2>1. \/ 0 \in leafs \/ 1 \in leafs \/ 2 \in leafs \/ 3 \in leafs
        \/ 4 \in leafs \/ 5 \in leafs \/ 6 \in leafs \/ 7 \in leafs
    BY <1>6, Tables
  <2> QED BY <2>1
<1> QED BY <1>1, <1>2, <1>3, <1>4, <1>5, <1>6 DEF SmallLeafs

\* How many leaves become the LRU one before each does, the LRU one being made
\* MRU again and again: a node that points away from it (w if its bit is set, v
\* if it is clear) counts for as many as lie behind one another.
DistancesSmall(n, state) ==
    LET w(b) == IF b \in state THEN 1 ELSE 0
        v(b) == IF b \in state THEN 0 ELSE 1
    IN  CASE n = 1 -> <<0>>
          [] n = 2 -> <<w(0), v(0)>>
          [] n = 3 -> <<w(0) + w(1), v(0) + w(2), v(1) + v(2)>>
          [] n = 4 -> <<w(2) + 2 * w(0), w(2) + 2 * v(0), v(2) + 2 * w(1), v(2) + 2 * v(1)>>
          [] n = 6 -> <<w(3) + w(4) + 3 * w(0), w(3) + w(4) + 3 * v(0), v(3) + w(5) + 3 * w(1),
                        v(3) + w(5) + 3 * v(1), v(4) + v(5) + 3 * w(2), v(4) + v(5) + 3 * v(2)>>
          [] n = 8 -> <<w(0) + 2 * w(1) + 4 * w(3), w(0) + 2 * w(1) + 4 * v(3),
                        w(0) + 2 * v(1) + 4 * w(4), w(0) + 2 * v(1) + 4 * v(4),
                        v(0) + 2 * w(2) + 4 * w(5), v(0) + 2 * w(2) + 4 * v(5),
                        v(0) + 2 * v(2) + 4 * w(6), v(0) + 2 * v(2) + 4 * v(6)>>

\* A leaf comes one nearer whenever the LRU leaf, another, is made MRU.
LEMMA NearerSmall ==
    ASSUME NEW n \in SmallLeafs, NEW state, DecidesSmall(n, state), NEW leaf \in 0..n - 1,
           NEW lru \in 0..n - 1, state \cap mask[n][lru + 1] = compare[n][lru + 1]
    PROVE  /\ DistancesSmall(n, state)[leaf + 1] \in 0..n - 1
           /\ leaf # lru => DistancesSmall(n, LeafMRU(n, lru, state))[leaf + 1]
                               = DistancesSmall(n, state)[leaf + 1] - 1
<1>1. CASE n = 1
  BY <1>1 DEF DistancesSmall
<1>2. CASE n = 2
  <2>1. (leaf = 0 \/ leaf = 1) /\ (lru = 0 \/ lru = 1)
    BY <1>2
  <2> QED BY <1>2, <2>1, Tables DEF DistancesSmall, LeafMRU
<1>3. CASE n = 3
  <2>1. (leaf = 0 \/ leaf = 1 \/ leaf = 2) /\ (lru = 0 \/ lru = 1 \/ lru = 2)
    BY <1>3
  <2> QED BY <1>3, <2>1, Tables DEF DistancesSmall, LeafMRU, DecidesSmall
<1>4. CASE n = 4
  <2>1. (leaf = 0 \/ leaf = 1 \/ leaf = 2 \/ leaf = 3) /\ (lru = 0 \/ lru = 1 \/ lru = 2 \/ lru = 3)
    BY <1>4
  <2> QED BY <1>4, <2>1, Tables DEF DistancesSmall, LeafMRU
<1>5. CASE n = 6
  <2>1. PICK st : st = LeafMRU(n, lru, state)
    OBVIOUS
  <2>2. leaf = 0 \/ leaf = 1 \/ leaf = 2 \/ leaf = 3 \/ leaf = 4 \/ leaf = 5
    BY <1>5
  <2>3. CASE lru = 0
    <3>1. /\ 0 \notin state /\ 3 \notin state /\ 4 \notin state
          /\ 0 \in st /\ 3 \in st /\ 4 \in st
          /\ (1 \in st <=> 1 \in state) /\ (2 \in st <=> 2 \in state) /\ (5 \in st <=> 5 \in state)
      BY <1>5, <2>1, <2>3, Tables DEF LeafMRU
    <3> QED BY <1>5, <2>1, <2>2, <2>3, <3>1 DEF DistancesSmall, DecidesSmall
  <2>4. CASE lru = 1
    <3>1. /\ 0 \in state /\ 3 \notin state /\ 4 \notin state
          /\ 0 \notin st /\ 3 \in st /\ 4 \in st
          /\ (1 \in st <=> 1 \in state) /\ (2 \in st <=> 2 \in state) /\ (5 \in st <=> 5 \in state)
      BY <1>5, <2>1, <2>4, Tables DEF LeafMRU
    <3> QED BY <1>5, <2>1, <2>2, <2>4, <3>1 DEF DistancesSmall, DecidesSmall
  <2>5. CASE lru = 2
    <3>1. /\ 1 \notin state /\ 3 \in state /\ 5 \notin state
          /\ 1 \in st /\ 3 \notin st /\ 5 \in st
          /\ (0 \in st <=> 0 \in state) /\ (2 \in st <=> 2 \in state) /\ (4 \in st <=> 4 \in state)
      BY <1>5, <2>1, <2>5, Tables DEF LeafMRU
    <3> QED BY <1>5, <2>1, <2>2, <2>5, <3>1 DEF DistancesSmall, DecidesSmall
  <2>6. CASE lru = 3
    <3>1. /\ 1 \in state /\ 3 \in state /\ 5 \notin state
          /\ 1 \notin st /\ 3 \notin st /\ 5 \in st
          /\ (0 \in st <=> 0 \in state) /\ (2 \in st <=> 2 \in state) /\ (4 \in st <=> 4 \in state)
      BY <1>5, <2>1, <2>6, Tables DEF LeafMRU
    <3> QED BY <1>5, <2>1, <2>2, <2>6, <3>1 DEF DistancesSmall, DecidesSmall
  <2>7. CASE lru = 4
    <3>1. /\ 2 \notin state /\ 4 \in state /\ 5 \in state
          /\ 2 \in st /\ 4 \notin st /\ 5 \notin st
          /\ (0 \in st <=> 0 \in state) /\ (1 \in st <=> 1 \in state) /\ (3 \in st <=> 3 \in state)
      BY <1>5, <2>1, <2>7, Tables DEF LeafMRU
    <3> QED BY <1>5, <2>1, <2>2, <2>7, <3>1 DEF DistancesSmall, DecidesSmall
  <2>8. CASE lru = 5
    <3>1. /\ 2 \in state /\ 4 \in state /\ 5 \in state
          /\ 2 \notin st /\ 4 \notin st /\ 5 \notin st
          /\ (0 \in st <=> 0 \in state) /\ (1 \in st <=> 1 \in state) /\ (3 \in st <=> 3 \in state)
      BY <1>5, <2>1, <2>8, Tables DEF LeafMRU
    <3> QED BY <1>5, <2>1, <2>2, <2>8, <3>1 DEF DistancesSmall, DecidesSmall
  <2> QED BY <1>5, <2>3, <2>4, <2>5, <2>6, <2>7, <2>8
<1>6. CASE n = 8
  <2>1. PICK st : st = LeafMRU(n, lru, state)
    OBVIOUS
  <2>2. leaf = 0 \/ leaf = 1 \/ leaf = 2 \/ leaf = 3 \/ leaf = 4 \/ leaf = 5 \/ leaf = 6 \/ leaf = 7
    BY <1>6
  <2>3. CASE lru = 0
    <3>1. /\ 0 \notin state /\ 1 \notin state /\ 3 \notin state
          /\ 0 \in st /\ 1 \in st /\ 3 \in st
          /\ (2 \in st <=> 2 \in state) /\ (4 \in st <=> 4 \in state) /\ (5 \in st <=> 5 \in state) /\ (6 \in st <=> 6 \in state)
      BY <1>6, <2>1, <2>3, Tables DEF LeafMRU
    <3> QED BY <1>6, <2>1, <2>2, <2>3, <3>1 DEF DistancesSmall
  <2>4. CASE lru = 1
    <3>1. /\ 0 \notin state /\ 1 \notin state /\ 3 \in state
          /\ 0 \in st /\ 1 \in st /\ 3 \notin st
          /\ (2 \in st <=> 2 \in state) /\ (4 \in st <=> 4 \in state) /\ (5 \in st <=> 5 \in state) /\ (6 \in st <=> 6 \in state)
      BY <1>6, <2>1, <2>4, Tables DEF LeafMRU
    <3> QED BY <1>6, <2>1, <2>2, <2>4, <3>1 DEF DistancesSmall
  <2>5. CASE lru = 2
    <3>1. /\ 0 \notin state /\ 1 \in state /\ 4 \notin state
          /\ 0 \in st /\ 1 \notin st /\ 4 \in st
          /\ (2 \in st <=> 2 \in state) /\ (3 \in st <=> 3 \in state) /\ (5 \in st <=> 5 \in state) /\ (6 \in st <=> 6 \in state)
      BY <1>6, <2>1, <2>5, Tables DEF LeafMRU
    <3> QED BY <1>6, <2>1, <2>2, <2>5, <3>1 DEF DistancesSmall
  <2>6. CASE lru = 3
    <3>1. /\ 0 \notin state /\ 1 \in state /\ 4 \in state
          /\ 0 \in st /\ 1 \notin st /\ 4 \notin st
          /\ (2 \in st <=> 2 \in state) /\ (3 \in st <=> 3 \in state) /\ (5 \in st <=> 5 \in state) /\ (6 \in st <=> 6 \in state)
      BY <1>6, <2>1, <2>6, Tables DEF LeafMRU
    <3> QED BY <1>6, <2>1, <2>2, <2>6, <3>1 DEF DistancesSmall
  <2>7. CASE lru = 4
    <3>1. /\ 0 \in state /\ 2 \notin state /\ 5 \notin state
          /\ 0 \notin st /\ 2 \in st /\ 5 \in st
          /\ (1 \in st <=> 1 \in state) /\ (3 \in st <=> 3 \in state) /\ (4 \in st <=> 4 \in state) /\ (6 \in st <=> 6 \in state)
      BY <1>6, <2>1, <2>7, Tables DEF LeafMRU
    <3> QED BY <1>6, <2>1, <2>2, <2>7, <3>1 DEF DistancesSmall
  <2>8. CASE lru = 5
    <3>1. /\ 0 \in state /\ 2 \notin state /\ 5 \in state
          /\ 0 \notin st /\ 2 \in st /\ 5 \notin st
          /\ (1 \in st <=> 1 \in state) /\ (3 \in st <=> 3 \in state) /\ (4 \in st <=> 4 \in state) /\ (6 \in st <=> 6 \in state)
      BY <1>6, <2>1, <2>8, Tables DEF LeafMRU
    <3> QED BY <1>6, <2>1, <2>2, <2>8, <3>1 DEF DistancesSmall
  <2>9. CASE lru = 6
    <3>1. /\ 0 \in state /\ 2 \in state /\ 6 \notin state
          /\ 0 \notin st /\ 2 \notin st /\ 6 \in st
          /\ (1 \in st <=> 1 \in state) /\ (3 \in st <=> 3 \in state) /\ (4 \in st <=> 4 \in state) /\ (5 \in st <=> 5 \in state)
      BY <1>6, <2>1, <2>9, Tables DEF LeafMRU
    <3> QED BY <1>6, <2>1, <2>2, <2>9, <3>1 DEF DistancesSmall
  <2>10. CASE lru = 7
    <3>1. /\ 0 \in state /\ 2 \in state /\ 6 \in state
          /\ 0 \notin st /\ 2 \notin st /\ 6 \notin st
          /\ (1 \in st <=> 1 \in state) /\ (3 \in st <=> 3 \in state) /\ (4 \in st <=> 4 \in state) /\ (5 \in st <=> 5 \in state)
      BY <1>6, <2>1, <2>10, Tables DEF LeafMRU
    <3> QED BY <1>6, <2>1, <2>2, <2>10, <3>1 DEF DistancesSmall
  <2> QED BY <1>6, <2>3, <2>4, <2>5, <2>6, <2>7, <2>8, <2>9, <2>10
<1> QED BY <1>1, <1>2, <1>3, <1>4, <1>5, <1>6 DEF SmallLeafs

\* The LRU leaf is to become the LRU one at once, and made MRU it comes last.
LEMMA LastAndFirst ==
    ASSUME NEW n \in {3, 4, 6}, NEW state, DecidesSmall(n, state),
           NEW lru \in 0..n - 1, state \cap mask[n][lru + 1] = compare[n][lru + 1]
    PROVE  /\ DistancesSmall(n, state)[lru + 1] = 0
           /\ DistancesSmall(n, LeafMRU(n, lru, state))[lru + 1] = n - 1
<1>1. CASE n = 3
  <2>1. lru = 0 \/ lru = 1 \/ lru = 2
    BY <1>1
  <2> QED BY <1>1, <2>1, Tables DEF DistancesSmall, LeafMRU
<1>2. CASE n = 4
  <2>1. lru = 0 \/ lru = 1 \/ lru = 2 \/ lru = 3
    BY <1>2
  <2> QED BY <1>2, <2>1, Tables DEF DistancesSmall, LeafMRU
<1>3. CASE n = 6
  <2>1. lru = 0 \/ lru = 1 \/ lru = 2 \/ lru = 3 \/ lru = 4 \/ lru = 5
    BY <1>3
  <2> QED BY <1>3, <2>1, Tables DEF DistancesSmall, LeafMRU
<1> QED BY <1>1, <1>2, <1>3

-----------------------------------------------------------------------------
(* The large trees: what they are as trees of smaller ones *)

\* The bits of a group of leaves and those above are different ones.
LEMMA BitsApart ==
    ASSUME NEW n \in LargeLeafs
    PROVE  /\ Groups(n) \in {3, 4, 6} /\ n = 4 * Groups(n) /\ Groups(n) \in SmallLeafs
           /\ \A g \in 0..Groups(n) - 1 : \A b \in 0..2 : \A c \in Nodes(n) : FirstBit(n, g) + b # NodeBit(n, c)
           /\ \A g, h \in 0..Groups(n) - 1 : \A b, c \in 0..2 :
                 FirstBit(n, g) + b = FirstBit(n, h) + c => g = h /\ b = c
           /\ \A b, c \in Nodes(n) : NodeBit(n, b) = NodeBit(n, c) => b = c
<1>1. CASE n = 12
  <2>1. Groups(n) = 3 /\ Nodes(n) = 0..2 /\ \A g : FirstBit(n, g) = 3 * g /\ \A b : NodeBit(n, b) = 9 + b
    BY <1>1 DEF Groups, Nodes, FirstBit, NodeBit
  <2> QED BY <1>1, <2>1 DEF SmallLeafs
<1>2. ASSUME n = 16 \/ n = 24, NEW g \in 0..5
      PROVE  FirstBit(n, g) = CASE g = 0 -> 0 [] g = 1 -> 3 [] g = 2 -> 7
                                [] g = 3 -> 10 [] g = 4 -> 14 [] g = 5 -> 17
  <2>1. g = 0 \/ g = 1 \/ g = 2 \/ g = 3 \/ g = 4 \/ g = 5
    OBVIOUS
  <2> QED BY <1>2, <2>1 DEF FirstBit
<1>3. CASE n = 16
  <2>1. Groups(n) = 4 /\ Nodes(n) = 0..2 /\ NodeBit(n, 0) = 6 /\ NodeBit(n, 1) = 13 /\ NodeBit(n, 2) = 14
    BY <1>3 DEF Groups, Nodes, NodeBit
  <2>2. \A g \in 0..3 : FirstBit(n, g) = CASE g = 0 -> 0 [] g = 1 -> 3 [] g = 2 -> 7 [] g = 3 -> 10
    <3>1. TAKE g \in 0..3
    <3>2. g \in 0..5 /\ (g = 0 \/ g = 1 \/ g = 2 \/ g = 3)
      OBVIOUS
    <3> QED BY <1>2, <1>3, <3>2
  <2>3. \A b \in 0..2 : b = 0 \/ b = 1 \/ b = 2
    OBVIOUS
  <2> QED BY <1>3, <2>1, <2>2, <2>3 DEF SmallLeafs
<1>4. CASE n = 24
  <2>1. /\ Groups(n) = 6 /\ Nodes(n) = 0..5
        /\ NodeBit(n, 0) = 6 /\ NodeBit(n, 1) = 13 /\ NodeBit(n, 2) = 20
        /\ NodeBit(n, 3) = 21 /\ NodeBit(n, 4) = 22 /\ NodeBit(n, 5) = 23
    BY <1>4 DEF Groups, Nodes, NodeBit
  <2>2. \A g \in 0..5 : FirstBit(n, g) = CASE g = 0 -> 0 [] g = 1 -> 3 [] g = 2 -> 7
                                           [] g = 3 -> 10 [] g = 4 -> 14 [] g = 5 -> 17
    BY <1>2, <1>4
  <2>3. \A b \in 0..5 : b = 0 \/ b = 1 \/ b = 2 \/ b = 3 \/ b = 4 \/ b = 5
    OBVIOUS
  <2> QED BY <1>4, <2>1, <2>2, <2>3 DEF SmallLeafs
<1> QED BY <1>1, <1>3, <1>4 DEF LargeLeafs

\* The bits set for a leaf of a small tree are among those on its way.
LEMMA TableBits ==
    ASSUME NEW n \in {3, 4, 6}, NEW leaf \in 0..n - 1
    PROVE  /\ mask[n][leaf + 1] \subseteq (IF n = 6 THEN 0..5 ELSE 0..2)
           /\ compare[n][leaf + 1] \subseteq mask[n][leaf + 1] /\ mask[n][leaf + 1] # {}
<1>1. CASE n = 3
  <2>1. leaf = 0 \/ leaf = 1 \/ leaf = 2
    BY <1>1
  <2> QED BY <1>1, <2>1, Tables
<1>2. CASE n = 4
  <2>1. leaf = 0 \/ leaf = 1 \/ leaf = 2 \/ leaf = 3
    BY <1>2
  <2> QED BY <1>2, <2>1, Tables
<1>3. CASE n = 6
  <2>1. leaf = 0 \/ leaf = 1 \/ leaf = 2 \/ leaf = 3 \/ leaf = 4 \/ leaf = 5
    BY <1>3
  <2> QED BY <1>3, <2>1, Tables
<1> QED BY <1>1, <1>2, <1>3

\* The bits of a leaf of a large tree, made of those of the leaf i of its group
\* and those of the group g in the tree above.
Spread(n, g, low, up) == {FirstBit(n, g) + b : b \in low} \cup {NodeBit(n, b) : b \in up}

LEMMA LargeTables ==
    ASSUME NEW n \in LargeLeafs, NEW g \in 0..Groups(n) - 1, NEW i \in 0..3
    PROVE  /\ mask[n][4 * g + i + 1] = Spread(n, g, mask[4][i + 1], mask[Groups(n)][g + 1])
           /\ compare[n][4 * g + i + 1] = Spread(n, g, compare[4][i + 1], compare[Groups(n)][g + 1])
<1>0. i = 0 \/ i = 1 \/ i = 2 \/ i = 3
  OBVIOUS
<1>1. CASE n = 12
  <2>0. /\ Groups(n) = 3 /\ \A b : NodeBit(n, b) = 9 + b
    BY <1>1 DEF Groups, NodeBit
  <2>1. g = 0 \/ g = 1 \/ g = 2
    BY <2>0
  <2>2. CASE g = 0
    <3>1. FirstBit(n, g) = 0
      BY <1>1, <2>2 DEF FirstBit
    <3>2. /\ mask[n][1] = {0, 2, 9, 10} /\ mask[n][2] = {0, 2, 9, 10}
          /\ mask[n][3] = {1, 2, 9, 10} /\ mask[n][4] = {1, 2, 9, 10}
      BY <1>1 DEF mask, PLRULeafs, Twice
    <3>3. /\ compare[n][1] = {} /\ compare[n][2] = {0}
          /\ compare[n][3] = {2} /\ compare[n][4] = {1, 2}
      BY <1>1 DEF compare, PLRULeafs
    <3>4. mask[n][4 * g + i + 1] = Spread(n, g, mask[4][i + 1], mask[Groups(n)][g + 1])
      BY <1>0, <2>0, <2>2, <3>1, <3>2, Tables DEF Spread
    <3>5. compare[n][4 * g + i + 1] = Spread(n, g, compare[4][i + 1], compare[Groups(n)][g + 1])
      BY <1>0, <2>0, <2>2, <3>1, <3>3, Tables DEF Spread
    <3> QED BY <3>4, <3>5
  <2>3. CASE g = 1
    <3>1. FirstBit(n, g) = 3
      BY <1>1, <2>3 DEF FirstBit
    <3>2. /\ mask[n][5] = {3, 5, 9, 11} /\ mask[n][6] = {3, 5, 9, 11}
          /\ mask[n][7] = {4, 5, 9, 11} /\ mask[n][8] = {4, 5, 9, 11}
      BY <1>1 DEF mask, PLRULeafs, Twice
    <3>3. /\ compare[n][5] = {9} /\ compare[n][6] = {3, 9}
          /\ compare[n][7] = {5, 9} /\ compare[n][8] = {4, 5, 9}
      BY <1>1 DEF compare, PLRULeafs
    <3>4. mask[n][4 * g + i + 1] = Spread(n, g, mask[4][i + 1], mask[Groups(n)][g + 1])
      BY <1>0, <2>0, <2>3, <3>1, <3>2, Tables DEF Spread
    <3>5. compare[n][4 * g + i + 1] = Spread(n, g, compare[4][i + 1], compare[Groups(n)][g + 1])
      BY <1>0, <2>0, <2>3, <3>1, <3>3, Tables DEF Spread
    <3> QED BY <3>4, <3>5
  <2>4. CASE g = 2
    <3>1. FirstBit(n, g) = 6
      BY <1>1, <2>4 DEF FirstBit
    <3>2. /\ mask[n][9] = {6, 8, 10, 11} /\ mask[n][10] = {6, 8, 10, 11}
          /\ mask[n][11] = {7, 8, 10, 11} /\ mask[n][12] = {7, 8, 10, 11}
      BY <1>1 DEF mask, PLRULeafs, Twice
    <3>3. /\ compare[n][9] = {10, 11} /\ compare[n][10] = {6, 10, 11}
          /\ compare[n][11] = {8, 10, 11} /\ compare[n][12] = {7, 8, 10, 11}
      BY <1>1 DEF compare, PLRULeafs
    <3>4. mask[n][4 * g + i + 1] = Spread(n, g, mask[4][i + 1], mask[Groups(n)][g + 1])
      BY <1>0, <2>0, <2>4, <3>1, <3>2, Tables DEF Spread
    <3>5. compare[n][4 * g + i + 1] = Spread(n, g, compare[4][i + 1], compare[Groups(n)][g + 1])
      BY <1>0, <2>0, <2>4, <3>1, <3>3, Tables DEF Spread
    <3> QED BY <3>4, <3>5
  <2> QED BY <2>1, <2>2, <2>3, <2>4
<1>2. CASE n = 16
  <2>0. /\ Groups(n) = 4 /\ NodeBit(n, 0) = 6 /\ NodeBit(n, 1) = 13 /\ NodeBit(n, 2) = 14
    BY <1>2 DEF Groups, NodeBit
  <2>1. g = 0 \/ g = 1 \/ g = 2 \/ g = 3
    BY <2>0
  <2>2. CASE g = 0
    <3>1. FirstBit(n, g) = 0
      BY <1>2, <2>2 DEF FirstBit
    <3>2. /\ mask[n][1] = {0, 2, 6, 14} /\ mask[n][2] = {0, 2, 6, 14}
          /\ mask[n][3] = {1, 2, 6, 14} /\ mask[n][4] = {1, 2, 6, 14}
      BY <1>2 DEF mask, PLRULeafs, Twice
    <3>3. /\ compare[n][1] = {} /\ compare[n][2] = {0}
          /\ compare[n][3] = {2} /\ compare[n][4] = {1, 2}
      BY <1>2 DEF compare, PLRULeafs
    <3>4. mask[n][4 * g + i + 1] = Spread(n, g, mask[4][i + 1], mask[Groups(n)][g + 1])
      BY <1>0, <2>0, <2>2, <3>1, <3>2, Tables DEF Spread
    <3>5. compare[n][4 * g + i + 1] = Spread(n, g, compare[4][i + 1], compare[Groups(n)][g + 1])
      BY <1>0, <2>0, <2>2, <3>1, <3>3, Tables DEF Spread
    <3> QED BY <3>4, <3>5
  <2>3. CASE g = 1
    <3>1. FirstBit(n, g) = 3
      BY <1>2, <2>3 DEF FirstBit
    <3>2. /\ mask[n][5] = {3, 5, 6, 14} /\ mask[n][6] = {3, 5, 6, 14}
          /\ mask[n][7] = {4, 5, 6, 14} /\ mask[n][8] = {4, 5, 6, 14}
      BY <1>2 DEF mask, PLRULeafs, Twice
    <3>3. /\ compare[n][5] = {6} /\ compare[n][6] = {3, 6}
          /\ compare[n][7] = {5, 6} /\ compare[n][8] = {4, 5, 6}
      BY <1>2 DEF compare, PLRULeafs
    <3>4. mask[n][4 * g + i + 1] = Spread(n, g, mask[4][i + 1], mask[Groups(n)][g + 1])
      BY <1>0, <2>0, <2>3, <3>1, <3>2, Tables DEF Spread
    <3>5. compare[n][4 * g + i + 1] = Spread(n, g, compare[4][i + 1], compare[Groups(n)][g + 1])
      BY <1>0, <2>0, <2>3, <3>1, <3>3, Tables DEF Spread
    <3> QED BY <3>4, <3>5
  <2>4. CASE g = 2
    <3>1. FirstBit(n, g) = 7
      BY <1>2, <2>4 DEF FirstBit
    <3>2. /\ mask[n][9] = {7, 9, 13, 14} /\ mask[n][10] = {7, 9, 13, 14}
          /\ mask[n][11] = {8, 9, 13, 14} /\ mask[n][12] = {8, 9, 13, 14}
      BY <1>2 DEF mask, PLRULeafs, Twice
    <3>3. /\ compare[n][9] = {14} /\ compare[n][10] = {7, 14}
          /\ compare[n][11] = {9, 14} /\ compare[n][12] = {8, 9, 14}
      BY <1>2 DEF compare, PLRULeafs
    <3>4. mask[n][4 * g + i + 1] = Spread(n, g, mask[4][i + 1], mask[Groups(n)][g + 1])
      BY <1>0, <2>0, <2>4, <3>1, <3>2, Tables DEF Spread
    <3>5. compare[n][4 * g + i + 1] = Spread(n, g, compare[4][i + 1], compare[Groups(n)][g + 1])
      BY <1>0, <2>0, <2>4, <3>1, <3>3, Tables DEF Spread
    <3> QED BY <3>4, <3>5
  <2>5. CASE g = 3
    <3>1. FirstBit(n, g) = 10
      BY <1>2, <2>5 DEF FirstBit
    <3>2. /\ mask[n][13] = {10, 12, 13, 14} /\ mask[n][14] = {10, 12, 13, 14}
          /\ mask[n][15] = {11, 12, 13, 14} /\ mask[n][16] = {11, 12, 13, 14}
      BY <1>2 DEF mask, PLRULeafs, Twice
    <3>3. /\ compare[n][13] = {13, 14} /\ compare[n][14] = {10, 13, 14}
          /\ compare[n][15] = {12, 13, 14} /\ compare[n][16] = {11, 12, 13, 14}
      BY <1>2 DEF compare, PLRULeafs
    <3>4. mask[n][4 * g + i + 1] = Spread(n, g, mask[4][i + 1], mask[Groups(n)][g + 1])
      BY <1>0, <2>0, <2>5, <3>1, <3>2, Tables DEF Spread
    <3>5. compare[n][4 * g + i + 1] = Spread(n, g, compare[4][i + 1], compare[Groups(n)][g + 1])
      BY <1>0, <2>0, <2>5, <3>1, <3>3, Tables DEF Spread
    <3> QED BY <3>4, <3>5
  <2> QED BY <2>1, <2>2, <2>3, <2>4, <2>5
<1>3. CASE n = 24
  <2>0. /\ Groups(n) = 6 /\ NodeBit(n, 0) = 6 /\ NodeBit(n, 1) = 13 /\ NodeBit(n, 2) = 20
        /\ NodeBit(n, 3) = 21 /\ NodeBit(n, 4) = 22 /\ NodeBit(n, 5) = 23
    BY <1>3 DEF Groups, NodeBit
  <2>1. g = 0 \/ g = 1 \/ g = 2 \/ g = 3 \/ g = 4 \/ g = 5
    BY <2>0
  <2>2. CASE g = 0
    <3>1. FirstBit(n, g) = 0
      BY <1>3, <2>2 DEF FirstBit
    <3>2. /\ mask[n][1] = {0, 2, 6, 21, 22} /\ mask[n][2] = {0, 2, 6, 21, 22}
          /\ mask[n][3] = {1, 2, 6, 21, 22} /\ mask[n][4] = {1, 2, 6, 21, 22}
      BY <1>3 DEF mask, PLRULeafs, Twice
    <3>3. /\ compare[n][1] = {} /\ compare[n][2] = {0}
          /\ compare[n][3] = {2} /\ compare[n][4] = {1, 2}
      BY <1>3 DEF compare, PLRULeafs
    <3>4. mask[n][4 * g + i + 1] = Spread(n, g, mask[4][i + 1], mask[Groups(n)][g + 1])
      BY <1>0, <2>0, <2>2, <3>1, <3>2, Tables DEF Spread
    <3>5. compare[n][4 * g + i + 1] = Spread(n, g, compare[4][i + 1], compare[Groups(n)][g + 1])
      BY <1>0, <2>0, <2>2, <3>1, <3>3, Tables DEF Spread
    <3> QED BY <3>4, <3>5
  <2>3. CASE g = 1
    <3>1. FirstBit(n, g) = 3
      BY <1>3, <2>3 DEF FirstBit
    <3>2. /\ mask[n][5] = {3, 5, 6, 21, 22} /\ mask[n][6] = {3, 5, 6, 21, 22}
          /\ mask[n][7] = {4, 5, 6, 21, 22} /\ mask[n][8] = {4, 5, 6, 21, 22}
      BY <1>3 DEF mask, PLRULeafs, Twice
    <3>3. /\ compare[n][5] = {6} /\ compare[n][6] = {3, 6}
          /\ compare[n][7] = {5, 6} /\ compare[n][8] = {4, 5, 6}
      BY <1>3 DEF compare, PLRULeafs
    <3>4. mask[n][4 * g + i + 1] = Spread(n, g, mask[4][i + 1], mask[Groups(n)][g + 1])
      BY <1>0, <2>0, <2>3, <3>1, <3>2, Tables DEF Spread
    <3>5. compare[n][4 * g + i + 1] = Spread(n, g, compare[4][i + 1], compare[Groups(n)][g + 1])
      BY <1>0, <2>0, <2>3, <3>1, <3>3, Tables DEF Spread
    <3> QED BY <3>4, <3>5
  <2>4. CASE g = 2
    <3>1. FirstBit(n, g) = 7
      BY <1>3, <2>4 DEF FirstBit
    <3>2. /\ mask[n][9] = {7, 9, 13, 21, 23} /\ mask[n][10] = {7, 9, 13, 21, 23}
          /\ mask[n][11] = {8, 9, 13, 21, 23} /\ mask[n][12] = {8, 9, 13, 21, 23}
      BY <1>3 DEF mask, PLRULeafs, Twice
    <3>3. /\ compare[n][9] = {21} /\ compare[n][10] = {7, 21}
          /\ compare[n][11] = {9, 21} /\ compare[n][12] = {8, 9, 21}
      BY <1>3 DEF compare, PLRULeafs
    <3>4. mask[n][4 * g + i + 1] = Spread(n, g, mask[4][i + 1], mask[Groups(n)][g + 1])
      BY <1>0, <2>0, <2>4, <3>1, <3>2, Tables DEF Spread
    <3>5. compare[n][4 * g + i + 1] = Spread(n, g, compare[4][i + 1], compare[Groups(n)][g + 1])
      BY <1>0, <2>0, <2>4, <3>1, <3>3, Tables DEF Spread
    <3> QED BY <3>4, <3>5
  <2>5. CASE g = 3
    <3>1. FirstBit(n, g) = 10
      BY <1>3, <2>5 DEF FirstBit
    <3>2. /\ mask[n][13] = {10, 12, 13, 21, 23} /\ mask[n][14] = {10, 12, 13, 21, 23}
          /\ mask[n][15] = {11, 12, 13, 21, 23} /\ mask[n][16] = {11, 12, 13, 21, 23}
      BY <1>3 DEF mask, PLRULeafs, Twice
    <3>3. /\ compare[n][13] = {13, 21} /\ compare[n][14] = {10, 13, 21}
          /\ compare[n][15] = {12, 13, 21} /\ compare[n][16] = {11, 12, 13, 21}
      BY <1>3 DEF compare, PLRULeafs
    <3>4. mask[n][4 * g + i + 1] = Spread(n, g, mask[4][i + 1], mask[Groups(n)][g + 1])
      BY <1>0, <2>0, <2>5, <3>1, <3>2, Tables DEF Spread
    <3>5. compare[n][4 * g + i + 1] = Spread(n, g, compare[4][i + 1], compare[Groups(n)][g + 1])
      BY <1>0, <2>0, <2>5, <3>1, <3>3, Tables DEF Spread
    <3> QED BY <3>4, <3>5
  <2>6. CASE g = 4
    <3>1. FirstBit(n, g) = 14
      BY <1>3, <2>6 DEF FirstBit
    <3>2. /\ mask[n][17] = {14, 16, 20, 22, 23} /\ mask[n][18] = {14, 16, 20, 22, 23}
          /\ mask[n][19] = {15, 16, 20, 22, 23} /\ mask[n][20] = {15, 16, 20, 22, 23}
      BY <1>3 DEF mask, PLRULeafs, Twice
    <3>3. /\ compare[n][17] = {22, 23} /\ compare[n][18] = {14, 22, 23}
          /\ compare[n][19] = {16, 22, 23} /\ compare[n][20] = {15, 16, 22, 23}
      BY <1>3 DEF compare, PLRULeafs
    <3>4. mask[n][4 * g + i + 1] = Spread(n, g, mask[4][i + 1], mask[Groups(n)][g + 1])
      BY <1>0, <2>0, <2>6, <3>1, <3>2, Tables DEF Spread
    <3>5. compare[n][4 * g + i + 1] = Spread(n, g, compare[4][i + 1], compare[Groups(n)][g + 1])
      BY <1>0, <2>0, <2>6, <3>1, <3>3, Tables DEF Spread
    <3> QED BY <3>4, <3>5
  <2>7. CASE g = 5
    <3>1. FirstBit(n, g) = 17
      BY <1>3, <2>7 DEF FirstBit
    <3>2. /\ mask[n][21] = {17, 19, 20, 22, 23} /\ mask[n][22] = {17, 19, 20, 22, 23}
          /\ mask[n][23] = {18, 19, 20, 22, 23} /\ mask[n][24] = {18, 19, 20, 22, 23}
      BY <1>3 DEF mask, PLRULeafs, Twice
    <3>3. /\ compare[n][21] = {20, 22, 23} /\ compare[n][22] = {17, 20, 22, 23}
          /\ compare[n][23] = {19, 20, 22, 23} /\ compare[n][24] = {18, 19, 20, 22, 23}
      BY <1>3 DEF compare, PLRULeafs
    <3>4. mask[n][4 * g + i + 1] = Spread(n, g, mask[4][i + 1], mask[Groups(n)][g + 1])
      BY <1>0, <2>0, <2>7, <3>1, <3>2, Tables DEF Spread
    <3>5. compare[n][4 * g + i + 1] = Spread(n, g, compare[4][i + 1], compare[Groups(n)][g + 1])
      BY <1>0, <2>0, <2>7, <3>1, <3>3, Tables DEF Spread
    <3> QED BY <3>4, <3>5
  <2> QED BY <2>1, <2>2, <2>3, <2>4, <2>5, <2>6, <2>7
<1> QED BY <1>1, <1>2, <1>3 DEF LargeLeafs

\* The leaf i of the group g of a large tree.
InGroup(n, leaf, g, i) ==
    n \in LargeLeafs /\ g \in 0..Groups(n) - 1 /\ i \in 0..3 /\ leaf = 4 * g + i

\* Is it the LRU one?
IsLRU(n, leaf, state) == state \cap mask[n][leaf + 1] = compare[n][leaf + 1]

\* A leaf of a large tree is the LRU one if its group is and it is that of its
\* group, and it is made MRU or LRU in both trees, the other groups left alone.
TwoTrees(n, leaf, g, i, state) ==
    /\ IsLRU(n, leaf, state) <=>
          IsLRU(Groups(n), g, UpperTree(n, state)) /\ IsLRU(4, i, LowerTree(n, g, state))
    /\ UpperTree(n, LeafMRU(n, leaf, state)) = LeafMRU(Groups(n), g, UpperTree(n, state))
    /\ UpperTree(n, LeafLRU(n, leaf, state)) = LeafLRU(Groups(n), g, UpperTree(n, state))
    /\ \A h \in 0..Groups(n) - 1 : LowerTree(n, h, LeafMRU(n, leaf, state)) =
          IF h = g THEN LeafMRU(4, i, LowerTree(n, g, state)) ELSE LowerTree(n, h, state)

LEMMA AsTwoTrees ==
    ASSUME NEW n, NEW leaf, NEW g, NEW i, InGroup(n, leaf, g, i), NEW state
    PROVE  TwoTrees(n, leaf, g, i, state)
<1>0. n \in LargeLeafs /\ g \in 0..Groups(n) - 1 /\ i \in 0..3 /\ leaf = 4 * g + i
  BY DEF InGroup
<1>1. PICK m, M, C, ml, cl, mu, cu, nodes :
         /\ m = Groups(n) /\ M = mask[n][leaf + 1] /\ C = compare[n][leaf + 1] /\ nodes = Nodes(n)
         /\ ml = mask[4][i + 1] /\ cl = compare[4][i + 1]
         /\ mu = mask[m][g + 1] /\ cu = compare[m][g + 1]
  OBVIOUS
<1>2. /\ ml \subseteq 0..2 /\ cl \subseteq ml /\ mu \subseteq nodes /\ cu \subseteq mu
  <2>1. m \in {3, 4, 6} /\ (m = 6 <=> n = 24) /\ g \in 0..m - 1
    BY <1>0, <1>1, BitsApart
  <2>2. mu \subseteq nodes /\ cu \subseteq mu
    BY <1>1, <2>1, TableBits DEF Nodes
  <2>3. 4 \in {3, 4, 6} /\ i \in 0..4 - 1
    BY <1>0
  <2>4. ml \subseteq 0..2 /\ cl \subseteq ml
    BY <1>1, <2>3, TableBits
  <2> QED BY <2>2, <2>4
<1>3. M = Spread(n, g, ml, mu) /\ C = Spread(n, g, cl, cu)
  BY <1>0, <1>1, LargeTables
<1>4. /\ \A h \in 0..m - 1 : \A b \in 0..2 : \A c \in nodes : FirstBit(n, h) + b # NodeBit(n, c)
      /\ \A h, k \in 0..m - 1 : \A b, c \in 0..2 : FirstBit(n, h) + b = FirstBit(n, k) + c => h = k /\ b = c
      /\ \A b, c \in nodes : NodeBit(n, b) = NodeBit(n, c) => b = c
      /\ g \in 0..m - 1
  BY <1>0, <1>1, BitsApart
<1>5. ASSUME NEW h \in 0..m - 1, NEW b \in 0..2
      PROVE  /\ FirstBit(n, h) + b \in M <=> h = g /\ b \in ml
             /\ FirstBit(n, h) + b \in C <=> h = g /\ b \in cl
  <2>1. ASSUME NEW low \in SUBSET (0..2), NEW high \in SUBSET nodes
        PROVE  FirstBit(n, h) + b \in Spread(n, g, low, high) <=> h = g /\ b \in low
    BY <1>4, <1>5, <2>1 DEF Spread
  <2> QED BY <1>2, <1>3, <2>1
<1>6. ASSUME NEW b \in nodes
      PROVE  (NodeBit(n, b) \in M <=> b \in mu) /\ (NodeBit(n, b) \in C <=> b \in cu)
  BY <1>2, <1>3, <1>4, <1>6 DEF Spread
<1>7. ASSUME NEW x \in M
      PROVE  (\E b \in 0..2 : x = FirstBit(n, g) + b) \/ (\E b \in nodes : x = NodeBit(n, b))
  BY <1>2, <1>3 DEF Spread
<1>8. C \subseteq M
  BY <1>2, <1>3 DEF Spread
<1>9. \A b : b \in UpperTree(n, state) <=> b \in nodes /\ NodeBit(n, b) \in state
  BY <1>1 DEF UpperTree
<1>10. \A h, b : b \in LowerTree(n, h, state) <=> b \in 0..2 /\ FirstBit(n, h) + b \in state
  BY DEF LowerTree
<1>11. state \cap M = C <=> /\ UpperTree(n, state) \cap mu = cu
                            /\ LowerTree(n, g, state) \cap ml = cl
  <2>1. ASSUME state \cap M = C
        PROVE  UpperTree(n, state) \cap mu = cu /\ LowerTree(n, g, state) \cap ml = cl
    <3>1. ASSUME NEW b PROVE b \in UpperTree(n, state) \cap mu <=> b \in cu
      BY <1>2, <1>6, <1>9, <2>1
    <3>2. ASSUME NEW b PROVE b \in LowerTree(n, g, state) \cap ml <=> b \in cl
      BY <1>2, <1>4, <1>5, <1>10, <2>1
    <3> QED BY <3>1, <3>2
  <2>2. ASSUME UpperTree(n, state) \cap mu = cu, LowerTree(n, g, state) \cap ml = cl
        PROVE  state \cap M = C
    <3>1. ASSUME NEW x \in M PROVE x \in state <=> x \in C
      <4>1. CASE \E b \in 0..2 : x = FirstBit(n, g) + b
        <5>1. PICK b \in 0..2 : x = FirstBit(n, g) + b
          BY <4>1
        <5>2. b \in ml /\ (x \in C <=> b \in cl) /\ (x \in state <=> b \in LowerTree(n, g, state))
          BY <1>4, <1>5, <1>10, <3>1, <5>1
        <5>3. b \in LowerTree(n, g, state) \cap ml <=> b \in cl
          BY <2>2
        <5> QED BY <5>2, <5>3
      <4>2. CASE \E b \in nodes : x = NodeBit(n, b)
        <5>1. PICK b \in nodes : x = NodeBit(n, b)
          BY <4>2
        <5>2. b \in mu /\ (x \in C <=> b \in cu) /\ (x \in state <=> b \in UpperTree(n, state))
          BY <1>6, <1>9, <3>1, <5>1
        <5>3. b \in UpperTree(n, state) \cap mu <=> b \in cu
          BY <2>2
        <5> QED BY <5>2, <5>3
      <4> QED BY <1>7, <3>1, <4>1, <4>2
    <3> QED BY <1>8, <3>1
  <2> QED BY <2>1, <2>2
<1>12. \A x : /\ x \in LeafMRU(n, leaf, state) <=> (IF x \in M THEN x \notin C ELSE x \in state)
              /\ x \in LeafLRU(n, leaf, state) <=> x \in C \/ (x \in state /\ x \notin M)
  BY <1>1 DEF LeafMRU, LeafLRU
<1>13. \A s : \A b : /\ b \in LeafMRU(m, g, s) <=> (IF b \in mu THEN b \notin cu ELSE b \in s)
                     /\ b \in LeafLRU(m, g, s) <=> b \in cu \/ (b \in s /\ b \notin mu)
                     /\ b \in LeafMRU(4, i, s) <=> (IF b \in ml THEN b \notin cl ELSE b \in s)
  BY <1>1 DEF LeafMRU, LeafLRU
<1>14. ASSUME NEW b
       PROVE  /\ b \in UpperTree(n, LeafMRU(n, leaf, state)) <=> b \in LeafMRU(m, g, UpperTree(n, state))
              /\ b \in UpperTree(n, LeafLRU(n, leaf, state)) <=> b \in LeafLRU(m, g, UpperTree(n, state))
  <2>1. \A s : b \in UpperTree(n, s) <=> b \in nodes /\ NodeBit(n, b) \in s
    BY <1>1 DEF UpperTree
  <2> QED BY <1>2, <1>6, <1>12, <1>13, <2>1
<1>15. ASSUME NEW h \in 0..m - 1, NEW b
       PROVE  b \in LowerTree(n, h, LeafMRU(n, leaf, state)) <=>
                b \in (IF h = g THEN LeafMRU(4, i, LowerTree(n, g, state)) ELSE LowerTree(n, h, state))
  <2>1. \A s : b \in LowerTree(n, h, s) <=> b \in 0..2 /\ FirstBit(n, h) + b \in s
    BY DEF LowerTree
  <2>2. b \in 0..2 => /\ FirstBit(n, h) + b \in M <=> h = g /\ b \in ml
                      /\ FirstBit(n, h) + b \in C <=> h = g /\ b \in cl
    BY <1>5
  <2>3. CASE h = g
    <3>1. b \in LeafMRU(4, i, LowerTree(n, g, state)) <=>
             IF b \in ml THEN b \notin cl ELSE b \in LowerTree(n, g, state)
      BY <1>13
    <3>2. FirstBit(n, h) + b \in LeafMRU(n, leaf, state) <=>
             IF FirstBit(n, h) + b \in M THEN FirstBit(n, h) + b \notin C ELSE FirstBit(n, h) + b \in state
      BY <1>12
    <3> QED BY <1>2, <2>1, <2>2, <2>3, <3>1, <3>2
  <2>4. CASE h # g
    BY <1>12, <2>1, <2>2, <2>4
  <2> QED BY <2>3, <2>4
<1>16. /\ UpperTree(n, LeafMRU(n, leaf, state)) = LeafMRU(m, g, UpperTree(n, state))
       /\ UpperTree(n, LeafLRU(n, leaf, state)) = LeafLRU(m, g, UpperTree(n, state))
  BY <1>14
<1>17. \A h \in 0..m - 1 : LowerTree(n, h, LeafMRU(n, leaf, state)) =
           IF h = g THEN LeafMRU(4, i, LowerTree(n, g, state)) ELSE LowerTree(n, h, state)
  BY <1>15
<1> QED BY <1>1, <1>11, <1>16, <1>17 DEF TwoTrees, IsLRU

\* The leaf of a large tree as a leaf of one of its groups.
LEMMA LeafInGroup ==
    ASSUME NEW n \in LargeLeafs, NEW leaf \in 0..n - 1
    PROVE  InGroup(n, leaf, leaf \div 4, leaf % 4)
<1>1. Groups(n) \in {3, 4, 6} /\ n = 4 * Groups(n)
  BY BitsApart
<1> QED BY <1>1 DEF InGroup

\* Every tree has a LRU leaf, and it is the one given up.
LEMMA LeafOf ==
    ASSUME NEW n \in PLRULeafs, NEW state, Decides(n, state)
    PROVE  \E leaf \in 0..n - 1 :
              /\ getLRUWayFor(n, state) = leaf
              /\ state \cap mask[n][leaf + 1] = compare[n][leaf + 1]
<1> DEFINE leafs == {i \in 0..n - 1 : state \cap mask[n][i + 1] = compare[n][i + 1]}
<1>1. leafs # {}
  <2>1. CASE n \in LargeLeafs
    <3>1. PICK g \in 0..Groups(n) - 1 :
             UpperTree(n, state) \cap mask[Groups(n)][g + 1] = compare[Groups(n)][g + 1]
      BY <2>1, BitsApart, LeafOfSmall DEF Decides
    <3>2. PICK i \in 0..3 : LowerTree(n, g, state) \cap mask[4][i + 1] = compare[4][i + 1]
      <4>1. 4 \in SmallLeafs /\ DecidesSmall(4, LowerTree(n, g, state)) /\ 4 - 1 = 3
        BY DEF SmallLeafs, DecidesSmall
      <4> QED BY <4>1, LeafOfSmall
    <3>3. PICK leaf : leaf = 4 * g + i
      OBVIOUS
    <3>4. InGroup(n, leaf, g, i) /\ leaf \in 0..n - 1
      BY <2>1, <3>3, BitsApart DEF InGroup
    <3>5. TwoTrees(n, leaf, g, i, state)
      BY <3>4, AsTwoTrees
    <3>6. IsLRU(n, leaf, state)
      BY <3>1, <3>2, <3>5 DEF TwoTrees, IsLRU
    <3> QED BY <3>4, <3>6 DEF IsLRU
  <2>2. CASE n \in SmallLeafs
    <3>1. n \notin LargeLeafs
      BY <2>2 DEF SmallLeafs, LargeLeafs
    <3> QED BY <2>2, <3>1, LeafOfSmall DEF Decides
  <2> QED BY <2>1, <2>2 DEF PLRULeafs, SmallLeafs, LargeLeafs
<1>2. Min(leafs) \in leafs
  <2>1. leafs \in SUBSET Nat
    BY DEF PLRULeafs
  <2> HIDE DEF leafs
  <2> QED BY <1>1, <2>1, MinIsLeast
<1> QED BY <1>1, <1>2 DEF getLRUWayFor

\* A leaf made MRU or LRU has its place in the order, in every tree.
LEMMA LeafTouched ==
    ASSUME NEW n \in PLRULeafs, NEW leaf \in 0..n - 1, NEW state
    PROVE  Decides(n, LeafMRU(n, leaf, state)) /\ Decides(n, LeafLRU(n, leaf, state))
<1>1. CASE n \in LargeLeafs
  <2>1. PICK g, i : InGroup(n, leaf, g, i)
    BY <1>1, LeafInGroup
  <2>2. /\ UpperTree(n, LeafMRU(n, leaf, state)) = LeafMRU(Groups(n), g, UpperTree(n, state))
        /\ UpperTree(n, LeafLRU(n, leaf, state)) = LeafLRU(Groups(n), g, UpperTree(n, state))
        /\ g \in 0..Groups(n) - 1
    <3>1. TwoTrees(n, leaf, g, i, state)
      BY <2>1, AsTwoTrees
    <3> QED BY <2>1, <3>1 DEF TwoTrees, InGroup
  <2>3. Groups(n) \in SmallLeafs
    BY <1>1, BitsApart
  <2> QED BY <1>1, <2>2, <2>3, LeafTouchedSmall DEF Decides
<1>2. CASE n \in SmallLeafs
  <2>1. n \notin LargeLeafs
    BY <1>2 DEF SmallLeafs, LargeLeafs
  <2> QED BY <1>2, <2>1, LeafTouchedSmall DEF Decides
<1> QED BY <1>1, <1>2 DEF PLRULeafs, SmallLeafs, LargeLeafs

\* In a large tree the turns of the groups go round while a leaf of a group waits
\* for those of its group.
Distances(n, state) ==
    IF n \notin LargeLeafs THEN DistancesSmall(n, state)
    ELSE [j \in 1..n |->
            DistancesSmall(Groups(n), UpperTree(n, state))[(j - 1) \div 4 + 1]
            + Groups(n) * DistancesSmall(4, LowerTree(n, (j - 1) \div 4, state))[((j - 1) % 4) + 1]]

\* A leaf comes one nearer whenever the LRU leaf, another, is made MRU, in every
\* tree.
LEMMA Nearer ==
    ASSUME NEW n \in PLRULeafs, NEW state, Decides(n, state), NEW leaf \in 0..n - 1,
           NEW lru \in 0..n - 1, state \cap mask[n][lru + 1] = compare[n][lru + 1]
    PROVE  /\ Distances(n, state)[leaf + 1] \in 0..n - 1
           /\ leaf # lru =>
                 Distances(n, LeafMRU(n, lru, state))[leaf + 1] = Distances(n, state)[leaf + 1] - 1
<1>1. CASE n \in SmallLeafs
  <2>1. n \notin LargeLeafs
    BY <1>1 DEF SmallLeafs, LargeLeafs
  <2> QED BY <1>1, <2>1, NearerSmall DEF Decides, Distances
<1>2. CASE n \in LargeLeafs
  <2>1. PICK m, new, up, up2 : /\ m = Groups(n) /\ new = LeafMRU(n, lru, state)
                               /\ up = UpperTree(n, state) /\ up2 = UpperTree(n, new)
    OBVIOUS
  <2>2. m \in {3, 4, 6} /\ m \in SmallLeafs /\ n = 4 * m
    BY <1>2, <2>1, BitsApart
  <2>3. PICK g, i : g = leaf \div 4 /\ i = leaf % 4 /\ InGroup(n, leaf, g, i)
    BY <1>2, LeafInGroup
  <2>4. PICK h, k : InGroup(n, lru, h, k)
    BY <1>2, LeafInGroup
  <2>5. PICK low, low2 : low = LowerTree(n, g, state) /\ low2 = LowerTree(n, g, new)
    OBVIOUS
  <2>6. /\ g \in 0..m - 1 /\ i \in 0..3 /\ leaf = 4 * g + i
         /\ h \in 0..m - 1 /\ k \in 0..3 /\ lru = 4 * h + k
    BY <2>1, <2>3, <2>4 DEF InGroup
  <2>7. /\ up \cap mask[m][h + 1] = compare[m][h + 1] /\ up2 = LeafMRU(m, h, up)
        /\ LowerTree(n, h, state) \cap mask[4][k + 1] = compare[4][k + 1]
        /\ low2 = IF g = h THEN LeafMRU(4, k, low) ELSE low
    <3>1. TwoTrees(n, lru, h, k, state)
      BY <2>4, AsTwoTrees
    <3>2. IsLRU(m, h, up) /\ IsLRU(4, k, LowerTree(n, h, state))
      BY <2>1, <3>1 DEF TwoTrees, IsLRU
    <3> QED BY <2>1, <2>5, <2>6, <3>1, <3>2 DEF TwoTrees, IsLRU
  <2>8. DecidesSmall(m, up) /\ \A s : DecidesSmall(4, s)
    BY <1>2, <2>1 DEF Decides, DecidesSmall
  <2>9. PICK u, u2, l, l2 : /\ u = DistancesSmall(m, up)[g + 1] /\ u2 = DistancesSmall(m, up2)[g + 1]
                            /\ l = DistancesSmall(4, low)[i + 1] /\ l2 = DistancesSmall(4, low2)[i + 1]
    OBVIOUS
  <2>10. Distances(n, state)[leaf + 1] = u + m * l /\ Distances(n, new)[leaf + 1] = u2 + m * l2
    <3>1. leaf + 1 \in 1..n /\ (leaf + 1) - 1 = leaf
      BY <2>2
    <3> QED BY <1>2, <2>1, <2>3, <2>5, <2>9, <3>1 DEF Distances
  <2>11. u \in 0..m - 1 /\ (g # h => u2 = u - 1)
    BY <2>2, <2>6, <2>7, <2>8, <2>9, NearerSmall
  <2>12. g = h => u = 0 /\ u2 = m - 1
    <3>1. /\ DistancesSmall(m, up)[h + 1] = 0
          /\ DistancesSmall(m, LeafMRU(m, h, up))[h + 1] = m - 1
      BY <2>2, <2>6, <2>7, <2>8, LastAndFirst
    <3> QED BY <2>7, <2>9, <3>1
  <2>13. 4 \in SmallLeafs /\ i \in 0..4 - 1 /\ k \in 0..4 - 1
    BY <2>6 DEF SmallLeafs
  <2>14. l \in 0..3 /\ (g # h => l2 = l)
    <3>1. PICK j \in 0..4 - 1 : low \cap mask[4][j + 1] = compare[4][j + 1]
      BY <2>8, <2>13, LeafOfSmall
    <3>2. l \in 0..4 - 1
      BY <2>8, <2>9, <2>13, <3>1, NearerSmall
    <3> QED BY <2>7, <2>9, <3>2
  <2>15. g = h /\ i # k => l2 = l - 1
    BY <2>5, <2>7, <2>8, <2>9, <2>13, NearerSmall
  <2>16. PICK z, z2 : z = u + m * l /\ z2 = u2 + m * l2
    OBVIOUS
  <2>17. z \in 0..n - 1
    BY <2>2, <2>11, <2>14, <2>6, <2>16
  <2>18. ASSUME leaf # lru PROVE z2 = z - 1
    <3>1. CASE g # h
      <4>1. u2 = u - 1 /\ l2 = l
        BY <2>11, <2>14, <3>1
      <4> QED BY <2>2, <2>11, <2>14, <2>16, <4>1
    <3>2. CASE g = h /\ i # k
      <4>1. u = 0 /\ u2 = m - 1 /\ l2 = l - 1 /\ l \in 0..3
        BY <2>12, <2>14, <2>15, <3>2
      <4> QED BY <2>2, <2>16, <4>1
    <3> QED BY <2>6, <2>18, <3>1, <3>2
  <2>19. Distances(n, state)[leaf + 1] = z /\ Distances(n, new)[leaf + 1] = z2
    BY <2>10, <2>16
  <2> QED BY <2>1, <2>17, <2>18, <2>19
<1> QED BY <1>1, <1>2 DEF PLRULeafs, SmallLeafs, LargeLeafs

\* With a free leaf, the tree gives a leaf that is not reserved, and its LRU
\* leaf if none is.
LEMMA FreeLeaf ==
    ASSUME NEW n \in PLRULeafs, NEW state, Decides(n, state), NEW rsvd,
           NEW free \in 0..n - 1, free \notin rsvd
    PROVE  /\ getLRUWayWithReservations(n, state, rsvd) \in (0..n - 1) \ rsvd
           /\ rsvd = {} => getLRUWayWithReservations(n, state, rsvd) = getLRUWayFor(n, state)
<1> DEFINE skip(s) == LET leaf == getLRUWayFor(n, s)
                      IN  IF leaf \in rsvd THEN LeafMRU(n, leaf, s) ELSE s
           at[i \in 0..n] == IF i = 0 THEN state ELSE skip(at[i - 1])
<1>1. getLRUWayWithReservations(n, state, rsvd) =
        IF getLRUWayFor(n, at[n]) \in rsvd THEN NIL ELSE getLRUWayFor(n, at[n])
  BY DEF getLRUWayWithReservations
<1>2. at = CHOOSE f : f = [i \in 0..n |-> IF i = 0 THEN state ELSE skip(f[i - 1])]
  OBVIOUS
<1>3. n \in 1..24
  BY DEF PLRULeafs
<1> HIDE DEF at, skip
<1>4. at = [i \in 0..n |-> IF i = 0 THEN state ELSE skip(at[i - 1])]
  <2> DEFINE upTo(k, g) == g = [i \in 0..k |-> IF i = 0 THEN state ELSE skip(g[i - 1])]
             T == {k \in 0..n : \E g : upTo(k, g)}
  <2>1. 0 \in T
    <3>1. PICK g : g = [i \in 0..0 |-> state]
      OBVIOUS
    <3>2. \A i \in 0..0 : i = 0
      OBVIOUS
    <3>3. g = [i \in 0..0 |-> IF i = 0 THEN state ELSE skip(g[i - 1])]
      BY <3>1, <3>2
    <3> QED BY <1>3, <3>3
  <2>2. ASSUME NEW k \in 0..n - 1, k \in T PROVE k + 1 \in T
    <3>1. PICK g : upTo(k, g)
      BY <2>2
    <3> DEFINE h == [i \in 0..k + 1 |-> IF i <= k THEN g[i] ELSE skip(g[k])]
    <3>2. ASSUME NEW i \in 0..k + 1 PROVE h[i] = IF i = 0 THEN state ELSE skip(h[i - 1])
      <4>1. CASE i <= k
        <5>1. i \in 0..k /\ (i # 0 => i - 1 \in 0..k + 1 /\ i - 1 <= k)
          BY <1>3, <4>1
        <5>2. h[i] = g[i] /\ (i # 0 => h[i - 1] = g[i - 1])
          BY <4>1, <5>1
        <5> QED BY <3>1, <5>1, <5>2
      <4>2. CASE i = k + 1
        <5>1. i # 0 /\ i - 1 = k /\ k \in 0..k + 1 /\ ~(i <= k)
          BY <1>3, <4>2
        <5> QED BY <5>1
      <4> QED BY <1>3, <4>1, <4>2
    <3>3. h = [i \in 0..k + 1 |-> h[i]]
      OBVIOUS
    <3> HIDE DEF h
    <3>4. upTo(k + 1, h)
      BY <3>2, <3>3
    <3> QED BY <1>3, <3>4
  <2>3. n \in T
    <3> HIDE DEF T
    <3> QED BY <1>3, <2>1, <2>2, UpTo
  <2> QED BY <1>2, <2>3
<1> DEFINE near(i) == \/ getLRUWayFor(n, at[i]) \notin rsvd
                      \/ Distances(n, at[i])[free + 1] <= n - 1 - i
           S == {i \in 0..n : Decides(n, at[i]) /\ near(i) /\ (rsvd = {} => at[i] = state)}
<1>5. 0 \in S
  <2>1. at[0] = state /\ 0 \in 0..n
    BY <1>3, <1>4
  <2>2. PICK leaf \in 0..n - 1 : state \cap mask[n][leaf + 1] = compare[n][leaf + 1]
    BY LeafOf
  <2>3. Distances(n, state)[free + 1] \in 0..n - 1
    BY <2>2, Nearer
  <2> QED BY <1>3, <2>1, <2>3
<1>6. ASSUME NEW i \in 0..n - 1, i \in S PROVE i + 1 \in S
  <2>1. at[i + 1] = skip(at[i]) /\ i \in 0..n /\ i + 1 \in 0..n
    <3>1. i + 1 \in 0..n /\ i + 1 # 0 /\ (i + 1) - 1 = i /\ i \in 0..n
      BY <1>3
    <3> QED BY <3>1, <1>4
  <2>2. PICK leaf \in 0..n - 1 : /\ getLRUWayFor(n, at[i]) = leaf
                                 /\ at[i] \cap mask[n][leaf + 1] = compare[n][leaf + 1]
    BY <1>6, LeafOf
  <2>3. CASE leaf \notin rsvd
    <3>1. at[i + 1] = at[i]
      BY <2>1, <2>2, <2>3 DEF skip
    <3> QED BY <1>6, <2>1, <2>2, <2>3, <3>1
  <2>4. CASE leaf \in rsvd
    <3>1. at[i + 1] = LeafMRU(n, leaf, at[i]) /\ leaf # free
      BY <2>1, <2>2, <2>4 DEF skip
    <3>2. Decides(n, at[i + 1])
      BY <3>1, LeafTouched
    <3>3. /\ Distances(n, at[i])[free + 1] \in 0..n - 1
          /\ Distances(n, at[i + 1])[free + 1] = Distances(n, at[i])[free + 1] - 1
      BY <1>6, <2>2, <3>1, Nearer
    <3>4. Distances(n, at[i])[free + 1] <= n - 1 - i
      BY <1>6, <2>2, <2>4
    <3>5. Distances(n, at[i + 1])[free + 1] <= n - 1 - (i + 1)
      BY <1>3, <3>3, <3>4
    <3> QED BY <2>1, <2>4, <3>2, <3>5
  <2> QED BY <2>3, <2>4
<1>7. n \in S
  <2> HIDE DEF S
  <2> QED BY <1>3, <1>5, <1>6, UpTo
<1>8. PICK leaf \in 0..n - 1 : /\ getLRUWayFor(n, at[n]) = leaf
                               /\ at[n] \cap mask[n][leaf + 1] = compare[n][leaf + 1]
  BY <1>7, LeafOf
<1>9. Distances(n, at[n])[free + 1] \in 0..n - 1
  BY <1>7, <1>8, Nearer
<1>10. leaf \notin rsvd
  BY <1>3, <1>7, <1>8, <1>9
<1> QED BY <1>1, <1>7, <1>8, <1>10

-----------------------------------------------------------------------------
(* Ways, trees and leaves *)

\* Quotients and remainders.
LEMMA DivMul ==
    ASSUME NEW a \in Nat, NEW b \in Nat \ {0}
    PROVE  (a * b) \div b = a /\ (b * a) \div b = a
OBVIOUS

LEMMA DivOf ==
    ASSUME NEW s \in Nat \ {0}, NEW t \in Nat, NEW w \in 0..t * s - 1
    PROVE  \E q \in 0..t - 1, r \in 0..s - 1 : q = w \div s /\ r = w % s /\ w = q * s + r
<1>1. PICK q, r : q = w \div s /\ r = w % s
  OBVIOUS
<1>2. t * s \in Int /\ w \in Nat /\ w < t * s
  OBVIOUS
<1>3. q \in Nat /\ r \in 0..s - 1
  BY <1>1, <1>2
<1>4. w = q * s + r
  BY <1>1, <1>2, <1>3
<1>5. ASSUME q >= t PROVE FALSE
  <2>1. q * s >= t * s
    BY <1>3, <1>5
  <2> QED BY <1>2, <1>3, <1>4, <2>1
<1>6. q \in 0..t - 1
  BY <1>3, <1>5
<1> QED BY <1>1, <1>3, <1>4, <1>6

LEMMA SumOf ==
    ASSUME NEW s \in Nat \ {0}, NEW t \in Nat, NEW i \in 0..t - 1, NEW j \in 0..s - 1
    PROVE  /\ i * s + j \in 0..t * s - 1
           /\ (i * s + j) \div s = i /\ (i * s + j) % s = j
OBVIOUS

\* A policy with trees.
IsTrees(pol) == pol.name = "PLRU" /\ \E v \in Variants : pol = v.policy

\* The trees of a policy and their leaves.
LEMMA Shape ==
    ASSUME NEW pol, IsTrees(pol)
    PROVE  /\ NumLeafs(pol) \in PLRULeafs /\ NumLeafs(pol) \in Nat \ {0}
           /\ pol.top \in Nat \ {0} /\ pol.bottom \in Nat \ {0}
           /\ treeSize(pol) \in Nat \ {0} /\ treeSize(pol) = pol.bottom * NumLeafs(pol)
           /\ pol.ways = pol.top * treeSize(pol)
<1>1. /\ NumLeafs(pol) \in PLRULeafs /\ pol.top \in Nat \ {0} /\ pol.bottom \in Nat \ {0}
      /\ NumLeafs(pol) * pol.bottom * pol.top = pol.ways
  BY CacheConstants DEF IsTrees
<1>2. PICK l, b, t : l = NumLeafs(pol) /\ b = pol.bottom /\ t = pol.top
  OBVIOUS
<1>3. l \in Nat \ {0} /\ b \in Nat \ {0} /\ t \in Nat \ {0} /\ pol.ways = (l * b) * t
  BY <1>1, <1>2 DEF PLRULeafs
<1>4. l * b \in Nat \ {0} /\ l * b = b * l
  BY <1>3
<1>5. (l * b) * t = t * (l * b)
  BY <1>3, <1>4
<1>6. treeSize(pol) = l * b
  BY <1>2, <1>3, <1>4, DivMul DEF treeSize
<1> QED BY <1>1, <1>2, <1>3, <1>4, <1>5, <1>6

\* A way is in one tree, at one leaf of it.
LEMMA WayInTree ==
    ASSUME NEW pol, IsTrees(pol), NEW w \in WaysOf(pol)
    PROVE  \E t \in 0..pol.top - 1, x \in 0..treeSize(pol) - 1 :
              /\ t = w \div treeSize(pol) /\ x = w % treeSize(pol)
              /\ w = x + t * treeSize(pol) /\ w \in TreeWays(pol, t)
              /\ x % NumLeafs(pol) \in 0..NumLeafs(pol) - 1 /\ x \in Group(pol, x % NumLeafs(pol))
<1>1. PICK s, k, l, b : s = treeSize(pol) /\ k = pol.top /\ l = NumLeafs(pol) /\ b = pol.bottom
  OBVIOUS
<1>2. /\ s \in Nat \ {0} /\ k \in Nat /\ l \in Nat \ {0} /\ b \in Nat /\ s = b * l
      /\ w \in 0..k * s - 1
  BY <1>1, Shape DEF WaysOf
<1>3. PICK t \in 0..k - 1, x \in 0..s - 1 : t = w \div s /\ x = w % s /\ w = t * s + x
  BY <1>2, DivOf
<1>4. PICK q \in 0..b - 1, f \in 0..l - 1 : f = x % l /\ x = q * l + f
  <2>1. x \in 0..b * l - 1
    BY <1>2, <1>3
  <2>2. l \in Nat \ {0} /\ b \in Nat
    BY <1>2
  <2>3. \E q \in 0..b - 1, f \in 0..l - 1 : q = x \div l /\ f = x % l /\ x = q * l + f
    BY <2>1, <2>2, DivOf
  <2> QED BY <2>3
<1>5. t * s \in Nat /\ (t + 1) * s = t * s + s /\ q * l \in Nat
  <2>1. t \in Nat /\ s \in Nat /\ q \in Nat /\ l \in Nat
    BY <1>2
  <2> QED BY <2>1
<1>6. w = x + t * s /\ w \in t * s..(t + 1) * s - 1 /\ x = f + q * l
  BY <1>2, <1>3, <1>4, <1>5
<1>7. /\ w = x + t * treeSize(pol) /\ w \in TreeWays(pol, t) /\ x \in Group(pol, f)
      /\ f = x % NumLeafs(pol) /\ f \in 0..NumLeafs(pol) - 1
  BY <1>1, <1>4, <1>6 DEF TreeWays, Group
<1> QED BY <1>1, <1>3, <1>7

\* A way of a leaf is one of its tree and of no other leaf, and the ways of a
\* tree are in no other.
LEMMA WayAtLeaf ==
    ASSUME NEW pol, IsTrees(pol),
           NEW t \in 0..pol.top - 1, NEW leaf \in 0..NumLeafs(pol) - 1, NEW x \in Group(pol, leaf)
    PROVE  /\ x \in 0..treeSize(pol) - 1 /\ x % NumLeafs(pol) = leaf
           /\ x + t * treeSize(pol) \in WaysOf(pol) /\ x + t * treeSize(pol) \in TreeWays(pol, t)
           /\ (x + t * treeSize(pol)) \div treeSize(pol) = t
           /\ (x + t * treeSize(pol)) % treeSize(pol) = x
           /\ (x + t * treeSize(pol)) - t * treeSize(pol) = x
<1>1. PICK i \in 0..pol.bottom - 1 : x = leaf + i * NumLeafs(pol)
  BY DEF Group
<1>2. PICK s, k, l, b : s = treeSize(pol) /\ k = pol.top /\ l = NumLeafs(pol) /\ b = pol.bottom
  OBVIOUS
<1>3. /\ s \in Nat \ {0} /\ k \in Nat /\ l \in Nat \ {0} /\ b \in Nat /\ s = b * l /\ pol.ways = k * s
  BY <1>2, Shape
<1>4. i \in 0..b - 1 /\ leaf \in 0..l - 1 /\ i * l \in Nat /\ x = i * l + leaf
  BY <1>1, <1>2, <1>3
<1>5. x \in 0..s - 1 /\ x % l = leaf
  <2>1. i * l + leaf \in 0..b * l - 1 /\ (i * l + leaf) % l = leaf
    BY <1>3, <1>4, SumOf
  <2> QED BY <2>1, <1>3, <1>4
<1>6. t \in 0..k - 1 /\ t * s \in Nat /\ (t + 1) * s = t * s + s
  BY <1>2, <1>3
<1>7. /\ t * s + x \in 0..k * s - 1
      /\ (t * s + x) \div s = t /\ (t * s + x) % s = x
  BY <1>3, <1>5, <1>6, SumOf
<1>8. x + t * s = t * s + x /\ x + t * s \in t * s..(t + 1) * s - 1 /\ (x + t * s) - t * s = x
  BY <1>3, <1>5, <1>6
<1> QED BY <1>2, <1>3, <1>5, <1>7, <1>8 DEF WaysOf, TreeWays

-----------------------------------------------------------------------------
(* The victims *)

\* The tables serve every leaf that setLRU takes for its own: with three (six,
\* twelve) leaves of several ways it reads past them.
TablesSuffice(pol) == pol.name = "PLRU" /\ NumLeafs(pol) \in {3, 6, 12} => pol.bottom = 1

\* The ways of a tree that are reserved, as the tree counts them.
ReservedIn(pol, t, reserved) == {w - t * treeSize(pol) : w \in reserved \cap TreeWays(pol, t)}

\* A tree with a free way gives a free way, the one of its LRU leaf if none is
\* reserved.
LEMMA FreeInTree ==
    ASSUME NEW pol, IsTrees(pol),
           NEW t \in 0..pol.top - 1, NEW state, Decides(NumLeafs(pol), state),
           NEW reserved, NEW w \in TreeWays(pol, t) \ reserved
    PROVE  /\ getPLRUWay(pol, state, ReservedIn(pol, t, reserved)) # {}
           /\ \A x \in getPLRUWay(pol, state, ReservedIn(pol, t, reserved)) :
                 /\ x + t * treeSize(pol) \in WaysOf(pol) \ reserved
                 /\ reserved = {} => x \in Group(pol, getLRUWayFor(NumLeafs(pol), state))
<1> DEFINE n == NumLeafs(pol)
           rsvd == ReservedIn(pol, t, reserved)
           y == w % treeSize(pol)
           leaf == getLRUWayWithReservations(n, state, FullLeafs(pol, rsvd))
<1>1. /\ n \in PLRULeafs /\ n \in Nat \ {0} /\ treeSize(pol) \in Nat \ {0} /\ pol.top \in Nat
      /\ pol.bottom \in Nat \ {0} /\ pol.ways = pol.top * treeSize(pol)
  BY Shape
<1>2. /\ y \in 0..treeSize(pol) - 1 /\ y % n \in 0..n - 1 /\ y \in Group(pol, y % n)
      /\ w = y + t * treeSize(pol)
  <2>1. w \in WaysOf(pol) /\ w \div treeSize(pol) = t
    <3>1. PICK s, k : s = treeSize(pol) /\ k = pol.top
      OBVIOUS
    <3>2. s \in Nat \ {0} /\ k \in Nat /\ t \in 0..k - 1 /\ w \in t * s..(t + 1) * s - 1
      BY <1>1, <3>1 DEF TreeWays
    <3>3. t * s \in Nat /\ (t + 1) * s = t * s + s
      BY <3>2
    <3>4. PICK j : j = w - t * s
      OBVIOUS
    <3>5. j \in 0..s - 1 /\ w = t * s + j
      BY <3>2, <3>3, <3>4
    <3>6. t * s + j \in 0..k * s - 1 /\ (t * s + j) \div s = t
      BY <3>2, <3>5, SumOf
    <3> QED BY <1>1, <3>1, <3>5, <3>6 DEF WaysOf
  <2> QED BY <2>1, WayInTree
<1>3. y \notin rsvd
  <2>1. ASSUME NEW x \in reserved \cap TreeWays(pol, t), y = x - t * treeSize(pol) PROVE FALSE
    <3>1. PICK s : s = t * treeSize(pol)
      OBVIOUS
    <3>2. s \in Int /\ x \in Int /\ y \in Int
      BY <1>1, <1>2, <3>1 DEF TreeWays
    <3>3. x = y + s
      BY <2>1, <3>1, <3>2
    <3> QED BY <1>2, <2>1, <3>1, <3>3
  <2> QED BY <2>1 DEF ReservedIn
<1> HIDE DEF rsvd
<1>4. y % n \notin FullLeafs(pol, rsvd)
  BY <1>2, <1>3 DEF FullLeafs
<1>5. /\ leaf \in (0..n - 1) \ FullLeafs(pol, rsvd)
      /\ FullLeafs(pol, rsvd) = {} => leaf = getLRUWayFor(n, state)
  <2> HIDE DEF n, y
  <2> QED BY <1>1, <1>2, <1>4, FreeLeaf DEF n
<1>6. leaf # NIL
  BY <1>1, <1>5 DEF NIL
<1>7. getPLRUWay(pol, state, rsvd) = Group(pol, leaf) \ rsvd
  BY <1>6 DEF getPLRUWay
<1>8. getPLRUWay(pol, state, rsvd) # {}
  BY <1>5, <1>7 DEF FullLeafs
<1>9. ASSUME NEW x \in Group(pol, leaf) \ rsvd PROVE x + t * treeSize(pol) \in WaysOf(pol) \ reserved
  <2>0. leaf \in 0..NumLeafs(pol) - 1 /\ x \in Group(pol, leaf)
    BY <1>5
  <2> HIDE DEF leaf
  <2>1. /\ x + t * treeSize(pol) \in WaysOf(pol) /\ x + t * treeSize(pol) \in TreeWays(pol, t)
        /\ (x + t * treeSize(pol)) - t * treeSize(pol) = x
    BY <2>0, WayAtLeaf
  <2>2. x \notin rsvd => x + t * treeSize(pol) \notin reserved
    BY <2>1 DEF rsvd, ReservedIn
  <2> QED BY <2>1, <2>2
<1>10. reserved = {} => FullLeafs(pol, rsvd) = {}
  <2>1. ASSUME reserved = {}, NEW f \in FullLeafs(pol, rsvd) PROVE FALSE
    <3>1. rsvd = {}
      BY <2>1 DEF rsvd, ReservedIn
    <3>2. f \in 0..n - 1 /\ Group(pol, f) = {}
      BY <2>1, <3>1 DEF FullLeafs
    <3>3. 0 \in 0..pol.bottom - 1
      BY <1>1
    <3> QED BY <3>2, <3>3 DEF Group
  <2> QED BY <2>1
<1> QED BY <1>5, <1>7, <1>8, <1>9, <1>10 DEF rsvd

\* The trees give a free way if there is one.
LEMMA FreeInTrees ==
    ASSUME NEW pol, IsTrees(pol), NEW trees,
           \A t \in 0..pol.top - 1 : Decides(NumLeafs(pol), trees[t]),
           NEW reserved \in SUBSET WaysOf(pol), reserved # WaysOf(pol)
    PROVE  /\ TreeVictims(pol, trees, reserved) # {}
           /\ TreeVictims(pol, trees, reserved) \subseteq WaysOf(pol) \ reserved
<1> DEFINE U == {u \in 0..pol.top - 1 : ~(TreeWays(pol, u) \subseteq reserved)}
           given(t) == {x + t * treeSize(pol) :
                           x \in getPLRUWay(pol, trees[t], ReservedIn(pol, t, reserved))}
<1>1. TreeVictims(pol, trees, reserved) = UNION {given(t) : t \in U}
  BY DEF TreeVictims, ReservedIn
<1>2. ASSUME NEW t \in U PROVE given(t) # {} /\ given(t) \subseteq WaysOf(pol) \ reserved
  <2>1. PICK w : w \in TreeWays(pol, t) \ reserved
    BY <1>2
  <2>0. t \in 0..pol.top - 1 /\ Decides(NumLeafs(pol), trees[t])
    BY <1>2
  <2>2. /\ getPLRUWay(pol, trees[t], ReservedIn(pol, t, reserved)) # {}
        /\ \A x \in getPLRUWay(pol, trees[t], ReservedIn(pol, t, reserved)) :
              x + t * treeSize(pol) \in WaysOf(pol) \ reserved
    BY <2>0, <2>1, FreeInTree
  <2> QED BY <2>2
<1>3. U # {}
  <2>1. PICK w : w \in WaysOf(pol) \ reserved
    OBVIOUS
  <2>2. PICK t \in 0..pol.top - 1 : w \in TreeWays(pol, t)
    BY <2>1, WayInTree
  <2> QED BY <2>1, <2>2
<1> HIDE DEF U, given
<1> QED BY <1>1, <1>2, <1>3

\* The EV7 scheme gives a free way, one that has not been used if there is one.
LEMMA FirstClear ==
    ASSUME NEW pol, pol.ways \in Nat, NEW used \in SUBSET WaysOf(pol),
           NEW reserved \in SUBSET WaysOf(pol), reserved # WaysOf(pol)
    PROVE  /\ findFirstClear(pol, used, reserved) \in WaysOf(pol) \ reserved
           /\ used \cup reserved # WaysOf(pol) => findFirstClear(pol, used, reserved) \notin used
<1>1. WaysOf(pol) \in SUBSET Nat
  BY DEF WaysOf
<1>2. CASE used \cup reserved = WaysOf(pol)
  <2>1. findFirstClear(pol, used, reserved) = Min(WaysOf(pol) \ reserved)
    BY <1>2 DEF findFirstClear
  <2>2. Min(WaysOf(pol) \ reserved) \in WaysOf(pol) \ reserved
    BY <1>1, MinIsLeast
  <2> QED BY <1>2, <2>1, <2>2
<1>3. CASE used \cup reserved # WaysOf(pol)
  <2>1. findFirstClear(pol, used, reserved) = Min(WaysOf(pol) \ (used \cup reserved))
    BY <1>3 DEF findFirstClear
  <2>2. WaysOf(pol) \ (used \cup reserved) # {}
    BY <1>3
  <2>3. Min(WaysOf(pol) \ (used \cup reserved)) \in WaysOf(pol) \ (used \cup reserved)
    BY <1>1, <2>2, MinIsLeast
  <2> QED BY <2>1, <2>3
<1> QED BY <1>2, <1>3

-----------------------------------------------------------------------------
(* What a set of the cache remembers *)

\* The policies with a list, as HasList has them.
ListPolicies == {"LRU", "Random", "RandomNotMRU"}

\* The replacement information s of a set whose ways have been used in the
\* order o: the list is that order, and every tree has a LRU leaf.
InfoOK(pol, s, o) ==
    /\ s = [list |-> s.list, mask |-> s.mask, trees |-> s.trees]
    /\ pol.name \in ListPolicies => Ordering(o, pol.ways) /\ Linked(s.list, o, pol.ways)
    /\ pol.name = "EV7" => s.mask \in SUBSET WaysOf(pol)
    /\ s.trees = [t \in 0..pol.top - 1 |-> s.trees[t]]
    /\ pol.name = "PLRU" /\ TablesSuffice(pol) =>
          \A t \in 0..pol.top - 1 : Decides(NumLeafs(pol), s.trees[t])

\* The policies there are.
IsPolicy(pol) == \E v \in Variants : pol = v.policy

\* What the assumption on the constants says of a policy.
LEMMA PolicyFacts ==
    ASSUME NEW pol, IsPolicy(pol)
    PROVE  /\ pol.name \in Policies /\ pol.ways \in 1..31 /\ pol.ways \in Nat
           /\ pol.top \in Nat \ {0} /\ pol.bottom \in Nat \ {0}
           /\ pol.name = "PLRU" => IsTrees(pol)
BY CacheConstants DEF IsPolicy, IsTrees

\* The constructor's.
LEMMA NewInfoOK ==
    ASSUME NEW pol, IsPolicy(pol)
    PROVE  InfoOK(pol, NewInfo(pol), [i \in 1..pol.ways |-> pol.ways - i])
<1> DEFINE n == pol.ways
           o == [i \in 1..n |-> n - i]
           s == NewInfo(pol)
<1>1. n \in 1..31 /\ n \in Nat
  BY PolicyFacts
<1>2. s = [list |-> LruInfo(n), mask |-> {}, trees |-> [t \in 0..pol.top - 1 |-> {}]]
  BY DEF NewInfo
<1>3. Ordering(o, n)
  <2>1. o \in Seq(0..n - 1) /\ Len(o) = n
    <3>1. o \in [1..n -> 0..n - 1]
      BY <1>1
    <3> HIDE DEF n, o
    <3> QED BY <1>1, <3>1
  <2>2. ASSUME NEW w \in 0..n - 1 PROVE \E i \in 1..n : o[i] = w
    <3>1. n - w \in 1..n /\ o[n - w] = w
      BY <1>1
    <3> QED BY <3>1
  <2>3. \A i, j \in 1..n : o[i] = o[j] => i = j
    BY <1>1
  <2> QED BY <2>1, <2>2, <2>3 DEF Ordering
<1>4. Linked(LruInfo(n), o, n)
  <2> DEFINE l == LruInfo(n)
  <2>1. /\ l.next = [w \in 0..n - 1 |-> w - 1]
        /\ l.prev = [w \in 0..n - 1 |-> IF w = n - 1 THEN NIL ELSE w + 1]
        /\ l = [next |-> l.next, prev |-> l.prev, mru |-> n - 1, lru |-> 0]
    BY DEF LruInfo
  <2> HIDE DEF l
  <2>2. l.next \in [0..n - 1 -> Int] /\ l.prev \in [0..n - 1 -> Int]
    BY <1>1, <2>1 DEF NIL
  <2>3. o[1] = n - 1 /\ o[n] = 0
    <3>1. 1 \in 1..n /\ n \in 1..n /\ n - n = 0
      BY <1>1
    <3> HIDE DEF n
    <3> QED BY <3>1
  <2>4. ASSUME NEW i \in 1..n
        PROVE  /\ l.next[o[i]] = (IF i = n THEN NIL ELSE o[i + 1])
               /\ l.prev[o[i]] = (IF i = 1 THEN NIL ELSE o[i - 1])
    BY <1>1, <2>1 DEF NIL
  <2> HIDE DEF n, o
  <2> QED BY <2>1, <2>2, <2>3, <2>4 DEF Linked, l
<1>5. Decides(NumLeafs(pol), {})
  BY DEF Decides, DecidesSmall, UpperTree
<1> HIDE DEF n, o, s
<1> QED BY <1>2, <1>3, <1>4, <1>5 DEF InfoOK, n, o, s

\* setLRU leaves a tree with a LRU leaf.
LEMMA TreeLRU ==
    ASSUME NEW pol, IsTrees(pol), TablesSuffice(pol), NEW x \in 0..treeSize(pol) - 1, NEW state,
           NEW new \in setLRU(pol, x, state)
    PROVE  Decides(NumLeafs(pol), new)
<1>1. CASE NumLeafs(pol) \notin {3, 6, 12, 24}
  BY <1>1 DEF Decides, DecidesSmall, LargeLeafs, Groups
<1>2. CASE NumLeafs(pol) \in {3, 6, 12, 24}
  <2>0. NumLeafs(pol) = 24 => pol.bottom = 1
    <3>1. PICK b, t : b = pol.bottom /\ t = pol.top
      OBVIOUS
    <3>2. /\ b \in Nat \ {0} /\ t \in Nat \ {0}
          /\ treeSize(pol) = b * NumLeafs(pol) /\ treeSize(pol) \in Nat
          /\ t * treeSize(pol) = pol.ways /\ pol.ways <= 31
      BY <3>1, Shape, PolicyFacts DEF IsTrees, IsPolicy
    <3>3. treeSize(pol) <= 31
      <4>1. PICK z : z = treeSize(pol)
        OBVIOUS
      <4>2. z \in Nat /\ t * z <= 31 /\ t >= 1
        BY <3>2, <4>1
      <4>3. t * z >= z
        BY <3>2, <4>2
      <4> QED BY <3>2, <4>1, <4>2, <4>3
    <3>4. NumLeafs(pol) = 24 => b * 24 <= 31
      BY <3>2, <3>3
    <3> QED BY <3>1, <3>2, <3>4
  <2>1. pol.bottom = 1 /\ x \in 0..NumLeafs(pol) - 1
    BY <1>2, <2>0, Shape DEF TablesSuffice, IsTrees
  <2>2. BitAnd(x, NumLeafs(pol)) \in 0..NumLeafs(pol) - 1
    <3>1. CASE NumLeafs(pol) = 3
      <4>1. x = 0 \/ x = 1 \/ x = 2
        BY <2>1, <3>1
      <4> QED BY <3>1, <4>1 DEF BitAnd
    <3>2. CASE NumLeafs(pol) = 6
      <4>1. x = 0 \/ x = 1 \/ x = 2 \/ x = 3 \/ x = 4 \/ x = 5
        BY <2>1, <3>2
      <4> QED BY <3>2, <4>1 DEF BitAnd
    <3>3. CASE NumLeafs(pol) = 12
      <4>1. x \div 4 = 0 \/ x \div 4 = 1 \/ x \div 4 = 2
        BY <2>1, <3>3
      <4>2. x \div 8 = (x \div 4) \div 2 /\ x \div 16 = 0
        BY <2>1, <3>3
      <4> QED BY <3>3, <4>1, <4>2 DEF BitAnd
    <3>4. CASE NumLeafs(pol) = 24
      <4>1. x \div 8 = 0 \/ x \div 8 = 1 \/ x \div 8 = 2
        BY <2>1, <3>4
      <4>2. x \div 16 = (x \div 8) \div 2
        BY <2>1, <3>4
      <4> QED BY <3>4, <4>1, <4>2 DEF BitAnd
    <3> QED BY <1>2, <3>1, <3>2, <3>3, <3>4
  <2>3. BitAnd(x, NumLeafs(pol)) < NumLeafs(pol) /\ NumLeafs(pol) \in PLRULeafs
    BY <2>2, Shape
  <2>4. new = LeafLRU(NumLeafs(pol), BitAnd(x, NumLeafs(pol)), state)
    BY <2>3 DEF setLRU
  <2> QED BY <2>2, <2>3, <2>4, LeafTouched
<1> QED BY <1>1, <1>2

\* The order after a way is made MRU.
Used(pol, o, w) == IF pol.name \in ListPolicies THEN ToHead(o, w) ELSE o

LEMMA MadeMRU ==
    ASSUME NEW pol, IsPolicy(pol), NEW s, NEW o, InfoOK(pol, s, o), NEW w \in WaysOf(pol)
    PROVE  InfoOK(pol, makeMRU(pol, s, w), Used(pol, o, w))
<1>1. PICK new : new = makeMRU(pol, s, w)
  OBVIOUS
<1>2. CASE pol.name = "EV7"
  <2>1. new = [list |-> s.list, mask |-> EV7MRU(pol, s.mask, w), trees |-> s.trees]
    BY <1>1, <1>2 DEF makeMRU, InfoOK
  <2>2. EV7MRU(pol, s.mask, w) \in SUBSET WaysOf(pol)
    BY <1>2 DEF EV7MRU, InfoOK
  <2> QED BY <1>1, <1>2, <2>1, <2>2 DEF InfoOK, Used, ListPolicies
<1>3. CASE pol.name = "PLRU"
  <2>1. PICK t \in 0..pol.top - 1, x \in 0..treeSize(pol) - 1 :
           /\ t = w \div treeSize(pol) /\ x = w % treeSize(pol)
           /\ x % NumLeafs(pol) \in 0..NumLeafs(pol) - 1
    BY <1>3, PolicyFacts, WayInTree
  <2>2. PICK tree : tree = LeafMRU(NumLeafs(pol), x % NumLeafs(pol), s.trees[t])
    OBVIOUS
  <2>3. Decides(NumLeafs(pol), tree)
    BY <1>3, <2>1, <2>2, PolicyFacts, Shape, LeafTouched
  <2>4. new = [s EXCEPT !.trees[t] = tree]
    BY <1>1, <1>3, <2>1, <2>2 DEF makeMRU
  <2>5. new = [list |-> s.list, mask |-> s.mask, trees |-> [s.trees EXCEPT ![t] = tree]]
    BY <2>4 DEF InfoOK
  <2>6. PICK ts : ts = [s.trees EXCEPT ![t] = tree]
    OBVIOUS
  <2>7. /\ ts = [u \in 0..pol.top - 1 |-> ts[u]]
        /\ TablesSuffice(pol) => \A u \in 0..pol.top - 1 : Decides(NumLeafs(pol), ts[u])
    BY <1>3, <2>3, <2>6 DEF InfoOK
  <2>8. new = [list |-> new.list, mask |-> new.mask, trees |-> new.trees] /\ new.trees = ts
    BY <2>5, <2>6
  <2> QED BY <1>1, <1>3, <2>7, <2>8 DEF InfoOK, Used, ListPolicies
<1>4. CASE pol.name \in ListPolicies
  <2>1. new = [list |-> ListMRU(s.list, w), mask |-> s.mask, trees |-> s.trees]
    BY <1>1, <1>4 DEF makeMRU, InfoOK, ListPolicies
  <2>2. PICK k \in 1..pol.ways : o[k] = w
    BY <1>4 DEF InfoOK, Ordering, WaysOf
  <2>3. Ordering(ToHead(o, w), pol.ways) /\ Linked(ListMRU(s.list, w), ToHead(o, w), pol.ways)
    BY <1>4, <2>2, PolicyFacts, MovedToHead, ListHead DEF InfoOK
  <2> QED BY <1>1, <1>4, <2>1, <2>3 DEF InfoOK, Used, ListPolicies
<1> QED BY <1>2, <1>3, <1>4, PolicyFacts DEF Policies, ListPolicies

\* The order after a way is made LRU.
Freed(pol, o, w) == IF pol.name \in ListPolicies THEN ToTail(o, w) ELSE o

LEMMA MadeLRU ==
    ASSUME NEW pol, IsPolicy(pol), NEW s, NEW o, InfoOK(pol, s, o), NEW w \in WaysOf(pol),
           NEW new \in makeLRU(pol, s, w)
    PROVE  InfoOK(pol, new, Freed(pol, o, w))
<1>1. CASE pol.name = "PLRU"
  <2>1. PICK t \in 0..pol.top - 1, x \in 0..treeSize(pol) - 1 :
           t = w \div treeSize(pol) /\ x = w % treeSize(pol)
    BY <1>1, PolicyFacts, WayInTree
  <2>2. PICK tree \in setLRU(pol, x, s.trees[t]) : new = [s EXCEPT !.trees[t] = tree]
    BY <1>1, <2>1 DEF makeLRU
  <2>3. TablesSuffice(pol) => Decides(NumLeafs(pol), tree)
    BY <1>1, PolicyFacts, TreeLRU
  <2>4. new = [list |-> s.list, mask |-> s.mask, trees |-> [s.trees EXCEPT ![t] = tree]]
    BY <2>2 DEF InfoOK
  <2>5. PICK ts : ts = [s.trees EXCEPT ![t] = tree]
    OBVIOUS
  <2>6. /\ ts = [u \in 0..pol.top - 1 |-> ts[u]]
        /\ TablesSuffice(pol) => \A u \in 0..pol.top - 1 : Decides(NumLeafs(pol), ts[u])
    BY <1>1, <2>3, <2>5 DEF InfoOK
  <2> QED BY <1>1, <2>4, <2>5, <2>6 DEF InfoOK, Freed, ListPolicies
<1>2. CASE pol.name # "PLRU"
  <2>1. new = [list |-> ListLRU(s.list, w), mask |-> s.mask, trees |-> s.trees]
    BY <1>2 DEF makeLRU, InfoOK
  <2>2. CASE pol.name \in ListPolicies
    <3>1. PICK k \in 1..pol.ways : o[k] = w
      BY <2>2 DEF InfoOK, Ordering, WaysOf
    <3>2. Ordering(ToTail(o, w), pol.ways) /\ Linked(ListLRU(s.list, w), ToTail(o, w), pol.ways)
      BY <2>2, <3>1, PolicyFacts, MovedToTail, ListTail DEF InfoOK
    <3> QED BY <2>1, <2>2, <3>2 DEF InfoOK, Freed, ListPolicies
  <2>3. CASE pol.name \notin ListPolicies
    BY <1>2, <2>1, <2>3 DEF InfoOK, Freed
  <2> QED BY <2>2, <2>3
<1> QED BY <1>1, <1>2

\* Whatever the policy remembers, it gives a way that is not reserved if there is
\* one.
LEMMA VictimFree ==
    ASSUME NEW pol, IsPolicy(pol), KnowsReserved(pol), TablesSuffice(pol),
           NEW s, NEW o, InfoOK(pol, s, o),
           NEW rsvd \in SUBSET WaysOf(pol), rsvd # WaysOf(pol)
    PROVE  /\ GetVictim(pol, s, rsvd) # {}
           /\ GetVictim(pol, s, rsvd) \subseteq WaysOf(pol) \ rsvd
<1>1. CASE pol.name = "LRU"
  <2>1. GetVictim(pol, s, rsvd) = {ListVictim(s.list, rsvd)}
    BY <1>1 DEF GetVictim
  <2>2. PICK free \in WaysOf(pol) : free \notin rsvd
    OBVIOUS
  <2>3. ListVictim(s.list, rsvd) \in (0..pol.ways - 1) \ rsvd
    BY <1>1, <2>2, PolicyFacts, FreeWay DEF WaysOf, InfoOK, ListPolicies
  <2> QED BY <2>1, <2>3 DEF WaysOf
<1>2. CASE pol.name = "EV7"
  <2>1. GetVictim(pol, s, rsvd) = {findFirstClear(pol, s.mask, rsvd)}
    BY <1>2 DEF GetVictim
  <2>2. findFirstClear(pol, s.mask, rsvd) \in WaysOf(pol) \ rsvd
    BY <1>2, PolicyFacts, FirstClear DEF InfoOK
  <2> QED BY <2>1, <2>2
<1>3. CASE pol.name = "PLRU"
  <2>1. GetVictim(pol, s, rsvd) = TreeVictims(pol, s.trees, rsvd)
    BY <1>3 DEF GetVictim
  <2>2. IsTrees(pol) /\ \A t \in 0..pol.top - 1 : Decides(NumLeafs(pol), s.trees[t])
    BY <1>3, PolicyFacts DEF InfoOK
  <2>3. PICK trees : trees = s.trees
    OBVIOUS
  <2>4. /\ TreeVictims(pol, trees, rsvd) # {}
        /\ TreeVictims(pol, trees, rsvd) \subseteq WaysOf(pol) \ rsvd
    BY <2>2, <2>3, FreeInTrees
  <2> QED BY <2>1, <2>3, <2>4
<1> QED BY <1>1, <1>2, <1>3 DEF KnowsReserved

\* A leaf just made MRU is not the LRU one of a tree with another.
LEMMA LeafNotVictim ==
    ASSUME NEW n \in PLRULeafs, n # 1, NEW leaf \in 0..n - 1, NEW state
    PROVE  getLRUWayFor(n, LeafMRU(n, leaf, state)) # leaf
<1>1. PICK new : new = LeafMRU(n, leaf, state)
  OBVIOUS
<1>2. Decides(n, new)
  BY <1>1, LeafTouched
<1>3. PICK lru \in 0..n - 1 : getLRUWayFor(n, new) = lru /\ new \cap mask[n][lru + 1] = compare[n][lru + 1]
  BY <1>2, LeafOf
<1>4. new \cap mask[n][leaf + 1] # compare[n][leaf + 1]
  <2>1. new \cap mask[n][leaf + 1] = mask[n][leaf + 1] \ compare[n][leaf + 1]
    BY <1>1 DEF LeafMRU
  <2>2. mask[n][leaf + 1] # {}
    <3>1. CASE n = 2
      <4>1. leaf = 0 \/ leaf = 1
        BY <3>1
      <4> QED BY <3>1, <4>1, Tables
    <3>2. CASE n = 3
      <4>1. leaf = 0 \/ leaf = 1 \/ leaf = 2
        BY <3>2
      <4> QED BY <3>2, <4>1, Tables
    <3>3. CASE n = 4
      <4>1. leaf = 0 \/ leaf = 1 \/ leaf = 2 \/ leaf = 3
        BY <3>3
      <4> QED BY <3>3, <4>1, Tables
    <3>4. CASE n = 6
      <4>1. leaf = 0 \/ leaf = 1 \/ leaf = 2 \/ leaf = 3 \/ leaf = 4 \/ leaf = 5
        BY <3>4
      <4> QED BY <3>4, <4>1, Tables
    <3>5. CASE n = 8
      <4>1. \/ leaf = 0 \/ leaf = 1 \/ leaf = 2 \/ leaf = 3
            \/ leaf = 4 \/ leaf = 5 \/ leaf = 6 \/ leaf = 7
        BY <3>5
      <4> QED BY <3>5, <4>1, Tables
    <3>6. CASE n \in LargeLeafs
      <4>1. PICK g \in 0..Groups(n) - 1, i \in 0..3 : leaf = 4 * g + i
        BY <3>6, LeafInGroup DEF InGroup
      <4>2. mask[n][leaf + 1] = Spread(n, g, mask[4][i + 1], mask[Groups(n)][g + 1])
        BY <3>6, <4>1, LargeTables
      <4>3. mask[Groups(n)][g + 1] # {}
        BY <3>6, <4>1, BitsApart, TableBits
      <4> QED BY <4>2, <4>3 DEF Spread
    <3> QED BY <3>1, <3>2, <3>3, <3>4, <3>5, <3>6 DEF PLRULeafs, LargeLeafs
  <2> QED BY <2>1, <2>2
<1> QED BY <1>1, <1>3, <1>4

\* Another way than the MRU one at random.
LEMMA NotMRU ==
    ASSUME NEW n \in Nat, NEW m \in 0..n - 1, NEW r \in 0..n - 2
    PROVE  (1 + m + r) % n # m
<1>1. CASE 1 + m + r < n
  <2>1. (1 + m + r) % n = 1 + m + r
    BY <1>1
  <2> QED BY <2>1
<1>2. CASE 1 + m + r >= n
  <2>1. PICK k : k = 1 + m + r - n
    OBVIOUS
  <2>2. k \in 0..n - 1 /\ k < m /\ 1 + m + r = 1 * n + k /\ n \in Nat \ {0}
    BY <1>2, <2>1
  <2>3. (1 * n + k) % n = k
    <3>1. 1 \in 0..2 - 1 /\ 2 \in Nat
      OBVIOUS
    <3> QED BY <2>2, <3>1, SumOf
  <2> QED BY <2>2, <2>3
<1> QED BY <1>1, <1>2

\* No policy but Random gives up the way just made MRU, if a tree has another
\* leaf.
LEMMA VictimAfterMRU ==
    ASSUME NEW pol, IsPolicy(pol), TablesSuffice(pol), NEW s, NEW o, InfoOK(pol, s, o),
           NEW w \in WaysOf(pol), pol.name # "Random", pol.ways > pol.top * pol.bottom
    PROVE  w \notin GetVictim(pol, makeMRU(pol, s, w), {})
<1>1. PICK new, uses : new = makeMRU(pol, s, w) /\ uses = Used(pol, o, w)
  OBVIOUS
<1>2. InfoOK(pol, new, uses)
  BY <1>1, MadeMRU
<1>3. pol.ways \in Nat /\ pol.ways > 1 /\ {} \in SUBSET WaysOf(pol) /\ {} # WaysOf(pol)
  <2>1. PICK t, b : t = pol.top /\ b = pol.bottom
    OBVIOUS
  <2>2. t \in Nat \ {0} /\ b \in Nat \ {0} /\ pol.ways \in Nat /\ pol.ways > t * b
    BY <2>1, PolicyFacts
  <2>3. t * b >= 1
    BY <2>2
  <2>4. t * b \in Int
    BY <2>2
  <2> QED BY <2>2, <2>3, <2>4
<1>4. pol.name \in {"LRU", "RandomNotMRU"} =>
        Ordering(uses, pol.ways) /\ Linked(new.list, uses, pol.ways) /\ uses[1] = w /\ uses[pol.ways] # w
  <2>1. SUFFICES ASSUME pol.name \in {"LRU", "RandomNotMRU"}
                 PROVE  /\ Ordering(uses, pol.ways) /\ Linked(new.list, uses, pol.ways)
                        /\ uses[1] = w /\ uses[pol.ways] # w
    OBVIOUS
  <2>2. Ordering(uses, pol.ways) /\ Linked(new.list, uses, pol.ways) /\ uses = ToHead(o, w)
    BY <1>1, <1>2, <2>1 DEF InfoOK, ListPolicies, Used
  <2>3. PICK k \in 1..pol.ways : o[k] = w
    BY <2>1 DEF InfoOK, Ordering, WaysOf, ListPolicies
  <2>4. uses[1] = w
    BY <1>3, <2>1, <2>2, <2>3, MovedToHead DEF InfoOK, ListPolicies
  <2>5. 1 \in 1..pol.ways /\ pol.ways \in 1..pol.ways /\ pol.ways # 1
    BY <1>3
  <2> QED BY <2>2, <2>4, <2>5 DEF Ordering
<1>5. CASE pol.name = "LRU"
  <2>1. ListVictim(new.list, {}) = uses[pol.ways]
    <3>1. w \in 0..pol.ways - 1
      BY DEF WaysOf
    <3> QED BY <1>3, <1>4, <1>5, <3>1, FreeWay
  <2> QED BY <1>1, <1>4, <1>5, <2>1 DEF GetVictim
<1>6. CASE pol.name = "RandomNotMRU"
  <2>1. new.list.mru = w
    BY <1>4, <1>6 DEF Linked
  <2>2. GetVictim(pol, new, {}) = {(1 + w + r) % pol.ways : r \in 0..pol.ways - 2}
    BY <1>6, <2>1 DEF GetVictim
  <2> QED BY <1>1, <1>3, <2>2, NotMRU DEF WaysOf
<1>7. CASE pol.name = "EV7"
  <2>1. new.mask = EV7MRU(pol, s.mask, w) /\ s.mask \in SUBSET WaysOf(pol)
    BY <1>1, <1>7 DEF makeMRU, InfoOK
  <2>2. {w} # WaysOf(pol)
    BY <1>3 DEF WaysOf
  <2>3. w \in new.mask /\ new.mask # WaysOf(pol) /\ new.mask \in SUBSET WaysOf(pol)
    BY <2>1, <2>2 DEF EV7MRU
  <2>4. findFirstClear(pol, new.mask, {}) \notin new.mask
    BY <1>3, <2>3, FirstClear
  <2> QED BY <1>1, <1>7, <2>3, <2>4 DEF GetVictim
<1>8. CASE pol.name = "PLRU"
  <2> DEFINE n == NumLeafs(pol)
             size == treeSize(pol)
  <2>1. PICK t \in 0..pol.top - 1, x \in 0..size - 1 :
           /\ t = w \div size /\ x = w % size /\ w = x + t * size
           /\ x % n \in 0..n - 1
    BY <1>8, PolicyFacts, WayInTree
  <2>2. /\ new.trees = [u \in 0..pol.top - 1 |-> new.trees[u]]
        /\ \A u \in 0..pol.top - 1 : Decides(n, new.trees[u])
    BY <1>2, <1>8 DEF InfoOK
  <2>3. new.trees[t] = LeafMRU(n, x % n, s.trees[t])
    <3>1. PICK tree : tree = LeafMRU(n, x % n, s.trees[t])
      OBVIOUS
    <3>2. new = [s EXCEPT !.trees[t] = tree]
      BY <1>1, <1>8, <2>1, <3>1 DEF makeMRU
    <3>3. new = [list |-> s.list, mask |-> s.mask, trees |-> [s.trees EXCEPT ![t] = tree]]
      BY <3>2 DEF InfoOK
    <3>4. s.trees = [u \in 0..pol.top - 1 |-> s.trees[u]]
      BY DEF InfoOK
    <3> QED BY <3>1, <3>3, <3>4
  <2>4. n \in PLRULeafs /\ n # 1
    <3>1. PICK l, b, k, z : l = n /\ b = pol.bottom /\ k = pol.top /\ z = size
      OBVIOUS
    <3>2. /\ l \in PLRULeafs /\ b \in Nat \ {0} /\ k \in Nat \ {0} /\ z = b * l
          /\ pol.ways = k * z /\ pol.ways > k * b
      BY <1>8, <3>1, PolicyFacts, Shape
    <3>3. l = 1 => pol.ways = k * b
      BY <3>2
    <3>4. k * b \in Int
      BY <3>2
    <3>5. pol.ways > k * b /\ k * b \in Int => pol.ways # k * b
      BY <1>3
    <3> QED BY <3>1, <3>2, <3>3, <3>4, <3>5
  <2>5. getLRUWayFor(n, new.trees[t]) # x % n
    BY <2>1, <2>3, <2>4, LeafNotVictim
  <2>6. ASSUME NEW u \in 0..pol.top - 1, NEW y \in getPLRUWay(pol, new.trees[u], ReservedIn(pol, u, {})),
               y + u * size = w
        PROVE  FALSE
    <3>1. PICK leaf \in 0..n - 1 : getLRUWayFor(n, new.trees[u]) = leaf
      BY <2>2, <2>4, LeafOf
    <3>2. PICK v : v \in TreeWays(pol, u) \ {}
      <4>1. IsTrees(pol) /\ 0 \in 0..pol.bottom - 1
        BY <1>8, PolicyFacts, Shape
      <4>2. leaf + 0 * NumLeafs(pol) \in Group(pol, leaf)
        BY <4>1 DEF Group
      <4> QED BY <3>1, <4>1, <4>2, WayAtLeaf
    <3>3. y \in Group(pol, leaf)
      BY <1>8, <2>2, <2>6, <3>1, <3>2, PolicyFacts, FreeInTree
    <3>4. y % n = leaf /\ w \div size = u /\ w % size = y
      BY <1>8, <2>6, <3>1, <3>3, PolicyFacts, WayAtLeaf
    <3> QED BY <2>1, <2>5, <3>1, <3>4
  <2>7. GetVictim(pol, new, {}) =
          UNION {{y + u * size : y \in getPLRUWay(pol, new.trees[u], ReservedIn(pol, u, {}))} :
                    u \in {v \in 0..pol.top - 1 : ~(TreeWays(pol, v) \subseteq {})}}
    BY <1>8 DEF GetVictim, TreeVictims, ReservedIn
  <2> HIDE DEF size, n
  <2> QED BY <1>1, <2>6, <2>7
<1> QED BY <1>5, <1>6, <1>7, <1>8, PolicyFacts DEF Policies

\* LRU gives up the way just made LRU.
LEMMA VictimAfterLRU ==
    ASSUME NEW pol, IsPolicy(pol), pol.name = "LRU", NEW s, NEW o, InfoOK(pol, s, o),
           NEW w \in WaysOf(pol), NEW new \in makeLRU(pol, s, w)
    PROVE  GetVictim(pol, new, {}) = {w}
<1>1. PICK uses : uses = Freed(pol, o, w)
  OBVIOUS
<1>2. InfoOK(pol, new, uses) /\ uses = ToTail(o, w)
  BY <1>1, MadeLRU DEF Freed, ListPolicies
<1>3. Ordering(uses, pol.ways) /\ Linked(new.list, uses, pol.ways) /\ Ordering(o, pol.ways)
  BY <1>2 DEF InfoOK, ListPolicies
<1>4. PICK k \in 1..pol.ways : o[k] = w
  BY <1>3 DEF Ordering, WaysOf
<1>5. uses[pol.ways] = w
  BY <1>2, <1>3, <1>4, PolicyFacts, MovedToTail
<1>6. ListVictim(new.list, {}) = w
  <2>1. w \in 0..pol.ways - 1 /\ pol.ways \in Nat
    BY PolicyFacts DEF WaysOf
  <2> QED BY <1>3, <1>5, <2>1, FreeWay
<1> QED BY <1>6 DEF GetVictim

-----------------------------------------------------------------------------
(* The replacement information of every cache *)

InfoInv ==
    /\ variant \in Variants
    /\ repl = [c \in Caches |-> repl[c]] /\ order = [c \in Caches |-> order[c]]
    /\ \A c \in Caches : InfoOK(p, repl[c], order[c])

\* The constructor's.
LEMMA InitInfo == Init => InfoInv
<1> SUFFICES ASSUME Init PROVE InfoInv
  OBVIOUS
<1>1. IsPolicy(p)
  BY DEF Init, IsPolicy, p
<1>2. InfoOK(p, NewInfo(p), [i \in 1..p.ways |-> p.ways - i])
  BY <1>1, NewInfoOK
<1>3. PICK s, o : s = NewInfo(p) /\ o = [i \in 1..p.ways |-> p.ways - i]
  OBVIOUS
<1>4. repl = [c \in Caches |-> s] /\ order = [c \in Caches |-> o] /\ variant \in Variants
  BY <1>3 DEF Init
<1> QED BY <1>2, <1>3, <1>4 DEF InfoInv

\* Only the replacement policy touches what it remembers.
LEMMA StepInfo == InfoInv /\ [Next]_vars => InfoInv'
<1> SUFFICES ASSUME InfoInv, [Next]_vars PROVE InfoInv'
  OBVIOUS
<1>1. CASE UNCHANGED <<variant, repl, order>>
  BY <1>1 DEF InfoInv, p, Caches
<1>2. CASE \E c \in Caches, w \in Ways : MakeMRU(c, w)
  <2>1. PICK c \in Caches, w \in Ways : MakeMRU(c, w)
    BY <1>2
  <2>2. IsPolicy(p) /\ w \in WaysOf(p) /\ InfoOK(p, repl[c], order[c])
    BY DEF InfoInv, IsPolicy, p, Ways
  <2>3. PICK s, o : s = makeMRU(p, repl[c], w) /\ o = Used(p, order[c], w)
    OBVIOUS
  <2>4. InfoOK(p, s, o)
    BY <2>2, <2>3, MadeMRU
  <2>5. repl' = [repl EXCEPT ![c] = s] /\ order' = [order EXCEPT ![c] = o] /\ variant' = variant
    BY <2>1, <2>3 DEF MakeMRU, InfoInv, HasList, Used, ListPolicies
  <2>6. p' = p /\ Caches' = Caches
    BY <2>5 DEF p, Caches
  <2>7. /\ repl' = [d \in Caches |-> repl'[d]] /\ order' = [d \in Caches |-> order'[d]]
        /\ \A d \in Caches : InfoOK(p, repl'[d], order'[d])
    BY <2>4, <2>5 DEF InfoInv
  <2> QED BY <2>5, <2>6, <2>7 DEF InfoInv
<1>3. CASE \E c \in Caches, w \in Ways : MakeLRU(c, w)
  <2>1. PICK c \in Caches, w \in Ways : MakeLRU(c, w)
    BY <1>3
  <2>2. IsPolicy(p) /\ w \in WaysOf(p) /\ InfoOK(p, repl[c], order[c])
    BY DEF InfoInv, IsPolicy, p, Ways
  <2>3. PICK s \in makeLRU(p, repl[c], w) : repl' = [repl EXCEPT ![c] = s]
    BY <2>1 DEF MakeLRU
  <2>4. PICK o : o = Freed(p, order[c], w)
    OBVIOUS
  <2>5. InfoOK(p, s, o)
    BY <2>2, <2>3, <2>4, MadeLRU
  <2>6. order' = [order EXCEPT ![c] = o] /\ variant' = variant
    BY <2>1, <2>4 DEF MakeLRU, InfoInv, HasList, Freed, ListPolicies
  <2>7. p' = p /\ Caches' = Caches
    BY <2>6 DEF p, Caches
  <2>8. /\ repl' = [d \in Caches |-> repl'[d]] /\ order' = [d \in Caches |-> order'[d]]
        /\ \A d \in Caches : InfoOK(p, repl'[d], order'[d])
    BY <2>3, <2>5, <2>6 DEF InfoInv
  <2> QED BY <2>6, <2>7, <2>8 DEF InfoInv
<1>4. CASE ~\E c \in Caches, w \in Ways : MakeMRU(c, w) \/ MakeLRU(c, w)
  BY <1>1, <1>4 DEF Next, vars, setClearLines, deactivate, ClearAllLines, GetLineState,
                    WarmUpFill, ClientSetStatus
<1> QED BY <1>2, <1>3, <1>4

\* Whatever is made MRU or LRU, in any order and as often as a client likes.
THEOREM InfoInductive == Spec => []InfoInv
BY InitInfo, StepInfo, PTL DEF Spec

\* The list of lru_info is the order in which the ways were used, and no way is
\* lost from it or linked twice: for any number of ways.
THEOREM ListKeepsOrder == Spec => []ListIsRecency
<1>1. InfoInv => ListIsRecency
  <2> SUFFICES ASSUME InfoInv, HasList, NEW c \in Caches
               PROVE  /\ repl[c].list.mru = order[c][1] /\ repl[c].list.lru = order[c][p.ways]
                      /\ \A i \in 1..p.ways :
                            /\ repl[c].list.next[order[c][i]] =
                                  (IF i = p.ways THEN NIL ELSE order[c][i + 1])
                            /\ repl[c].list.prev[order[c][i]] =
                                  (IF i = 1 THEN NIL ELSE order[c][i - 1])
    BY DEF ListIsRecency
  <2>1. Linked(repl[c].list, order[c], p.ways)
    BY DEF InfoInv, InfoOK, HasList, ListPolicies
  <2> QED BY <2>1 DEF Linked
<1> QED BY <1>1, InfoInductive, PTL

\* No ASSERT of a policy that knows of reserved ways fails while one is free, and
\* what it gives is not reserved: for trees whose tables suffice.
THEOREM VictimsAreFree == Spec /\ []TablesSuffice(p) => []VictimIsFree
<1>1. InfoInv /\ TablesSuffice(p) => VictimIsFree
  <2> SUFFICES ASSUME InfoInv, TablesSuffice(p), KnowsReserved(p),
                      NEW c \in Caches, NEW rsvd \in SUBSET Ways, rsvd # Ways
               PROVE  /\ GetVictim(p, repl[c], rsvd) # {}
                      /\ GetVictim(p, repl[c], rsvd) \subseteq Ways \ rsvd
    BY DEF VictimIsFree
  <2>1. IsPolicy(p) /\ InfoOK(p, repl[c], order[c])
    BY DEF InfoInv, IsPolicy, p
  <2> QED BY <2>1, VictimFree DEF Ways
<1> QED BY <1>1, InfoInductive, PTL

\* The way just used is not the one given up, and LRU gives up the one just made
\* LRU: for any number of ways and trees whose tables suffice.
THEOREM VictimsFollowUse == Spec /\ []TablesSuffice(p) => VictimFollowsUse
<1> DEFINE Follows ==
      \A c \in Caches : repl'[c] # repl[c] =>
          LET v == GetVictim(p, repl'[c], {})
          IN  \A w \in Ways :
                 /\ MakeMRU(c, w) /\ p.name # "Random" /\ p.ways > p.top * p.bottom => w \notin v
                 /\ MakeLRU(c, w) /\ p.name = "LRU" => v = {w}
<1>1. InfoInv /\ TablesSuffice(p) => Follows
  <2> SUFFICES ASSUME InfoInv, TablesSuffice(p), NEW c \in Caches, NEW w \in Ways
               PROVE  /\ MakeMRU(c, w) /\ p.name # "Random" /\ p.ways > p.top * p.bottom =>
                            w \notin GetVictim(p, repl'[c], {})
                      /\ MakeLRU(c, w) /\ p.name = "LRU" => GetVictim(p, repl'[c], {}) = {w}
    OBVIOUS
  <2>1. IsPolicy(p) /\ InfoOK(p, repl[c], order[c]) /\ w \in WaysOf(p) /\ c \in DOMAIN repl
    BY DEF InfoInv, IsPolicy, p, Ways
  <2>2. ASSUME MakeMRU(c, w), p.name # "Random", p.ways > p.top * p.bottom
        PROVE  w \notin GetVictim(p, repl'[c], {})
    <3>1. repl'[c] = makeMRU(p, repl[c], w)
      BY <2>1, <2>2 DEF MakeMRU
    <3> QED BY <2>1, <2>2, <3>1, VictimAfterMRU
  <2>3. ASSUME MakeLRU(c, w), p.name = "LRU" PROVE GetVictim(p, repl'[c], {}) = {w}
    <3>1. repl'[c] \in makeLRU(p, repl[c], w)
      BY <2>1, <2>3 DEF MakeLRU
    <3> QED BY <2>1, <2>3, <3>1, VictimAfterLRU
  <2> QED BY <2>2, <2>3
<1>2. VictimFollowsUse <=> [][Follows]_vars
  BY DEF VictimFollowsUse
<1> HIDE DEF Follows
<1> QED BY <1>1, <1>2, InfoInductive, PTL
=============================================================================
