---------------------------- MODULE PortContract ----------------------------
(***************************************************************************)
(* What a port promises its two endpoints: a first-in first-out channel    *)
(* whose items become readable a fixed number of cycles after they were    *)
(* written, none lost, duplicated or overtaken.                            *)
(***************************************************************************)
EXTENDS Integers, Sequences

CONSTANTS
    Item,         \* what may be written
    Latency       \* cycles from write to read

VARIABLES
    cycle,        \* current cycle of both endpoints
    inflight,     \* [item, due] written and not yet read, oldest first
    active,       \* has the reader not been deactivated?
    lastRead      \* the item most recently read, 0 if none

contractVars == <<cycle, inflight, active, lastRead>>

Init ==
    /\ cycle = 0 /\ inflight = <<>> /\ active = TRUE /\ lastRead = 0

Tick == /\ cycle' = cycle + 1
        /\ UNCHANGED <<inflight, active, lastRead>>

\* Only a port that nobody reads any more may drop its oldest items.
Write(x) ==
    /\ \E k \in 0..Len(inflight) :
         /\ k > 0 => ~active
         /\ inflight' = Append(SubSeq(inflight, k + 1, Len(inflight)),
                               [item |-> x, due |-> cycle + Latency])
    /\ UNCHANGED <<cycle, active, lastRead>>

Read ==
    /\ inflight # <<>> /\ Head(inflight).due <= cycle
    /\ lastRead' = Head(inflight).item
    /\ inflight' = Tail(inflight)
    /\ UNCHANGED <<cycle, active>>

\* A stall moves everything in flight by one cycle.
Delay ==
    /\ inflight' = [i \in 1..Len(inflight) |-> [inflight[i] EXCEPT !.due = @ + 1]]
    /\ UNCHANGED <<cycle, active, lastRead>>

Clear == inflight' = <<>> /\ UNCHANGED <<cycle, active, lastRead>>

Deactivate == active' = FALSE /\ UNCHANGED <<cycle, inflight, lastRead>>

Next ==
    \/ Tick \/ Read \/ Delay \/ Clear \/ Deactivate
    \/ \E x \in Item : Write(x)

Spec == Init /\ [][Next]_contractVars
=============================================================================
