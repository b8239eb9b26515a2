--------------------------- MODULE ClockContract ---------------------------
(***************************************************************************)
(* What every clock server of libasim promises the modules it clocks,      *)
(* whichever implementation (sequential, basic threaded, fuzzy barrier,    *)
(* lock-free, dynamic) is selected in the build.                           *)
(*                                                                         *)
(* A clock registry is one (domain, skew) pair.  It is due at base cycle   *)
(* nBaseCycle[r] and has completed nCycle[r] cycles.  Each callback        *)
(* registered with it is called once for every cycle of the registry, in   *)
(* order; a registry moves to its next cycle only after all its callbacks  *)
(* have been called, the earliest registries first; and no callback runs   *)
(* more than Lookahead base cycles ahead of the earliest registry.         *)
(***************************************************************************)
EXTENDS Integers

CONSTANTS
    Registry,     \* clock registries
    Callback,     \* callbacks registered with them (modules, rate matchers)
    cbReg,        \* registry of each callback
    Lookahead     \* how far a callback may run ahead, in base cycles

VARIABLES
    nBaseCycle,   \* base cycle at which each registry is due
    nCycle,       \* cycles completed by each registry
    calls         \* calls made to each callback

contractVars == <<nBaseCycle, nCycle, calls>>

Init ==
    /\ nBaseCycle \in [Registry -> Nat]
    /\ nCycle = [r \in Registry |-> 0]
    /\ calls = [c \in Callback |-> 0]

\* A callback is called for the cycle its registry has not completed yet.
Call(c) ==
    /\ calls[c] = nCycle[cbReg[c]]
    /\ \A r \in Registry : nBaseCycle[cbReg[c]] <= nBaseCycle[r] + Lookahead
    /\ calls' = [calls EXCEPT ![c] = @ + 1]
    /\ UNCHANGED <<nBaseCycle, nCycle>>

\* The registries due at base cycle t complete their cycle.
Tick(t) ==
    LET Due == {r \in Registry : nBaseCycle[r] = t}
    IN  /\ Due # {}
        /\ \A r \in Registry : t <= nBaseCycle[r]
        /\ \A c \in Callback : cbReg[c] \in Due => calls[c] = nCycle[cbReg[c]] + 1
        /\ nCycle' = [r \in Registry |-> IF r \in Due THEN nCycle[r] + 1 ELSE nCycle[r]]
        /\ nBaseCycle' \in [Registry -> Nat]
        /\ \A r \in Due : nBaseCycle'[r] > t
        /\ \A r \in Registry \ Due : nBaseCycle'[r] = nBaseCycle[r]
        /\ UNCHANGED calls

\* The clock server is stopped and initialised again with fresh registries.
Restart ==
    /\ nBaseCycle' \in [Registry -> Nat]
    /\ nCycle' = [r \in Registry |-> 0]
    /\ calls' = [c \in Callback |-> 0]

Next ==
    \/ \E c \in Callback : Call(c)
    \/ \E r \in Registry : Tick(nBaseCycle[r])
    \/ Restart

Spec == Init /\ [][Next]_contractVars
=============================================================================
