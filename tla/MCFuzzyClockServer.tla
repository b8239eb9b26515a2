------------------------ MODULE MCFuzzyClockServer ------------------------
(* Small instances of FuzzyClockServer. *)
EXTENDS FuzzyClockServer, TLC

CONSTANTS t1, t2,      \* threads
          fast, slow   \* clock domains

\* A fast domain with one registry, and a slow one with a registry of skew 0
\* and one of skew 50.  Each thread has a module in the fast domain, so both
\* are needed at its every cycle; the writer rate matcher is clocked with the
\* registry of its reader but by the thread of its writer.
MCregDomain == [f |-> fast, s |-> slow, h |-> slow]
MCnSkew     == [f |-> 0, s |-> 0, h |-> 50]
MCcbReg     == [f1 |-> "f", f2 |-> "f", s1 |-> "s", h2 |-> "h", w2 |-> "s"]
MCcbThread  == [f1 |-> t1, f2 |-> t2, s1 |-> t1, h2 |-> t2, w2 |-> t2]
MCInitStep  == (fast :> 2 @@ slow :> 4)

\* slow may switch to another frequency; both periods exceed the lookahead
MCSteps     == (fast :> {2} @@ slow :> {3, 4})
\* every domain keeps its frequency
MCFixedSteps == (fast :> {2} @@ slow :> {4})

\* what the memory of a new thread object holds where localDoneTime is
MCNegative == {-1}
=============================================================================
