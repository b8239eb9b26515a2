------------------------ MODULE MCBasicClockServer ------------------------
(* Small instances of BasicClockServer. *)
EXTENDS BasicClockServer, TLC

CONSTANTS t1, t2, fast, slow

\* Two threads with a callback each at the cycles both domains share; only t1
\* has work at the other cycles.
MCregDomain == [f |-> fast, s |-> slow]
MCcbReg     == [f1 |-> "f", s1 |-> "s", s2 |-> "s", w2 |-> "f"]
MCcbThread  == [f1 |-> t1, s1 |-> t1, s2 |-> t2, w2 |-> t1]
MCInitStep  == (fast :> 1 @@ slow :> 2)
MCSteps     == (fast :> {1} @@ slow :> {2, 3})

\* Every combination that has a signal for each wait.
MCVariants == {v \in Variant : ~(v.signalling /\ v.single)}

\* The phase of a worker that has exited is out of step with the server's, so
\* the single signal is initialised once; the flags may be used again.
MCRestarts == [v \in MCVariants |-> IF v.single THEN 0 ELSE 1]
=============================================================================
