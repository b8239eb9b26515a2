----------------------- MODULE MCDynamicClockServer -----------------------
(* Small instances of DynamicClockServer. *)
EXTENDS DynamicClockServer, TLC

CONSTANTS p1, p2

\* Three tasks for two pthreads; the third has work at the slow cycles only.
MCevents    == <<"f", "s">>
MCfirstTime == [f |-> 0, s |-> 1]
MCInitStep  == [f |-> 2, s |-> 3]
MCcbReg     == [f1 |-> "f", f2 |-> "f", s3 |-> "s", w1 |-> "s"]
MCcbTask    == [f1 |-> 1, f2 |-> 2, s3 |-> 3, w1 |-> 1]

\* Every scheduler; builds whose next_event_valid() yields FALSE and, with one
\* scheduler, builds in which it yields what is_valid() has returned.  The
\* server stops where the scheduler survives it and the main thread only serves.
MCVariants ==
    {v \in Variant : /\ v.stops = (v.algorithm # "AlwaysEarliest" /\ ~v.skips /\ ~v.isWorker)
                     /\ v.skips => v.algorithm = "ReadyToRun"
                     /\ v.algorithm \in {"Simple", "ReadyOrEarliest"} => ~v.isWorker}
=============================================================================
